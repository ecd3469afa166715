-------------------------- MODULE CfiProgramProofs --------------------------
(***************************************************************************)
(* The proof that the interpreter computes the row that the instructions   *)
(* define, and returns every register state, for programs of any length    *)
(* and any depth of remembered states.                                     *)
(*                                                                         *)
(* The argument counts: the depth of a prefix of the program is the number *)
(* of its remember_states less that of its restore_states.  A remembered   *)
(* row belongs to the last remember_state before which the depth was lower *)
(* than it has been ever since.                                            *)
(***************************************************************************)
EXTENDS CfiProgram, FiniteSetTheorems, SequenceTheorems, TLAPS

Row == [Columns -> [where : Where, val : Int]]
Entry == [ins : Instruction, curr_ip : Int]

Types ==
  /\ pc \in {"cie", "fde", "done"} /\ curr_ip \in Int
  /\ row \in Row /\ initial \in Row /\ rs_stack \in Seq(Row)
  /\ in_use \in Int /\ hist \in Seq(Entry)
-----------------------------------------------------------------------------
(* The definitions behind RowIsByDefinition for any program h, any prefix of it, any *)
(* row s to start from and any initial row i.                                        *)

OpOf(h, n) == h[n].ins.op
CountIn(h, op, a, b) == Cardinality({m \in a..b : OpOf(h, m) = op})
Depth(h, n) == CountIn(h, "remember_state", 1, n) - CountIn(h, "restore_state", 1, n)

\* Pair, in terms of the depth.
Matches(h, m, n) ==
  /\ m < n /\ OpOf(h, m) = "remember_state" /\ OpOf(h, n) = "restore_state"
  /\ \A p \in m..(n - 1) : Depth(h, p) >= Depth(h, m)
  /\ Depth(h, n - 1) = Depth(h, m)

EnclosedIn(h, p, n) == \E m \in 1..(p - 1), k \in (p + 1)..n : Matches(h, m, k)

\* The writes to a column that count at the end of a prefix.
Live(h, n, c) == {p \in 1..n : Writes(h[p].ins, c) /\ ~EnclosedIn(h, p, n)}

WrittenFrom(i, ins, c) ==
  CASE ins.op \in RuleOps -> Rule(ins)
    [] ins.op \in RestoreOps -> i[c]
    [] c = CfaOff -> CfaOffset(ins)
    [] ins.op = "def_cfa_expression" -> Loc("expr", ins.val)
    [] OTHER -> Loc("reg", ins.reg)

ColumnBy(h, n, r, s, i, c) ==
  \/ Live(h, n, c) = {} /\ r[c] = s[c]
  \/ \E p \in Live(h, n, c) :
       (\A q \in Live(h, n, c) : q <= p) /\ r[c] = WrittenFrom(i, h[p].ins, c)

RowBy(h, n, r, s, i) == \A c \in Columns : ColumnBy(h, n, r, s, i, c)

\* The row r2 is the row r with the rules that an instruction writes.
Overwrites(r2, r, ins, i) ==
  \A c \in Columns : r2[c] = IF Writes(ins, c) THEN WrittenFrom(i, ins, c) ELSE r[c]

\* The remember_state at m is not undone: since it, the depth has been above d.
Open(h, m, d) ==
  /\ OpOf(h, m) = "remember_state" /\ Depth(h, m - 1) = d
  /\ \A p \in m..Len(h) : Depth(h, p) > d

\* The row and the remembered rows are those that the program defines.
Defined(h, r, st, s, i) ==
  /\ Len(st) = Depth(h, Len(h))
  /\ RowBy(h, Len(h), r, s, i)
  /\ \A k \in 1..Len(st) : \E m \in 1..Len(h) :
       Open(h, m, Len(st) - k) /\ RowBy(h, m - 1, st[k], s, i)

Base == IF pc = "cie" THEN [c \in Columns |-> Loc("same", 0)] ELSE initial

IInv ==
  /\ Types /\ StatesReturned
  /\ pc # "done" => Defined(hist, row, rs_stack, Base, initial)
-----------------------------------------------------------------------------
\* One more instruction is counted.
LEMMA CountOneMore ==
  ASSUME NEW h, NEW op, NEW n \in Nat
  PROVE  /\ CountIn(h, op, 1, n) \in Nat
         /\ CountIn(h, op, 1, n + 1) =
              IF OpOf(h, n + 1) = op THEN CountIn(h, op, 1, n) + 1 ELSE CountIn(h, op, 1, n)
<1> DEFINE S == {m \in 1..n : OpOf(h, m) = op}
           T == {m \in 1..(n + 1) : OpOf(h, m) = op}
<1>1. IsFiniteSet(1..n) /\ S \in SUBSET (1..n)
  BY FS_Interval
<1>2. IsFiniteSet(S) /\ Cardinality(S) \in Nat
  BY <1>1, FS_Subset, FS_CardinalityType
<1>3. n + 1 \notin S
  OBVIOUS
<1>4. CASE OpOf(h, n + 1) = op
  <2>1. T = S \cup {n + 1}
    BY <1>4
  <2>2. Cardinality(S \cup {n + 1}) = Cardinality(S) + 1
    BY <1>2, <1>3, FS_AddElement
  <2> QED BY <1>2, <1>4, <2>1, <2>2 DEF CountIn
<1>5. CASE OpOf(h, n + 1) # op
  <2>1. T = S
    BY <1>5
  <2> QED BY <1>2, <1>5, <2>1 DEF CountIn
<1> QED BY <1>4, <1>5

\* A program is counted in two parts.
LEMMA CountSplit ==
  ASSUME NEW h, NEW op, NEW m \in Nat, NEW p \in Nat, m <= p
  PROVE  /\ CountIn(h, op, m + 1, p) \in Nat
         /\ CountIn(h, op, 1, p) = CountIn(h, op, 1, m) + CountIn(h, op, m + 1, p)
<1> DEFINE S == {k \in 1..m : OpOf(h, k) = op}
           T == {k \in (m + 1)..p : OpOf(h, k) = op}
<1>1. IsFiniteSet(1..m) /\ IsFiniteSet((m + 1)..p)
  BY FS_Interval
<1>2. S \in SUBSET (1..m) /\ T \in SUBSET ((m + 1)..p)
  OBVIOUS
<1>3. IsFiniteSet(S) /\ IsFiniteSet(T)
  BY <1>1, <1>2, FS_Subset
<1>4. Cardinality(S) \in Nat /\ Cardinality(T) \in Nat
  BY <1>3, FS_CardinalityType
<1>5. {k \in 1..p : OpOf(h, k) = op} = S \cup T
  OBVIOUS
<1>6. S \cap T = {}
  OBVIOUS
<1>7. Cardinality(S \cup T) = Cardinality(S) + Cardinality(T) - Cardinality(S \cap T)
  BY <1>3, FS_Union
<1>8. Cardinality(S \cap T) = 0
  BY <1>6, FS_EmptySet
<1>9. Cardinality(S \cup T) = Cardinality(S) + Cardinality(T)
  BY <1>4, <1>7, <1>8
<1> QED BY <1>4, <1>5, <1>9 DEF CountIn

\* The depth changes by at most one with every instruction.
LEMMA DepthStep ==
  ASSUME NEW h, NEW n \in Nat
  PROVE  /\ Depth(h, n) \in Int
         /\ OpOf(h, n + 1) = "remember_state" => Depth(h, n + 1) = Depth(h, n) + 1
         /\ OpOf(h, n + 1) = "restore_state" => Depth(h, n + 1) = Depth(h, n) - 1
         /\ OpOf(h, n + 1) \notin {"remember_state", "restore_state"} =>
              Depth(h, n + 1) = Depth(h, n)
<1>1. /\ CountIn(h, "remember_state", 1, n) \in Nat
      /\ CountIn(h, "remember_state", 1, n + 1) =
           IF OpOf(h, n + 1) = "remember_state" THEN CountIn(h, "remember_state", 1, n) + 1
           ELSE CountIn(h, "remember_state", 1, n)
  BY CountOneMore
<1>2. /\ CountIn(h, "restore_state", 1, n) \in Nat
      /\ CountIn(h, "restore_state", 1, n + 1) =
           IF OpOf(h, n + 1) = "restore_state" THEN CountIn(h, "restore_state", 1, n) + 1
           ELSE CountIn(h, "restore_state", 1, n)
  BY CountOneMore
<1> QED BY <1>1, <1>2 DEF Depth

\* Before the first instruction the depth is zero.
LEMMA DepthZero == ASSUME NEW h PROVE Depth(h, 0) = 0
<1>1. \A op : {m \in 1..0 : OpOf(h, m) = op} = {}
  OBVIOUS
<1>2. \A op : CountIn(h, op, 1, 0) = 0
  BY <1>1, FS_EmptySet DEF CountIn
<1> QED BY <1>2 DEF Depth

\* The pairs of the definition are those that the depth matches.
LEMMA PairMatches ==
  ASSUME NEW m \in Nat \ {0}, NEW n \in Nat \ {0}
  PROVE  Pair(m, n) <=> Matches(hist, m, n)
<1>0. \A op, a, b : Count(op, a, b) = CountIn(hist, op, a, b)
  BY DEF Count, CountIn, Op, OpOf
<1>1. ASSUME NEW p \in Nat, m <= p
      PROVE  /\ Count("restore_state", m + 1, p) \in Nat
             /\ Count("remember_state", m + 1, p) \in Nat
             /\ Depth(hist, p) - Depth(hist, m) =
                  Count("remember_state", m + 1, p) - Count("restore_state", m + 1, p)
             /\ Depth(hist, p) \in Int /\ Depth(hist, m) \in Int
  <2>1. /\ CountIn(hist, "remember_state", m + 1, p) \in Nat
        /\ CountIn(hist, "remember_state", 1, p) =
             CountIn(hist, "remember_state", 1, m) + CountIn(hist, "remember_state", m + 1, p)
    BY <1>1, CountSplit
  <2>2. /\ CountIn(hist, "restore_state", m + 1, p) \in Nat
        /\ CountIn(hist, "restore_state", 1, p) =
             CountIn(hist, "restore_state", 1, m) + CountIn(hist, "restore_state", m + 1, p)
    BY <1>1, CountSplit
  <2>3. CountIn(hist, "remember_state", 1, m) \in Nat /\ CountIn(hist, "restore_state", 1, m) \in Nat
    BY CountOneMore
  <2>4. Depth(hist, p) - Depth(hist, m) =
          CountIn(hist, "remember_state", m + 1, p) - CountIn(hist, "restore_state", m + 1, p)
    BY <2>1, <2>2, <2>3 DEF Depth
  <2>5. Depth(hist, p) \in Int /\ Depth(hist, m) \in Int
    BY DepthStep
  <2> QED BY <1>0, <2>1, <2>2, <2>4, <2>5
<1>2. \A k : Op(k) = OpOf(hist, k)
  BY DEF Op, OpOf
<1>3. CASE m < n
  <2>1. n - 1 \in Nat /\ m <= n - 1
    BY <1>3
  <2>2. Count("restore_state", m + 1, n - 1) = Count("remember_state", m + 1, n - 1)
          <=> Depth(hist, n - 1) = Depth(hist, m)
    BY <1>1, <2>1
  <2>3. \A p \in (m + 1)..(n - 1) :
          Count("restore_state", m + 1, p) <= Count("remember_state", m + 1, p)
            <=> Depth(hist, p) >= Depth(hist, m)
    <3> TAKE p \in (m + 1)..(n - 1)
    <3>1. p \in Nat /\ m <= p
      OBVIOUS
    <3> QED BY <1>1, <3>1
  <2>4. Depth(hist, m) >= Depth(hist, m)
    BY <1>1
  <2>5. m..(n - 1) = {m} \cup ((m + 1)..(n - 1))
    BY <2>1
  <2>6. (\A p \in m..(n - 1) : Depth(hist, p) >= Depth(hist, m))
          <=> \A p \in (m + 1)..(n - 1) : Depth(hist, p) >= Depth(hist, m)
    BY <2>4, <2>5
  <2> QED BY <1>2, <1>3, <2>2, <2>3, <2>6 DEF Pair, Matches
<1>4. CASE ~(m < n)
  BY <1>4 DEF Pair, Matches
<1> QED BY <1>3, <1>4
-----------------------------------------------------------------------------
\* An instruction that is appended changes nothing of the prefixes before it.
LEMMA PrefixKept ==
  ASSUME NEW h \in Seq(Entry), NEW x \in Entry, NEW h2, h2 = Append(h, x)
  PROVE  /\ h2 \in Seq(Entry) /\ Len(h) \in Nat /\ Len(h2) = Len(h) + 1
         /\ h2[Len(h) + 1] = x /\ \A n \in 1..Len(h) : h2[n] = h[n]
         /\ \A n \in 0..Len(h) : Depth(h2, n) = Depth(h, n)
         /\ \A m \in 1..Len(h), k \in 1..Len(h) : Matches(h2, m, k) <=> Matches(h, m, k)
<1>1. /\ h2 \in Seq(Entry) /\ Len(h) \in Nat /\ Len(h2) = Len(h) + 1
      /\ h2[Len(h) + 1] = x /\ \A n \in 1..Len(h) : h2[n] = h[n]
  BY AppendProperties
<1>2. ASSUME NEW n \in 0..Len(h) PROVE Depth(h2, n) = Depth(h, n)
  <2>1. \A m \in 1..n : OpOf(h2, m) = OpOf(h, m)
    BY <1>1 DEF OpOf
  <2>2. \A op : {m \in 1..n : OpOf(h2, m) = op} = {m \in 1..n : OpOf(h, m) = op}
    BY <2>1
  <2> QED BY <2>2 DEF Depth, CountIn
<1>3. ASSUME NEW m \in 1..Len(h), NEW k \in 1..Len(h) PROVE Matches(h2, m, k) <=> Matches(h, m, k)
  <2>1. OpOf(h2, m) = OpOf(h, m) /\ OpOf(h2, k) = OpOf(h, k)
    BY <1>1 DEF OpOf
  <2>2. k - 1 \in 0..Len(h) /\ m \in 0..Len(h) /\ \A p \in m..(k - 1) : p \in 0..Len(h)
    BY <1>1
  <2> QED BY <1>2, <2>1, <2>2 DEF Matches
<1> QED BY <1>1, <1>2, <1>3

LEMMA DepthKept ==
  ASSUME NEW h \in Seq(Entry), NEW x \in Entry, NEW h2, h2 = Append(h, x), NEW n \in 0..Len(h)
  PROVE  Depth(h2, n) = Depth(h, n)
BY PrefixKept

LEMMA LiveKept ==
  ASSUME NEW h \in Seq(Entry), NEW x \in Entry, NEW h2, h2 = Append(h, x),
         NEW n \in 0..Len(h), NEW c
  PROVE  Live(h2, n, c) = Live(h, n, c)
<1>0. Len(h) \in Nat
  OBVIOUS
<1>1. ASSUME NEW p \in 1..n PROVE EnclosedIn(h2, p, n) <=> EnclosedIn(h, p, n)
  <2>1. \A m \in 1..(p - 1) : m \in 1..Len(h)
    BY <1>0
  <2>2. \A k \in (p + 1)..n : k \in 1..Len(h)
    BY <1>0
  <2>3. \A m \in 1..Len(h), k \in 1..Len(h) : Matches(h2, m, k) <=> Matches(h, m, k)
    BY PrefixKept
  <2> QED BY <2>1, <2>2, <2>3 DEF EnclosedIn
<1>2. \A p \in 1..n : p \in 1..Len(h)
  BY <1>0
<1>3. \A p \in 1..n : h2[p] = h[p]
  BY <1>2, PrefixKept
<1> QED BY <1>1, <1>3 DEF Live

\* So do the rows that the prefixes define.
LEMMA RowByKept ==
  ASSUME NEW h \in Seq(Entry), NEW x \in Entry, NEW h2, h2 = Append(h, x),
         NEW n \in 0..Len(h), NEW r, NEW s, NEW i, RowBy(h, n, r, s, i)
  PROVE  RowBy(h2, n, r, s, i)
<1>1. \A k \in 1..Len(h) : h2[k] = h[k]
  BY PrefixKept
<1>2. ASSUME NEW c PROVE Live(h2, n, c) = Live(h, n, c)
  BY LiveKept
<1>3. Len(h) \in Nat
  OBVIOUS
<1> SUFFICES ASSUME NEW c \in Columns PROVE ColumnBy(h2, n, r, s, i, c)
  BY DEF RowBy
<1>4. ColumnBy(h, n, r, s, i, c)
  BY DEF RowBy
<1>5. \A p \in Live(h, n, c) : p \in 1..n
  BY DEF Live
<1>6. \A p \in 1..n : p \in 1..Len(h)
  BY <1>3
<1>7. \A p \in Live(h, n, c) : h2[p] = h[p]
  BY <1>1, <1>5, <1>6
<1> QED BY <1>2, <1>4, <1>7 DEF ColumnBy

\* An instruction other than restore_state encloses nothing more.
LEMMA LiveOneMore ==
  ASSUME NEW h \in Seq(Entry), NEW x \in Entry, NEW h2, h2 = Append(h, x),
         x.ins.op # "restore_state", NEW c
  PROVE  Live(h2, Len(h) + 1, c) =
           IF Writes(x.ins, c) THEN Live(h, Len(h), c) \cup {Len(h) + 1} ELSE Live(h, Len(h), c)
<1>0. PICK n \in Nat : n = Len(h)
  OBVIOUS
<1>1. /\ h2[n + 1] = x /\ \A k \in 1..n : h2[k] = h[k]
      /\ n \in 0..Len(h)
  BY <1>0, PrefixKept
<1>2. Live(h2, n, c) = Live(h, n, c)
  BY <1>1, LiveKept
<1>3. \A m : ~Matches(h2, m, n + 1)
  <2>1. OpOf(h2, n + 1) # "restore_state"
    BY <1>1 DEF OpOf
  <2> QED BY <2>1 DEF Matches
<1>4. ASSUME NEW p \in 1..n PROVE EnclosedIn(h2, p, n + 1) <=> EnclosedIn(h2, p, n)
  <2>1. (p + 1)..(n + 1) = ((p + 1)..n) \cup {n + 1}
    OBVIOUS
  <2> QED BY <1>3, <2>1 DEF EnclosedIn
<1>5. ~EnclosedIn(h2, n + 1, n + 1)
  <2>1. ((n + 1) + 1)..(n + 1) = {}
    OBVIOUS
  <2> QED BY <2>1 DEF EnclosedIn
<1>6. 1..(n + 1) = (1..n) \cup {n + 1}
  OBVIOUS
<1>7. Live(h2, n + 1, c) = IF Writes(x.ins, c) THEN Live(h2, n, c) \cup {n + 1} ELSE Live(h2, n, c)
  BY <1>1, <1>4, <1>5, <1>6 DEF Live
<1> QED BY <1>0, <1>7, <1>2

\* The row after an instruction other than restore_state.
LEMMA RowOneMore ==
  ASSUME NEW h \in Seq(Entry), NEW x \in Entry, NEW h2, h2 = Append(h, x),
         x.ins.op # "restore_state", NEW r, NEW r2, NEW s, NEW i, RowBy(h, Len(h), r, s, i),
         \A c \in Columns :
           r2[c] = IF Writes(x.ins, c) THEN WrittenFrom(i, x.ins, c) ELSE r[c]
  PROVE  RowBy(h2, Len(h) + 1, r2, s, i)
<1> SUFFICES ASSUME NEW c \in Columns PROVE ColumnBy(h2, Len(h) + 1, r2, s, i, c)
  BY DEF RowBy
<1>0. PICK n \in Nat : n = Len(h)
  OBVIOUS
<1>1. ColumnBy(h, n, r, s, i, c)
  BY <1>0 DEF RowBy
<1>2. h2[n + 1] = x /\ \A k \in 1..n : h2[k] = h[k]
  BY <1>0, PrefixKept
<1>3. \A p \in Live(h, n, c) : p \in 1..n
  BY DEF Live
<1>4. Live(h2, n + 1, c) =
        IF Writes(x.ins, c) THEN Live(h, n, c) \cup {n + 1} ELSE Live(h, n, c)
  BY <1>0, LiveOneMore
<1>5. CASE Writes(x.ins, c)
  <2>1. n + 1 \in Live(h2, n + 1, c) /\ \A q \in Live(h2, n + 1, c) : q <= n + 1
    BY <1>3, <1>4, <1>5
  <2>2. r2[c] = WrittenFrom(i, h2[n + 1].ins, c)
    BY <1>2, <1>5
  <2> QED BY <1>0, <2>1, <2>2 DEF ColumnBy
<1>6. CASE ~Writes(x.ins, c)
  <2>1. Live(h2, n + 1, c) = Live(h, n, c) /\ r2[c] = r[c]
    BY <1>4, <1>6
  <2>2. \A p \in Live(h, n, c) : h2[p] = h[p]
    BY <1>2, <1>3
  <2> QED BY <1>0, <1>1, <2>1, <2>2 DEF ColumnBy
<1> QED BY <1>5, <1>6

\* A remember_state stays open as long as the depth stays above its own.
LEMMA OpenKept ==
  ASSUME NEW h \in Seq(Entry), NEW x \in Entry, NEW h2, h2 = Append(h, x),
         NEW d \in Int, NEW m \in 1..Len(h), Open(h, m, d), Depth(h2, Len(h) + 1) > d
  PROVE  Open(h2, m, d)
<1>1. /\ Len(h) \in Nat /\ Len(h2) = Len(h) + 1 /\ h2[m] = h[m]
  BY PrefixKept
<1>0. ASSUME NEW n \in 0..Len(h) PROVE Depth(h2, n) = Depth(h, n)
  BY DepthKept
<1>2. m - 1 \in 0..Len(h) /\ \A p \in m..Len(h) : p \in 0..Len(h)
  BY <1>1
<1>3. m..Len(h2) = (m..Len(h)) \cup {Len(h) + 1}
  BY <1>1
<1>4. \A p \in m..Len(h) : Depth(h2, p) > d
  BY <1>0, <1>1, <1>2 DEF Open
<1> QED BY <1>0, <1>1, <1>2, <1>3, <1>4 DEF Open, OpOf

\* An instruction that neither remembers nor restores a state.
LEMMA PlainDefined ==
  ASSUME NEW h \in Seq(Entry), NEW x \in Entry, NEW h2, h2 = Append(h, x),
         x.ins.op \notin {"remember_state", "restore_state"},
         NEW r, NEW r2, NEW st \in Seq(Row), NEW s, NEW i, Defined(h, r, st, s, i),
         Overwrites(r2, r, x.ins, i)
  PROVE  Defined(h2, r2, st, s, i)
<1>1. /\ Len(h) \in Nat /\ Len(h2) = Len(h) + 1 /\ h2[Len(h) + 1] = x
  BY PrefixKept
<1>0. ASSUME NEW n \in 0..Len(h) PROVE Depth(h2, n) = Depth(h, n)
  BY DepthKept
<1>2. OpOf(h2, Len(h) + 1) = x.ins.op
  BY <1>1 DEF OpOf
<1>3. Depth(h2, Len(h) + 1) = Depth(h, Len(h)) /\ Depth(h, Len(h)) \in Int
  <2>1. Depth(h2, Len(h) + 1) = Depth(h2, Len(h))
    BY <1>1, <1>2, DepthStep
  <2>2. Depth(h, Len(h)) \in Int
    BY <1>1, DepthStep
  <2> QED BY <1>0, <1>1, <2>1, <2>2
<1>4. Len(st) = Depth(h2, Len(h2))
  BY <1>1, <1>3 DEF Defined
<1>5. RowBy(h2, Len(h2), r2, s, i)
  <2>1. RowBy(h, Len(h), r, s, i)
    BY DEF Defined
  <2>2. RowBy(h2, Len(h) + 1, r2, s, i)
    BY <2>1, RowOneMore DEF Overwrites
  <2> QED BY <1>1, <2>2
<1>6. ASSUME NEW k \in 1..Len(st)
      PROVE  \E m \in 1..Len(h2) : Open(h2, m, Len(st) - k) /\ RowBy(h2, m - 1, st[k], s, i)
  <2>1. PICK m \in 1..Len(h) : Open(h, m, Len(st) - k) /\ RowBy(h, m - 1, st[k], s, i)
    BY DEF Defined
  <2>2. Len(st) \in Nat /\ Len(st) - k \in Int /\ Depth(h2, Len(h) + 1) > Len(st) - k
    BY <1>1, <1>3, <1>4
  <2>3. Open(h2, m, Len(st) - k)
    BY <2>1, <2>2, OpenKept
  <2>4. m - 1 \in 0..Len(h) /\ m \in 1..Len(h2)
    BY <1>1
  <2>5. RowBy(h2, m - 1, st[k], s, i)
    BY <2>1, <2>4, RowByKept
  <2> QED BY <2>3, <2>4, <2>5
<1> QED BY <1>4, <1>5, <1>6 DEF Defined

\* remember_state: the row is the one that the program defines up to it.
LEMMA RememberDefined ==
  ASSUME NEW h \in Seq(Entry), NEW x \in Entry, NEW h2, h2 = Append(h, x),
         x.ins.op = "remember_state",
         NEW r \in Row, NEW st \in Seq(Row), NEW s, NEW i, Defined(h, r, st, s, i)
  PROVE  Defined(h2, r, <<r>> \o st, s, i)
<1>1. /\ Len(h) \in Nat /\ Len(h2) = Len(h) + 1 /\ h2[Len(h) + 1] = x
  BY PrefixKept
<1>0. ASSUME NEW n \in 0..Len(h) PROVE Depth(h2, n) = Depth(h, n)
  BY DepthKept
<1>2. PICK st2 \in Seq(Row) : st2 = <<r>> \o st
  <2>1. <<r>> \in Seq(Row)
    OBVIOUS
  <2> QED BY <2>1, ConcatProperties
<1>3. /\ Len(st) \in Nat /\ Len(st2) = Len(st) + 1 /\ st2[1] = r
      /\ \A k \in 2..Len(st2) : st2[k] = st[k - 1]
  <2>1. <<r>> \in Seq(Row) /\ Len(<<r>>) = 1 /\ <<r>>[1] = r
    OBVIOUS
  <2> QED BY <1>2, <2>1, ConcatProperties
<1>4. OpOf(h2, Len(h) + 1) = "remember_state"
  BY <1>1 DEF OpOf
<1>5. Depth(h2, Len(h) + 1) = Depth(h, Len(h)) + 1 /\ Depth(h, Len(h)) = Len(st)
  <2>1. Depth(h2, Len(h) + 1) = Depth(h2, Len(h)) + 1
    BY <1>1, <1>4, DepthStep
  <2> QED BY <1>0, <1>1, <2>1 DEF Defined
<1>6. Len(st2) = Depth(h2, Len(h2))
  BY <1>1, <1>3, <1>5
<1>7. RowBy(h, Len(h), r, s, i)
  BY DEF Defined
<1>8. RowBy(h2, Len(h2), r, s, i)
  <2>1. \A c : ~Writes(x.ins, c)
    BY DEF Writes, RuleOps, CfaRelOps, RestoreOps
  <2>2. RowBy(h2, Len(h) + 1, r, s, i)
    BY <1>7, <2>1, RowOneMore
  <2> QED BY <1>1, <2>2
<1>9. ASSUME NEW k \in 1..Len(st2)
      PROVE  \E m \in 1..Len(h2) : Open(h2, m, Len(st2) - k) /\ RowBy(h2, m - 1, st2[k], s, i)
  <2>1. CASE k = 1
    <3>1. /\ Len(h) + 1 \in 1..Len(h2) /\ (Len(h) + 1) - 1 = Len(h) /\ Len(st2) - k = Len(st)
          /\ (Len(h) + 1)..Len(h2) = {Len(h) + 1} /\ Len(h) \in 0..Len(h)
      BY <1>1, <1>3, <2>1
    <3>2. Depth(h2, Len(h)) = Len(st) /\ Depth(h2, Len(h) + 1) > Len(st)
      BY <1>0, <1>1, <1>3, <1>5, <3>1
    <3>3. Open(h2, Len(h) + 1, Len(st2) - k)
      BY <1>4, <3>1, <3>2 DEF Open
    <3>4. RowBy(h2, Len(h), r, s, i)
      BY <1>7, <3>1, RowByKept
    <3> QED BY <1>3, <2>1, <3>1, <3>3, <3>4
  <2>2. CASE k # 1
    <3>1. /\ k - 1 \in 1..Len(st) /\ st2[k] = st[k - 1] /\ Len(st2) - k = Len(st) - (k - 1)
          /\ Len(st2) - k \in Int /\ Depth(h2, Len(h) + 1) > Len(st2) - k
      BY <1>3, <1>5, <2>2
    <3>2. PICK m \in 1..Len(h) :
            Open(h, m, Len(st) - (k - 1)) /\ RowBy(h, m - 1, st[k - 1], s, i)
      BY <3>1 DEF Defined
    <3>3. Open(h2, m, Len(st2) - k)
      BY <3>1, <3>2, OpenKept
    <3>4. m - 1 \in 0..Len(h) /\ m \in 1..Len(h2)
      BY <1>1
    <3>5. RowBy(h2, m - 1, st2[k], s, i)
      BY <3>1, <3>2, <3>4, RowByKept
    <3> QED BY <3>3, <3>4, <3>5
  <2> QED BY <2>1, <2>2
<1> QED BY <1>2, <1>6, <1>8, <1>9 DEF Defined

\* restore_state, with m the remember_state on top of the stack: the two are a pair, m
\* is in no other one with an instruction behind it, and what is between them is enclosed.
LEMMA Straddle ==
  ASSUME NEW g, NEW n \in Nat, OpOf(g, n + 1) = "restore_state",
         NEW d \in Int, NEW m \in 1..n, OpOf(g, m) = "remember_state", Depth(g, m - 1) = d - 1,
         \A p \in m..n : Depth(g, p) > d - 1, Depth(g, n) = d
  PROVE  /\ Matches(g, m, n + 1)
         /\ \A l \in 1..n : Matches(g, l, n + 1) => l = m
         /\ \A l \in 1..(m - 1), k \in m..n : ~Matches(g, l, k)
<1>0. \A p \in Nat : Depth(g, p) \in Int
  BY DepthStep
<1>1. Depth(g, m) = d
  <2>1. m - 1 \in Nat /\ (m - 1) + 1 = m
    OBVIOUS
  <2>2. Depth(g, (m - 1) + 1) = Depth(g, m - 1) + 1
    BY <2>1, DepthStep
  <2> QED BY <2>1, <2>2
<1>2. Matches(g, m, n + 1)
  <2>1. m < n + 1 /\ (n + 1) - 1 = n
    OBVIOUS
  <2>2. \A p \in m..n : Depth(g, p) >= Depth(g, m)
    BY <1>0, <1>1
  <2> QED BY <1>1, <2>1, <2>2 DEF Matches
<1>3. ASSUME NEW l \in 1..n, Matches(g, l, n + 1) PROVE l = m
  <2>0. /\ OpOf(g, l) = "remember_state" /\ Depth(g, l) = d
        /\ \A p \in l..n : Depth(g, p) >= d
    <3>1. (n + 1) - 1 = n
      OBVIOUS
    <3> QED BY <1>3, <3>1 DEF Matches
  <2>1. CASE l < m
    <3>1. m - 1 \in l..n
      BY <2>1
    <3>2. Depth(g, m - 1) >= d
      BY <2>0, <3>1
    <3> QED BY <3>2
  <2>2. CASE l > m
    <3>1. l - 1 \in Nat /\ (l - 1) + 1 = l /\ l - 1 \in m..n
      BY <2>2
    <3>2. Depth(g, (l - 1) + 1) = Depth(g, l - 1) + 1
      BY <2>0, <3>1, DepthStep
    <3>3. Depth(g, l - 1) > d - 1 /\ Depth(g, l - 1) \in Int
      BY <1>0, <3>1
    <3> QED BY <2>0, <3>1, <3>2, <3>3
  <2> QED BY <2>1, <2>2
<1>4. ASSUME NEW l \in 1..(m - 1), NEW k \in m..n, Matches(g, l, k) PROVE FALSE
  <2>1. k # m
    BY <1>4 DEF Matches
  <2>2. k - 1 \in m..n /\ m - 1 \in l..(k - 1) /\ k - 1 \in Nat /\ l \in Nat
    BY <2>1
  <2>3. Depth(g, k - 1) = Depth(g, l) /\ Depth(g, m - 1) >= Depth(g, l)
    BY <1>4, <2>2 DEF Matches
  <2>4. Depth(g, k - 1) > d - 1 /\ Depth(g, l) \in Int
    BY <1>0, <2>2
  <2> QED BY <2>3, <2>4
<1> QED BY <1>2, <1>3, <1>4

\* The writes that count after a restore_state are those before its remember_state.
LEMMA LiveRestored ==
  ASSUME NEW g, NEW n \in Nat, OpOf(g, n + 1) = "restore_state",
         NEW m \in 1..n, OpOf(g, m) = "remember_state",
         Matches(g, m, n + 1),
         \A l \in 1..n : Matches(g, l, n + 1) => l = m,
         \A l \in 1..(m - 1), k \in m..n : ~Matches(g, l, k),
         NEW c
  PROVE  Live(g, n + 1, c) = Live(g, m - 1, c)
<1>0. \A p \in {m, n + 1} : ~Writes(g[p].ins, c)
  BY DEF OpOf, Writes, RuleOps, CfaRelOps, RestoreOps
<1>1. ASSUME NEW p \in Live(g, n + 1, c) PROVE p \in Live(g, m - 1, c)
  <2>1. p \in 1..(n + 1) /\ Writes(g[p].ins, c) /\ ~EnclosedIn(g, p, n + 1)
    BY DEF Live
  <2>2. p # m /\ p # n + 1
    BY <1>0, <2>1
  <2>3. ~(p > m)
    <3> SUFFICES ASSUME p > m PROVE FALSE
      OBVIOUS
    <3>1. m \in 1..(p - 1) /\ n + 1 \in (p + 1)..(n + 1)
      BY <2>1, <2>2
    <3> QED BY <2>1, <3>1 DEF EnclosedIn
  <2>4. p \in 1..(m - 1)
    BY <2>1, <2>2, <2>3
  <2>5. \A k \in (p + 1)..(m - 1) : k \in (p + 1)..(n + 1)
    BY <2>4
  <2>6. ~EnclosedIn(g, p, m - 1)
    BY <2>1, <2>5 DEF EnclosedIn
  <2> QED BY <2>1, <2>4, <2>6 DEF Live
<1>2. ASSUME NEW p \in Live(g, m - 1, c) PROVE p \in Live(g, n + 1, c)
  <2>1. p \in 1..(m - 1) /\ Writes(g[p].ins, c) /\ ~EnclosedIn(g, p, m - 1)
    BY DEF Live
  <2>2. p \in 1..(n + 1)
    BY <2>1
  <2>3. ASSUME NEW l \in 1..(p - 1), NEW k \in (p + 1)..(n + 1), Matches(g, l, k) PROVE FALSE
    <3>0. l \in 1..n /\ l \in 1..(m - 1) /\ l # m
      BY <2>1
    <3>1. CASE k = n + 1
      BY <2>3, <3>0, <3>1
    <3>2. CASE k < m
      <4>1. k \in (p + 1)..(m - 1)
        BY <3>2
      <4> QED BY <2>1, <2>3, <4>1 DEF EnclosedIn
    <3>3. CASE k # n + 1 /\ ~(k < m)
      <4>1. k \in m..n
        BY <2>1, <3>3
      <4> QED BY <2>3, <3>0, <4>1
    <3> QED BY <3>1, <3>2, <3>3
  <2>4. ~EnclosedIn(g, p, n + 1)
    BY <2>3 DEF EnclosedIn
  <2> QED BY <2>1, <2>2, <2>4 DEF Live
<1> QED BY <1>1, <1>2

\* restore_state
LEMMA RestoreDefined ==
  ASSUME NEW h \in Seq(Entry), NEW x \in Entry, NEW h2, h2 = Append(h, x),
         x.ins.op = "restore_state",
         NEW r, NEW st \in Seq(Row), st # <<>>, NEW s, NEW i, Defined(h, r, st, s, i)
  PROVE  Defined(h2, Head(st), Tail(st), s, i)
<1>1. /\ Len(h) \in Nat /\ Len(h2) = Len(h) + 1 /\ h2[Len(h) + 1] = x /\ h2 \in Seq(Entry)
      /\ \A n \in 1..Len(h) : h2[n] = h[n]
  BY PrefixKept
<1>0. ASSUME NEW n \in 0..Len(h) PROVE Depth(h2, n) = Depth(h, n)
  BY DepthKept
<1>2. /\ Len(st) \in Nat /\ Len(st) > 0 /\ Head(st) = st[1] /\ Tail(st) \in Seq(Row)
      /\ Len(Tail(st)) = Len(st) - 1
      /\ \A k \in 1..(Len(st) - 1) : Tail(st)[k] = st[k + 1]
  BY EmptySeq, HeadTailProperties
<1>3. OpOf(h2, Len(h) + 1) = "restore_state"
  BY <1>1 DEF OpOf
<1>4. Depth(h2, Len(h) + 1) = Len(st) - 1 /\ Depth(h2, Len(h)) = Len(st)
  <2>1. Depth(h2, Len(h) + 1) = Depth(h2, Len(h)) - 1
    BY <1>1, <1>3, DepthStep
  <2> QED BY <1>0, <1>1, <2>1 DEF Defined
<1>5. Len(Tail(st)) = Depth(h2, Len(h2))
  BY <1>1, <1>2, <1>4
<1>6. PICK m \in 1..Len(h) : Open(h, m, Len(st) - 1) /\ RowBy(h, m - 1, st[1], s, i)
  <2>1. 1 \in 1..Len(st)
    BY <1>2
  <2> QED BY <2>1 DEF Defined
<1>7. m - 1 \in 0..Len(h) /\ \A p \in m..Len(h) : p \in 0..Len(h)
  BY <1>1
<1>8. /\ OpOf(h2, m) = "remember_state" /\ Depth(h2, m - 1) = Len(st) - 1
      /\ \A p \in m..Len(h) : Depth(h2, p) > Len(st) - 1
  BY <1>0, <1>1, <1>6, <1>7 DEF Open, OpOf
<1>9. /\ Matches(h2, m, Len(h) + 1)
      /\ \A l \in 1..Len(h) : Matches(h2, l, Len(h) + 1) => l = m
      /\ \A l \in 1..(m - 1), k \in m..Len(h) : ~Matches(h2, l, k)
  <2>0. PICK n \in Nat : n = Len(h)
    BY <1>1
  <2>1. PICK d \in Nat : d = Len(st)
    OBVIOUS
  <2>2. /\ OpOf(h2, n + 1) = "restore_state" /\ m \in 1..n /\ d \in Int
        /\ OpOf(h2, m) = "remember_state" /\ Depth(h2, m - 1) = d - 1 /\ Depth(h2, n) = d
        /\ \A p \in m..n : Depth(h2, p) > d - 1
    BY <1>1, <1>3, <1>4, <1>8, <2>0, <2>1
  <2>3. /\ Matches(h2, m, n + 1)
        /\ \A l \in 1..n : Matches(h2, l, n + 1) => l = m
        /\ \A l \in 1..(m - 1), k \in m..n : ~Matches(h2, l, k)
    BY <2>2, Straddle
  <2> QED BY <2>0, <2>3
<1>10. RowBy(h2, m - 1, st[1], s, i)
  BY <1>6, <1>7, RowByKept
<1>11. RowBy(h2, Len(h2), Head(st), s, i)
  <2> SUFFICES ASSUME NEW c \in Columns PROVE ColumnBy(h2, Len(h) + 1, st[1], s, i, c)
    BY <1>1, <1>2 DEF RowBy
  <2>1. Live(h2, Len(h) + 1, c) = Live(h2, m - 1, c)
    BY <1>1, <1>3, <1>8, <1>9, LiveRestored
  <2>2. ColumnBy(h2, m - 1, st[1], s, i, c)
    BY <1>10 DEF RowBy
  <2> QED BY <2>1, <2>2 DEF ColumnBy
<1>12. ASSUME NEW k \in 1..Len(Tail(st))
       PROVE  \E l \in 1..Len(h2) :
                Open(h2, l, Len(Tail(st)) - k) /\ RowBy(h2, l - 1, Tail(st)[k], s, i)
  <2>1. /\ k + 1 \in 1..Len(st) /\ Tail(st)[k] = st[k + 1]
        /\ Len(Tail(st)) - k = Len(st) - (k + 1) /\ Len(st) - (k + 1) \in Int
        /\ Depth(h2, Len(h) + 1) > Len(st) - (k + 1)
    BY <1>2, <1>4
  <2>2. PICK l \in 1..Len(h) : Open(h, l, Len(st) - (k + 1)) /\ RowBy(h, l - 1, st[k + 1], s, i)
    BY <2>1 DEF Defined
  <2>3. Open(h2, l, Len(st) - (k + 1))
    BY <2>1, <2>2, OpenKept
  <2>4. l - 1 \in 0..Len(h) /\ l \in 1..Len(h2)
    BY <1>1
  <2>5. RowBy(h2, l - 1, st[k + 1], s, i)
    BY <2>2, <2>4, RowByKept
  <2> QED BY <2>1, <2>3, <2>4, <2>5
<1> QED BY <1>5, <1>11, <1>12 DEF Defined
-----------------------------------------------------------------------------
\* What the program may go on with are instructions.
LEMMA ReadableType == Readable \subseteq Instruction
BY CfiAssumption DEF Readable

LEMMA ColumnsOf ==
  /\ NumRegs \in Nat /\ CfaReg \in Columns /\ CfaOff \in Columns /\ CfaReg # CfaOff
  /\ \A n \in Nat : n < NumRegs => n \in Columns /\ n # CfaReg /\ n # CfaOff
BY CfiAssumption DEF CfaReg, CfaOff, Columns

LEMMA RuleType ==
  ASSUME NEW ins \in Instruction
  PROVE  /\ ins.op \in RuleOps => Rule(ins) \in [where : Where, val : Int]
         /\ CfaOffset(ins) \in [where : Where, val : Int]
         /\ Loc("reg", ins.reg) \in [where : Where, val : Int]
         /\ Loc("expr", ins.val) \in [where : Where, val : Int]
<1>0. ins.reg \in Nat /\ ins.val \in Int /\ DataAlign \in Int /\ ins.val * DataAlign \in Int
  BY CfiAssumption DEF Instruction
<1>1. ins.op \in RuleOps => Rule(ins) \in [where : Where, val : Int]
  BY <1>0 DEF Rule, RuleOps, CfaRelOps, Loc, Where
<1>2. CfaOffset(ins) \in [where : Where, val : Int]
  BY <1>0 DEF CfaOffset, Loc, Where
<1>3. /\ Loc("reg", ins.reg) \in [where : Where, val : Int]
      /\ Loc("expr", ins.val) \in [where : Where, val : Int]
  BY <1>0 DEF Loc, Where
<1> QED BY <1>1, <1>2, <1>3

\* The row after an instruction that neither remembers nor restores a state has the
\* rules that the instruction writes, and the others as before.
LEMMA RowAfterPlain ==
  ASSUME Types, NEW ins \in Instruction, ~Fails(ins),
         ins.op \notin {"remember_state", "restore_state"}
  PROVE  /\ RowAfter(ins) \in Row
         /\ \A c \in Columns : RowAfter(ins)[c] =
              IF Writes(ins, c) THEN WrittenFrom(initial, ins, c) ELSE row[c]
<1> USE DEF Row
<1>0. row \in Row /\ initial \in Row /\ ins.reg \in Nat /\ ins.val \in Int
  BY DEF Types, Instruction
<1>1. NamesReg(ins) => ins.reg < NumRegs
  BY <1>0, ColumnsOf DEF Fails
<1>2. CASE ins.op \in RuleOps
  <2>0. ins.reg \in Columns /\ ins.reg # CfaOff
    BY <1>0, <1>1, <1>2, ColumnsOf DEF NamesReg
  <2>1. RowAfter(ins) = [row EXCEPT ![ins.reg] = Rule(ins)]
    BY <1>2 DEF RowAfter, RuleOps, CfaRelOps, RestoreOps
  <2>2. \A c : Writes(ins, c) <=> c = ins.reg
    BY <1>2 DEF Writes, RuleOps, CfaRelOps, RestoreOps
  <2>3. WrittenFrom(initial, ins, ins.reg) = Rule(ins)
    BY <1>2, <2>0 DEF WrittenFrom, RuleOps, CfaRelOps, RestoreOps
  <2> QED BY <1>0, <1>2, <2>0, <2>1, <2>2, <2>3, RuleType
<1>3. CASE ins.op \in RestoreOps
  <2>0. ins.reg \in Columns /\ ins.reg # CfaOff
    BY <1>0, <1>1, <1>3, ColumnsOf DEF NamesReg
  <2>1. RowAfter(ins) = [row EXCEPT ![ins.reg] = initial[ins.reg]]
    BY <1>3 DEF RowAfter, Restored, RuleOps, CfaRelOps, RestoreOps
  <2>2. \A c : Writes(ins, c) <=> c = ins.reg
    BY <1>3 DEF Writes, RuleOps, CfaRelOps, RestoreOps
  <2>3. WrittenFrom(initial, ins, ins.reg) = initial[ins.reg]
    BY <1>3, <2>0 DEF WrittenFrom, RuleOps, CfaRelOps, RestoreOps
  <2> QED BY <1>0, <2>0, <2>1, <2>2, <2>3
<1>4. CASE ins.op \in {"def_cfa", "def_cfa_sf"}
  <2>1. RowAfter(ins) = [row EXCEPT ![CfaReg] = Loc("reg", ins.reg), ![CfaOff] = CfaOffset(ins)]
    BY <1>4 DEF RowAfter, RuleOps, CfaRelOps, RestoreOps
  <2>2. \A c : Writes(ins, c) <=> c \in {CfaReg, CfaOff}
    BY <1>4 DEF Writes, RuleOps, CfaRelOps, RestoreOps
  <2>3. /\ WrittenFrom(initial, ins, CfaReg) = Loc("reg", ins.reg)
        /\ WrittenFrom(initial, ins, CfaOff) = CfaOffset(ins)
    BY <1>4, ColumnsOf DEF WrittenFrom, RuleOps, CfaRelOps, RestoreOps
  <2> QED BY <1>0, <2>1, <2>2, <2>3, ColumnsOf, RuleType
<1>5. CASE ins.op = "def_cfa_register"
  <2>1. RowAfter(ins) = [row EXCEPT ![CfaReg] = Loc("reg", ins.reg)]
    BY <1>5 DEF RowAfter, RuleOps, CfaRelOps, RestoreOps
  <2>2. \A c : Writes(ins, c) <=> c = CfaReg
    BY <1>5 DEF Writes, RuleOps, CfaRelOps, RestoreOps
  <2>3. WrittenFrom(initial, ins, CfaReg) = Loc("reg", ins.reg)
    BY <1>5, ColumnsOf DEF WrittenFrom, RuleOps, CfaRelOps, RestoreOps
  <2> QED BY <1>0, <2>1, <2>2, <2>3, ColumnsOf, RuleType
<1>6. CASE ins.op \in {"def_cfa_offset", "def_cfa_offset_sf"}
  <2>1. RowAfter(ins) = [row EXCEPT ![CfaOff] = CfaOffset(ins)]
    BY <1>6 DEF RowAfter, RuleOps, CfaRelOps, RestoreOps
  <2>2. \A c : Writes(ins, c) <=> c = CfaOff
    BY <1>6 DEF Writes, RuleOps, CfaRelOps, RestoreOps
  <2>3. WrittenFrom(initial, ins, CfaOff) = CfaOffset(ins)
    BY <1>6, ColumnsOf DEF WrittenFrom, RuleOps, CfaRelOps, RestoreOps
  <2> QED BY <1>0, <2>1, <2>2, <2>3, ColumnsOf, RuleType
<1>7. CASE ins.op = "def_cfa_expression"
  <2>1. RowAfter(ins) = [row EXCEPT ![CfaReg] = Loc("expr", ins.val)]
    BY <1>7 DEF RowAfter, RuleOps, CfaRelOps, RestoreOps
  <2>2. \A c : Writes(ins, c) <=> c = CfaReg
    BY <1>7 DEF Writes, RuleOps, CfaRelOps, RestoreOps
  <2>3. WrittenFrom(initial, ins, CfaReg) = Loc("expr", ins.val)
    BY <1>7, ColumnsOf DEF WrittenFrom, RuleOps, CfaRelOps, RestoreOps
  <2> QED BY <1>0, <2>1, <2>2, <2>3, ColumnsOf, RuleType
<1>8. CASE ins.op \notin RuleOps \cup RestoreOps \cup CfaOps
  <2>1. RowAfter(ins) = row /\ \A c : ~Writes(ins, c)
    BY <1>8 DEF RowAfter, Writes, CfaOps
  <2> QED BY <1>0, <2>1
<1> QED BY <1>2, <1>3, <1>4, <1>5, <1>6, <1>7, <1>8 DEF CfaOps
-----------------------------------------------------------------------------
\* A program that starts.
LEMMA StartDefined ==
  ASSUME NEW h, NEW st, h = <<>>, st = <<>>, NEW r, NEW i
  PROVE  Defined(h, r, st, r, i)
<1>1. Len(h) = 0 /\ Len(st) = 0 /\ 1..0 = {}
  OBVIOUS
<1>2. Depth(h, Len(h)) = 0
  BY <1>1, DepthZero
<1>3. \A c : Live(h, Len(h), c) = {}
  BY <1>1 DEF Live
<1>4. RowBy(h, Len(h), r, r, i)
  BY <1>3 DEF RowBy, ColumnBy
<1> QED BY <1>1, <1>2, <1>4 DEF Defined

LEMMA InitIInv == Init => IInv
<1> SUFFICES ASSUME Init PROVE IInv
  OBVIOUS
<1>1. /\ Loc("same", 0) \in [where : Where, val : Int]
      /\ Loc("undef", 0) \in [where : Where, val : Int]
  BY DEF Loc, Where
<1>2. row \in Row /\ initial \in Row
  BY <1>1 DEF Init, Row
<1>3. Types
  BY <1>2, CfiAssumption DEF Init, Types
<1>4. StatesReturned
  BY DEF Init, StatesReturned
<1>5. Base = row
  BY DEF Init, Base
<1>6. Defined(hist, row, rs_stack, row, initial)
  BY StartDefined DEF Init
<1> QED BY <1>3, <1>4, <1>5, <1>6 DEF IInv

\* One turn of the loop, for each kind of instruction.
LEMMA StepIInv == IInv /\ Step => IInv'
<1> SUFFICES ASSUME IInv, Step PROVE IInv'
  OBVIOUS
<1>1. PICK ins \in Readable :
        /\ Continues /\ ~Fails(ins)
        /\ row' = RowAfter(ins) /\ curr_ip' = CurrIpAfter(ins) /\ rs_stack' = StackAfter(ins)
        /\ in_use' = in_use + Taken(ins)
        /\ hist' = Append(hist, [ins |-> ins, curr_ip |-> curr_ip])
        /\ pc' = pc /\ initial' = initial
  BY DEF Step
<1>2. ins \in Instruction
  BY ReadableType
<1>3. pc # "done" /\ Types /\ in_use = Len(rs_stack)
  BY <1>1 DEF Continues, IInv, StatesReturned
<1>4. PICK x \in Entry : x = [ins |-> ins, curr_ip |-> curr_ip]
  BY <1>2, <1>3 DEF Entry, Types
<1>5. hist \in Seq(Entry) /\ hist' = Append(hist, x) /\ x.ins = ins
  BY <1>1, <1>3, <1>4 DEF Types
<1>6. hist' \in Seq(Entry)
  BY <1>5, AppendProperties
<1>7. curr_ip' \in Int
  <2>1. curr_ip \in Int /\ ins.val \in Int /\ CodeAlign \in Int /\ ins.val * CodeAlign \in Int
    BY <1>2, <1>3, CfiAssumption DEF Types, Instruction
  <2> QED BY <1>1, <2>1 DEF CurrIpAfter, AdvanceOps
<1>8. Defined(hist, row, rs_stack, Base, initial) /\ Base' = Base
  BY <1>1, <1>3 DEF IInv, Base
<1>9. /\ row' \in Row /\ rs_stack' \in Seq(Row) /\ in_use' = Len(rs_stack') /\ in_use' \in Int
      /\ Defined(hist', row', rs_stack', Base, initial)
  <2>1. CASE ins.op \notin {"remember_state", "restore_state"}
    <3>1. rs_stack' = rs_stack /\ in_use' = in_use
      BY <1>1, <1>3, <2>1 DEF StackAfter, Taken, Types
    <3>2. /\ row' \in Row
          /\ \A c \in Columns : row'[c] =
               IF Writes(ins, c) THEN WrittenFrom(initial, ins, c) ELSE row[c]
      BY <1>1, <1>2, <1>3, <2>1, RowAfterPlain
    <3>3. Defined(hist', row', rs_stack, Base, initial)
      <4>1. /\ x.ins.op \notin {"remember_state", "restore_state"} /\ rs_stack \in Seq(Row)
            /\ Overwrites(row', row, x.ins, initial)
        BY <1>3, <1>5, <2>1, <3>2 DEF Types, Overwrites
      <4> QED BY <1>5, <1>8, <4>1, PlainDefined
    <3> QED BY <1>3, <3>1, <3>2, <3>3 DEF Types
  <2>2. CASE ins.op = "remember_state"
    <3>1. rs_stack' = <<row>> \o rs_stack /\ in_use' = in_use + 1 /\ row' = row
      BY <1>1, <2>2 DEF StackAfter, Taken, RowAfter, RuleOps, CfaRelOps, RestoreOps
    <3>2. rs_stack' \in Seq(Row) /\ Len(rs_stack') = Len(rs_stack) + 1
      <4>1. row \in Row /\ rs_stack \in Seq(Row) /\ <<row>> \in Seq(Row) /\ Len(<<row>>) = 1
        BY <1>3 DEF Types
      <4> QED BY <3>1, <4>1, ConcatProperties
    <3>3. Defined(hist', row, <<row>> \o rs_stack, Base, initial)
      BY <1>3, <1>5, <1>8, <2>2, RememberDefined DEF Types
    <3> QED BY <1>3, <3>1, <3>2, <3>3 DEF Types
  <2>3. CASE ins.op = "restore_state"
    <3>0. rs_stack # <<>>
      BY <1>1, <2>3 DEF Fails
    <3>1. rs_stack' = Tail(rs_stack) /\ in_use' = in_use - 1 /\ row' = Head(rs_stack)
      BY <1>1, <1>3, <2>3
         DEF StackAfter, Taken, RowAfter, Remembered, RuleOps, CfaRelOps, RestoreOps, Types
    <3>2. rs_stack' \in Seq(Row) /\ Len(rs_stack') = Len(rs_stack) - 1 /\ row' \in Row
      BY <1>3, <3>0, <3>1, HeadTailProperties DEF Types
    <3>3. Defined(hist', Head(rs_stack), Tail(rs_stack), Base, initial)
      BY <1>3, <1>5, <1>8, <2>3, <3>0, RestoreDefined DEF Types
    <3> QED BY <1>3, <3>1, <3>2, <3>3 DEF Types
  <2> QED BY <2>1, <2>2, <2>3
<1>10. Types' /\ StatesReturned'
  BY <1>1, <1>3, <1>6, <1>7, <1>9 DEF Types, StatesReturned
<1>11. Defined(hist', row', rs_stack', Base', initial')
  BY <1>1, <1>8, <1>9
<1> QED BY <1>10, <1>11 DEF IInv

\* The ends of the programs, with an error or without.
LEMMA EndIInv == IInv /\ (Fail \/ EndCie \/ EndFde) => IInv'
<1> SUFFICES ASSUME IInv, Fail \/ EndCie \/ EndFde PROVE IInv'
  OBVIOUS
<1>1. rs_stack' = <<>> /\ in_use' = 0
  BY DEF Fail, EndCie, EndFde, FreeStack, IInv, Types, StatesReturned
<1>2. CASE Fail \/ EndFde
  <2>1. pc' = "done" /\ UNCHANGED <<curr_ip, row, initial, hist>>
    BY <1>2 DEF Fail, EndFde
  <2> QED BY <1>1, <2>1 DEF IInv, Types, StatesReturned
<1>3. CASE EndCie
  <2>1. /\ pc' = "fde" /\ initial' = row /\ curr_ip' = StartIp /\ hist' = <<>> /\ row' = row
    BY <1>3 DEF EndCie
  <2>2. Types' /\ StatesReturned'
    BY <1>1, <2>1, CfiAssumption DEF IInv, Types, StatesReturned
  <2>3. Base' = row'
    BY <2>1 DEF Base
  <2>4. Defined(hist', row', rs_stack', row', initial')
    BY <1>1, <2>1, StartDefined
  <2> QED BY <2>2, <2>3, <2>4 DEF IInv
<1> QED BY <1>2, <1>3

\* The row and the stack are always those that the program defines: the strengthening
\* of both properties, which RowIsByDefinition needs for what is on the stack.
THEOREM Invariance == Spec => []IInv
<1>1. IInv /\ UNCHANGED vars => IInv'
  BY DEF IInv, vars, Types, StatesReturned, Base
<1>2. IInv /\ [Next]_vars => IInv'
  BY <1>1, StepIInv, EndIInv DEF Next, Done
<1> QED BY InitIInv, <1>2, PTL DEF Spec

\* However a program nests and wherever it stops or fails, every register state is on
\* the stack or back in the pool, and all are back when parse_fde returns
\* (Gparser.c:378-386).
THEOREM StatesCorrect == Spec => []StatesReturned
<1>1. IInv => StatesReturned
  BY DEF IInv
<1> QED BY <1>1, Invariance, PTL

\* For every program, at every instruction of it, the row of run_cfi_program
\* (Gparser.c:239-266) is the one by definition: of the last write to each column that no
\* pair of remember_state and restore_state encloses.
THEOREM RowCorrect == Spec => []RowIsByDefinition
<1>1. IInv => RowIsByDefinition
  <2> SUFFICES ASSUME IInv, pc # "done", NEW c \in Columns
               PROVE  LET W == {p \in 1..Len(hist) : Writes(hist[p].ins, c) /\ ~Enclosed(p)}
                      IN  \/ W = {} /\ row[c] = Start(c)
                          \/ \E p \in W :
                               (\A q \in W : q <= p) /\ row[c] = Written(hist[p].ins, c)
    BY DEF RowIsByDefinition
  <2>0. Len(hist) \in Nat
    BY DEF IInv, Types
  <2>1. ASSUME NEW p \in 1..Len(hist) PROVE Enclosed(p) <=> EnclosedIn(hist, p, Len(hist))
    <3>1. \A m \in 1..(p - 1) : m \in Nat \ {0}
      OBVIOUS
    <3>2. \A n \in (p + 1)..Len(hist) : n \in Nat \ {0}
      BY <2>0
    <3> QED BY <3>1, <3>2, PairMatches DEF Enclosed, EnclosedIn
  <2>2. {p \in 1..Len(hist) : Writes(hist[p].ins, c) /\ ~Enclosed(p)} = Live(hist, Len(hist), c)
    BY <2>1 DEF Live
  <2>3. Start(c) = Base[c]
    BY DEF Start, Base
  <2>4. \A p \in 1..Len(hist) : Written(hist[p].ins, c) = WrittenFrom(initial, hist[p].ins, c)
    BY DEF Written, WrittenFrom
  <2>5. ColumnBy(hist, Len(hist), row, Base, initial, c)
    BY DEF IInv, Defined, RowBy
  <2>6. \A p \in Live(hist, Len(hist), c) : p \in 1..Len(hist)
    BY DEF Live
  <2> QED BY <2>2, <2>3, <2>4, <2>5, <2>6 DEF ColumnBy
<1> QED BY <1>1, Invariance, PTL
=============================================================================
