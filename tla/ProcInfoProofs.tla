--------------------------- MODULE ProcInfoProofs ---------------------------
(***************************************************************************)
(* The proof that the search for unwind information finds the first FDE    *)
(* that covers the ip and overlooks none, for any list of linker files     *)
(* with any .eh_frame sections.                                            *)
(***************************************************************************)
EXTENDS ProcInfo, TLAPS

PiType == [start_ip : Nat, end_ip : Nat, format : {"none", "table"}, unwind_info : Nat]

Types ==
  /\ files \in Files /\ ip \in Ips /\ need \in BOOLEAN
  /\ pc \in {"foreach", "search", "report", "done"}
  /\ k \in Nat \ {0} /\ pos \in Nat \ {0} /\ i \in Nat
  /\ pi \in PiType
  /\ found \in {0, 1}

\* Where the search is: in a file that was not turned down, or out of it.
Place ==
  /\ pc = "search" => k <= Len(files) /\ ~Declines(files[k]) /\ found = 0
  /\ pc = "foreach" => k <= Len(files) + 1 /\ found = 0
  /\ pc \in {"report", "done"} => k <= Len(files) + 1
  /\ found = 1 => k <= Len(files) /\ pos <= Len(Section)

\* linear_search has read the entries before pos, and counted them; at an entry of
\* length 0 it counts on without moving.
Scanned ==
  pc = "search" =>
    /\ pos <= Len(Section) + 1
    /\ \A q \in 1..(pos - 1) : Section[q].kind # "end" /\ ~Covers(Section[q])
    /\ i >= pos - 1
    /\ i > pos - 1 => pos <= Len(Section) /\ Section[pos].kind = "end"

\* The files entered so far.
Entered == 1..(IF pc = "foreach" THEN k - 1 ELSE k)

\* What an earlier entry has left in *pi is not taken for the ip's.
NothingStale ==
  pc \in {"foreach", "search"} /\ (\A n \in Entered : AllWhole(files[n])) =>
    ~InRange(pi) /\ pi.unwind_info = NoInfo

IInv == Types /\ Place /\ Scanned /\ NothingStale /\ FoundIsFirstCover /\ NothingOverlooked
-----------------------------------------------------------------------------
\* What the assumption says of the files.
LEMMA FilesType ==
  ASSUME NEW fs \in Files
  PROVE  /\ Len(fs) \in Nat
         /\ \A n \in 1..Len(fs) :
              /\ fs[n] \in LinkerFile /\ WellFormed(fs[n])
              /\ fs[n].entries \in Seq(Entry) /\ Len(fs[n].entries) \in Nat
              /\ fs[n].size \in Nat
              /\ \A p \in 1..Len(fs[n].entries) : fs[n].entries[p] \in Entry
<1>1. fs \in Seq(LinkerFile) /\ \A n \in 1..Len(fs) : WellFormed(fs[n])
  BY SectionAssumption
<1>2. Len(fs) \in Nat
  BY <1>1
<1>3. ASSUME NEW n \in 1..Len(fs)
      PROVE  /\ fs[n] \in LinkerFile
             /\ fs[n].entries \in Seq(Entry) /\ Len(fs[n].entries) \in Nat
             /\ fs[n].size \in Nat
             /\ \A p \in 1..Len(fs[n].entries) : fs[n].entries[p] \in Entry
  <2>1. fs[n] \in LinkerFile
    BY <1>1
  <2>2. fs[n].entries \in Seq(Entry) /\ fs[n].size \in Nat
    BY <2>1 DEF LinkerFile
  <2> QED BY <2>1, <2>2
<1> QED BY <1>1, <1>2, <1>3

\* The fields of *pi after an assignment to some of them.
LEMMA PiFields ==
  ASSUME NEW a, NEW b, NEW f, NEW u
  PROVE  /\ Pi(a, b, f, u).start_ip = a /\ Pi(a, b, f, u).end_ip = b
         /\ Pi(a, b, f, u).unwind_info = u
         /\ a \in Nat /\ b \in Nat /\ f \in {"none", "table"} /\ u \in Nat
              => Pi(a, b, f, u) \in PiType
BY DEF PiType, Pi

LEMMA PiTyped ==
  ASSUME NEW p \in PiType
  PROVE  /\ p.start_ip \in Nat /\ p.end_ip \in Nat /\ p.unwind_info \in Nat
         /\ p.format \in {"none", "table"}
BY DEF PiType

\* The counter of linear_search is large enough for all of a section's entries.
LEMMA EnoughCount ==
  ASSUME NEW size \in Nat, NEW p \in Nat, size >= TableEntrySize * p
  PROVE  size \div TableEntrySize >= p
BY DEF TableEntrySize

\* What reading an entry does to *pi, by the kind of the entry.
LEMMA Extracted ==
  ASSUME NEW e \in Entry, pi \in PiType, pos \in Nat
  PROVE  /\ ExtractedPi(e) \in PiType /\ ExtractedInfo(e) \in PiType
         /\ e.kind = "fde" =>
              /\ ExtractedPi(e).start_ip = e.start /\ ExtractedPi(e).end_ip = e.end
              /\ ExtractedPi(e).unwind_info = pi.unwind_info
              /\ ExtractedInfo(e).start_ip = e.start /\ ExtractedInfo(e).end_ip = e.end
              /\ ExtractedInfo(e).unwind_info = pos
         /\ e.kind \notin {"fde", "half"} => ExtractedPi(e) = pi
<1>1. e.start \in Nat /\ e.end \in Nat /\ pi.unwind_info \in Nat /\ pi.format \in {"none", "table"}
  BY PiTyped DEF Entry
<1>2. CASE e.kind = "fde"
  <2>1. /\ ExtractedPi(e) = Pi(e.start, e.end, pi.format, pi.unwind_info)
        /\ ExtractedInfo(e) = Pi(e.start, e.end, "table", pos)
    BY <1>2 DEF ExtractedPi, ExtractedInfo
  <2>2. /\ ExtractedPi(e) \in PiType
        /\ ExtractedPi(e).start_ip = e.start /\ ExtractedPi(e).end_ip = e.end
        /\ ExtractedPi(e).unwind_info = pi.unwind_info
    BY <2>1, <1>1, PiFields
  <2>3. /\ ExtractedInfo(e) \in PiType
        /\ ExtractedInfo(e).start_ip = e.start /\ ExtractedInfo(e).end_ip = e.end
        /\ ExtractedInfo(e).unwind_info = pos
    BY <2>1, <1>1, PiFields
  <2> QED BY <2>2, <2>3, <1>2
<1>3. CASE e.kind = "half"
  <2>1. /\ ExtractedPi(e) = Pi(e.start, e.end, pi.format, pi.unwind_info)
        /\ ExtractedInfo(e) = Pi(e.start, e.end, pi.format, pi.unwind_info)
    BY <1>3 DEF ExtractedPi, ExtractedInfo
  <2>2. ExtractedPi(e) \in PiType /\ ExtractedInfo(e) \in PiType
    BY <2>1, <1>1, PiFields
  <2> QED BY <2>2, <1>3
<1>4. CASE e.kind \notin {"fde", "half"}
  <2>1. ExtractedPi(e) = pi /\ ExtractedInfo(e) = pi
    BY <1>4 DEF ExtractedPi, ExtractedInfo
  <2> QED BY <2>1, <1>4
<1> QED BY <1>2, <1>3, <1>4

LEMMA InitInv == Init => IInv
<1> SUFFICES ASSUME Init PROVE IInv
  OBVIOUS
<1>1. Types
  BY PiFields DEF Init, Types, ZeroPi, NoInfo
<1>2. Place /\ Scanned
  BY <1>1, FilesType DEF Init, Place, Scanned, Types
<1>3. NothingStale
  BY <1>1, SectionAssumption DEF Init, NothingStale, InRange, ZeroPi, Pi, NoInfo, Types
<1>4. FoundIsFirstCover /\ NothingOverlooked
  BY DEF Init, FoundIsFirstCover, NothingOverlooked
<1> QED BY <1>1, <1>2, <1>3, <1>4 DEF IInv

\* dwarf_callback turns the next file down, or starts to read its section.
LEMMA dwarf_callback_Inv == IInv /\ dwarf_callback => IInv'
<1> SUFFICES ASSUME IInv, dwarf_callback PROVE IInv'
  OBVIOUS
<1> USE DEF IInv, input
<1>0. UNCHANGED <<files, ip, need, found>> /\ pc = "foreach" /\ k <= Len(files)
  BY DEF dwarf_callback
<1>a. ASSUME Declines(files[k]) PROVE Types' /\ Place'
  <2>1. k' = k + 1 /\ UNCHANGED <<pc, pos, i, pi, single_fde>>
    BY <1>a DEF dwarf_callback
  <2> QED BY <1>0, <2>1, FilesType DEF Types, Place
<1>b. ASSUME ~Declines(files[k]) PROVE Types' /\ Place'
  <2>1. /\ pi' = Pi(pi.start_ip, pi.end_ip, "table", pi.unwind_info)
        /\ pos' = 1 /\ i' = 0 /\ pc' = "search" /\ k' = k
    BY <1>b DEF dwarf_callback
  <2>2. pi' \in PiType
    BY <2>1, PiTyped, PiFields DEF Types
  <2>3. ~Declines(files[k])'
    BY <1>b, <1>0, <2>1 DEF Declines
  <2> QED BY <1>0, <2>1, <2>2, <2>3, FilesType DEF Types, Place
<1>1. Types'
  BY <1>a, <1>b
<1>2. Place'
  BY <1>a, <1>b
<1>3. Scanned'
  <2>1. CASE pc' = "foreach"
    BY <2>1 DEF Scanned
  <2>2. CASE pc' = "search"
    <3>1. pos' = 1 /\ i' = 0 /\ k' = k /\ files' = files
      BY <2>2, <1>0 DEF dwarf_callback
    <3>2. Len(Section') \in Nat
      BY <3>1, <1>0, FilesType DEF Types, Section
    <3> QED BY <3>1, <3>2 DEF Scanned
  <2> QED BY <2>1, <2>2, <1>0 DEF dwarf_callback
<1>4. NothingStale'
  <2> SUFFICES ASSUME pc' \in {"foreach", "search"}, \A n \in Entered' : AllWhole(files'[n])
               PROVE  (~InRange(pi) /\ pi.unwind_info = NoInfo)'
    BY DEF NothingStale
  <2>1. \A n \in Entered : AllWhole(files[n])
    BY DEF dwarf_callback, Entered, Types, AllWhole
  <2>2. ~InRange(pi) /\ pi.unwind_info = NoInfo
    BY <2>1 DEF NothingStale, dwarf_callback
  <2>3. CASE Declines(files[k])
    BY <2>2, <2>3 DEF dwarf_callback, InRange
  <2>4. CASE ~Declines(files[k])
    <3>1. pi' = Pi(pi.start_ip, pi.end_ip, "table", pi.unwind_info) /\ ip' = ip
      BY <2>4 DEF dwarf_callback
    <3>2. pi'.start_ip = pi.start_ip /\ pi'.end_ip = pi.end_ip /\ pi'.unwind_info = pi.unwind_info
      BY <3>1, PiTyped, PiFields DEF Types
    <3> QED BY <2>2, <3>1, <3>2 DEF InRange
  <2> QED BY <2>3, <2>4
<1>5. FoundIsFirstCover'
  BY DEF dwarf_callback, FoundIsFirstCover, Place
<1>6. NothingOverlooked'
  <2> SUFFICES ASSUME NEW n \in 1..(k' - 1), ~Declines(files[n]),
                      NEW p \in 1..Len(files[n].entries), Readable(files[n], p)
               PROVE  ~Covers(files[n].entries[p])
    BY <1>0 DEF NothingOverlooked, Declines, Readable, Covers
  <2>2. CASE ~Declines(files[k])
    <3>1. k' = k
      BY <2>2 DEF dwarf_callback
    <3> QED BY <3>1 DEF NothingOverlooked
  <2>3. CASE Declines(files[k])
    <3>0. k' = k + 1
      BY <2>3 DEF dwarf_callback
    <3>1. n \in 1..k /\ n # k /\ k \in Nat
      BY <2>3, <3>0 DEF Types
    <3>2. n \in 1..(k - 1)
      BY <3>1
    <3> QED BY <3>2 DEF NothingOverlooked
  <2> QED BY <2>2, <2>3
<1> QED BY <1>1, <1>2, <1>3, <1>4, <1>5, <1>6

\* linear_search reads an entry: the step that finds the FDE or goes past the entry.
LEMMA linear_search_Inv == IInv /\ linear_search => IInv'
<1> SUFFICES ASSUME IInv, linear_search PROVE IInv'
  OBVIOUS
<1> USE DEF IInv, input
<1> DEFINE e == Section[pos]
           now == ExtractedPi(e)
           good == e.kind \in {"cie", "fde"}
<1>1. pc = "search" /\ k <= Len(files) /\ pos <= Len(Section) /\ e \in Entry
  BY FilesType DEF linear_search, LoopTest, Place, Types, Section
<1>2. now \in PiType /\ ExtractedInfo(e) \in PiType
  BY <1>1, Extracted DEF Types
<1>3. UNCHANGED <<files, ip, need, k, single_fde, ret>>
  BY DEF linear_search
<1>4. (\A n \in 1..k : AllWhole(files[n])) =>
        ~InRange(pi) /\ pi.unwind_info = NoInfo /\ e.kind # "half"
  <2> SUFFICES ASSUME \A n \in 1..k : AllWhole(files[n])
               PROVE  ~InRange(pi) /\ pi.unwind_info = NoInfo /\ e.kind # "half"
    OBVIOUS
  <2>1. ~InRange(pi) /\ pi.unwind_info = NoInfo
    BY <1>1 DEF NothingStale, Entered
  <2>2. k \in 1..k /\ pos \in 1..Len(files[k].entries)
    BY <1>1, FilesType DEF Types, Section
  <2> QED BY <2>1, <2>2 DEF AllWhole, Section
<1>5. CASE good /\ InRange(now)
  <2>1. /\ pi' = IF need THEN ExtractedInfo(e) ELSE now
        /\ found' = 1 /\ pc' = "report" /\ UNCHANGED <<pos, i>>
    BY <1>5 DEF linear_search
  <2>2. Types'
    BY <2>1, <1>2, <1>3 DEF Types
  <2>3. Place' /\ Scanned' /\ NothingStale'
    BY <1>1, <1>3, <2>1, FilesType DEF Place, Scanned, NothingStale, Types, Section
  <2>4. FoundIsFirstCover'
    <3> SUFFICES ASSUME \A n \in 1..k : AllWhole(files[n])
                 PROVE  /\ Covers(Section[pos])
                        /\ \A q \in 1..(pos - 1) : ~Covers(Section[q])
                        /\ pi'.start_ip = Section[pos].start /\ pi'.end_ip = Section[pos].end
                        /\ pi'.unwind_info = IF need THEN pos ELSE NoInfo
      BY <1>3, <2>1 DEF FoundIsFirstCover, AllWhole, Covers, Section
    <3>1. e.kind = "fde"
      BY <1>1, <1>4, <1>5, Extracted DEF Types
    <3>2. /\ now.start_ip = e.start /\ now.end_ip = e.end /\ now.unwind_info = NoInfo
          /\ ExtractedInfo(e).start_ip = e.start /\ ExtractedInfo(e).end_ip = e.end
          /\ ExtractedInfo(e).unwind_info = pos
      BY <1>1, <1>4, <3>1, Extracted DEF Types
    <3>3. Covers(e)
      BY <3>1, <3>2, <1>5 DEF InRange, Covers
    <3> QED BY <1>1, <2>1, <3>2, <3>3 DEF Scanned, Types
  <2>5. NothingOverlooked'
    BY <1>3 DEF NothingOverlooked, Declines, Readable, Covers
  <2> QED BY <2>2, <2>3, <2>4, <2>5
<1>6. CASE ~(good /\ InRange(now))
  <2>1. /\ pi' = now /\ i' = i + 1 /\ UNCHANGED <<found, pc>>
        /\ pos' = IF e.kind = "end" THEN pos ELSE pos + 1
    BY <1>6 DEF linear_search, Counted
  <2>2. Types'
    <3>1. pos' \in Nat \ {0} /\ i' \in Nat
      BY <2>1 DEF Types
    <3>2. pi' \in PiType
      BY <2>1, <1>2
    <3> QED BY <3>1, <3>2, <2>1, <1>3 DEF Types
  <2>3. Place' /\ FoundIsFirstCover'
    <3>1. found = 0 /\ ~Declines(files[k])
      BY <1>1 DEF Place
    <3>2. ~Declines(files[k])'
      BY <3>1, <1>3 DEF Declines
    <3> QED BY <1>1, <1>3, <2>1, <3>1, <3>2 DEF Place, FoundIsFirstCover
  <2>4. ~Covers(e)
    <3> SUFFICES ASSUME e.kind = "fde" PROVE ~(e.start <= ip /\ ip < e.end)
      BY DEF Covers
    <3>1. now.start_ip = e.start /\ now.end_ip = e.end
      BY <1>1, Extracted DEF Types
    <3> QED BY <3>1, <1>6 DEF InRange
  <2>5. Scanned'
    <3>1. CASE e.kind = "end"
      BY <3>1, <1>1, <1>3, <2>1 DEF Scanned, Types, Section, Covers
    <3>2. CASE e.kind # "end"
      <4>0. ~(i > pos - 1)
        BY <3>2, <1>1 DEF Scanned
      <4>1. pos' = pos + 1 /\ i = pos - 1
        BY <3>2, <4>0, <2>1, <1>1 DEF Scanned, Types
      <4>2. \A q \in 1..pos : Section[q].kind # "end" /\ ~Covers(Section[q])
        BY <3>2, <2>4, <1>1 DEF Scanned, Types
      <4> QED BY <4>1, <4>2, <1>1, <1>3, <2>1, FilesType DEF Scanned, Types, Section, Covers
    <3> QED BY <3>1, <3>2
  <2>6. NothingStale'
    <3> SUFFICES ASSUME \A n \in 1..k : AllWhole(files[n])
                 PROVE  ~InRange(now) /\ now.unwind_info = NoInfo
      BY <1>1, <1>3, <2>1 DEF NothingStale, Entered, AllWhole, InRange
    <3>1. ~InRange(pi) /\ pi.unwind_info = NoInfo /\ e.kind # "half"
      BY <1>4
    <3>2. CASE e.kind = "fde"
      BY <3>2, <3>1, <1>1, <1>6, Extracted DEF Types
    <3>3. CASE e.kind # "fde"
      BY <3>3, <3>1, <1>1, Extracted DEF Types
    <3> QED BY <3>2, <3>3
  <2>7. NothingOverlooked'
    BY <1>3 DEF NothingOverlooked, Declines, Readable, Covers
  <2> QED BY <2>2, <2>3, <2>5, <2>6, <2>7
<1> QED BY <1>5, <1>6

\* linear_search gives up: every FDE that can be reached has been read.
LEMMA SearchFails_Inv == IInv /\ SearchFails => IInv'
<1> SUFFICES ASSUME IInv, SearchFails PROVE IInv'
  OBVIOUS
<1> USE DEF IInv, input
<1>1. /\ pc = "search" /\ k <= Len(files) /\ ~LoopTest
      /\ k' = k + 1 /\ pc' = "foreach"
      /\ UNCHANGED <<files, ip, need, pos, i, pi, single_fde, found, ret>>
  BY DEF SearchFails, Place
<1>2. Types' /\ Place' /\ Scanned' /\ FoundIsFirstCover'
  BY <1>1, FilesType DEF Types, Place, Scanned, FoundIsFirstCover
<1>3. NothingStale'
  BY <1>1 DEF NothingStale, Entered, Types, AllWhole, InRange
<1>4. \A p \in 1..Len(Section) : Readable(files[k], p) => ~Covers(Section[p])
  <2> SUFFICES ASSUME NEW p \in 1..Len(Section), Readable(files[k], p)
               PROVE  ~Covers(Section[p])
    OBVIOUS
  <2>0. Len(Section) \in Nat /\ WellFormed(files[k]) /\ files[k].size \in Nat
    BY <1>1, FilesType DEF Types, Section
  <2>1. CASE p < pos
    BY <2>0, <2>1, <1>1 DEF Scanned, Types
  <2>2. CASE p >= pos
    <3>1. pos <= Len(Section) /\ Section[pos].kind # "end"
      BY <2>0, <2>2 DEF Types, Readable, Section
    <3>2. files[k].size >= TableEntrySize * pos
      BY <3>1, <2>0 DEF WellFormed, Section, Types
    <3>3. fde_count >= pos /\ fde_count \in Nat
      BY <3>2, <2>0, EnoughCount DEF fde_count, Types, TableEntrySize
    <3>4. i = pos - 1
      BY <3>1, <1>1 DEF Scanned, Types
    <3> QED BY <3>1, <3>3, <3>4, <1>1 DEF LoopTest, Types
  <2> QED BY <2>0, <2>1, <2>2 DEF Types
<1>5. NothingOverlooked'
  <2> SUFFICES ASSUME NEW n \in 1..k, ~Declines(files[n]),
                      NEW p \in 1..Len(files[n].entries), Readable(files[n], p)
               PROVE  ~Covers(files[n].entries[p])
    BY <1>1 DEF NothingOverlooked, Types, Declines, Readable, Covers
  <2>1. CASE n = k
    BY <2>1, <1>4 DEF Section
  <2>2. CASE n \in 1..(k - 1)
    BY <2>2 DEF NothingOverlooked
  <2> QED BY <2>1, <2>2 DEF Types
<1> QED BY <1>2, <1>3, <1>5

\* The other steps leave the search where it is.
LEMMA Report_Inv == IInv /\ (ForeachEnds \/ dwarf_find_proc_info) => IInv'
<1> SUFFICES ASSUME IInv, ForeachEnds \/ dwarf_find_proc_info PROVE IInv'
  OBVIOUS
<1> USE DEF IInv, input
<1>1. /\ pc \in {"foreach", "report"} /\ pc' \in {"report", "done"}
      /\ UNCHANGED <<files, ip, need, k, pos, i, pi, single_fde, found>>
  BY DEF ForeachEnds, dwarf_find_proc_info
<1>2. Types' /\ Place' /\ Scanned' /\ NothingStale'
  BY <1>1 DEF Types, Place, Scanned, NothingStale, Section
<1>3. FoundIsFirstCover' /\ NothingOverlooked'
  BY <1>1 DEF FoundIsFirstCover, NothingOverlooked, AllWhole, Covers, Section, Declines, Readable
<1> QED BY <1>2, <1>3

LEMMA NextInv == IInv /\ [Next]_vars => IInv'
<1> SUFFICES ASSUME IInv, [Next]_vars PROVE IInv'
  OBVIOUS
<1>1. CASE UNCHANGED vars
  BY <1>1 DEF vars, IInv, Types, Place, Scanned, NothingStale, FoundIsFirstCover,
              NothingOverlooked, Section, Entered, AllWhole, Covers, InRange, Declines, Readable
<1> QED BY <1>1, dwarf_callback_Inv, linear_search_Inv, SearchFails_Inv, Report_Inv
        DEF Next, Done

\* The inductive invariant of the search holds in every reachable state.
THEOREM Invariance == Spec => []IInv
BY InitInv, NextInv, PTL DEF Spec

\* For any files and sections, what linear_search (Gfind_proc_info-lsb.c:134) finds is the
\* first FDE that covers the ip, and *pi describes it.
THEOREM FirstCoverCorrect == Spec => []FoundIsFirstCover
<1>1. IInv => FoundIsFirstCover
  BY DEF IInv
<1> QED BY <1>1, Invariance, PTL

\* For any files and sections, a file that the search leaves behind has no readable FDE for
\* the ip, although fde_count (Gfind_proc_info-lsb.c:265) does not count entries.
THEOREM NoneOverlooked == Spec => []NothingOverlooked
<1>1. IInv => NothingOverlooked
  BY DEF IInv
<1> QED BY <1>1, Invariance, PTL
=============================================================================
