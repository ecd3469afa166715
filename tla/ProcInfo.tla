------------------------------ MODULE ProcInfo ------------------------------
(***************************************************************************)
(* The search for the unwind information of an instruction pointer in the  *)
(* .eh_frame sections of the loaded kernel modules                         *)
(* (Gfind_proc_info-lsb.c): dwarf_find_proc_info walks the linker files,   *)
(* dwarf_callback picks the file that holds the ip and linear_search reads *)
(* its entries one after the other.                                        *)
(*                                                                         *)
(* An entry of a section stands for what dwarf_extract_proc_info_from_fde  *)
(* (Gfde.c) makes of the bytes at its address.                             *)
(***************************************************************************)
EXTENDS Integers, Sequences

CONSTANTS Ips,     \* instruction pointers
          Files    \* the sequences of linker files the kernel may hold

(***************************************************************************)
(* A linker file is a record: lo, hi (file->address and the end of the     *)
(* file), sym (the linker knows a symbol at the ip), and its .eh_frame     *)
(* section: entries and size in bytes.  has_eh is FALSE when               *)
(* find_eh_frame_section returns NULL: the kernel itself, or no section.   *)
(*                                                                         *)
(* The kinds of entries: "cie"; "fde", covering start..end-1; "bad", an    *)
(* FDE whose CIE does not parse; "half", an FDE whose range is read but    *)
(* whose LSDA pointer has an unknown encoding; "end", an entry of length 0. *)
(***************************************************************************)
Entry == [kind : {"cie", "fde", "bad", "half", "end"}, start : Nat, end : Nat]
LinkerFile == [lo : Nat, hi : Nat, sym : BOOLEAN, has_eh : BOOLEAN,
               entries : Seq(Entry), size : Nat]

TableEntrySize == 8 \* sizeof(struct table_entry)

\* An FDE takes at least the 8 bytes of its length and CIE offset, and so does
\* every entry before it.
WellFormed(f) ==
  \A p \in 1..Len(f.entries) :
    f.entries[p].kind # "end" => f.size >= TableEntrySize * p

ASSUME SectionAssumption ==
  /\ Ips \subseteq Nat \ {0}
  /\ Files \subseteq Seq(LinkerFile)
  /\ \A fs \in Files : \A n \in 1..Len(fs) : WellFormed(fs[n])

NoInfo == 0                            \* a NULL pi->unwind_info
Pi(start, end, format, info) ==
  [start_ip |-> start, end_ip |-> end, format |-> format, unwind_info |-> info]
ZeroPi == Pi(0, 0, "none", NoInfo)

VARIABLES
  files,      \* the linker's list of files
  ip, need,   \* dwarf_find_proc_info's ip and need_unwind_info
  pc,         \* what the search does next
  k,          \* the linker file that linker_file_foreach visits
  pos,        \* linear_search's addr: the index of the entry it is at
  i,          \* linear_search's loop counter
  pi,         \* *pi
  single_fde, \* cb_data.single_fde
  found,      \* what linker_file_foreach returns
  ret         \* what dwarf_find_proc_info returns

input == <<files, ip, need>>
vars == <<files, ip, need, pc, k, pos, i, pi, single_fde, found, ret>>

\* fetch_proc_info clears *pi before the search.
Init ==
  /\ files \in Files
  /\ ip \in Ips
  /\ need \in BOOLEAN
  /\ pc = "foreach"
  /\ k = 1 /\ pos = 1 /\ i = 0
  /\ pi = ZeroPi
  /\ single_fde = 0
  /\ found = 0
  /\ ret = "none"
-----------------------------------------------------------------------------
Section == files[k].entries

\* Mutant: the size of another structure.
fde_countHalf == files[k].size \div (2 * TableEntrySize)

fde_count == files[k].size \div TableEntrySize

\* dwarf_callback turns a file down: the ip is not in it (its end counts as
\* inside), the linker knows no symbol there, or it has no .eh_frame section.
Declines(f) == ip < f.lo \/ ip > f.hi \/ ~f.sym \/ ~f.has_eh

\* linker_file_foreach calls dwarf_callback on the next file.
dwarf_callback ==
  /\ pc = "foreach" /\ k <= Len(files)
  /\ IF Declines(files[k])
       THEN /\ k' = k + 1
            /\ UNCHANGED <<pc, pos, i, pi, single_fde>>
       ELSE /\ pi' = Pi(pi.start_ip, pi.end_ip, "table", pi.unwind_info)
            /\ single_fde' = 1
            /\ pos' = 1 /\ i' = 0
            /\ pc' = "search"
            /\ UNCHANGED k
  /\ UNCHANGED <<input, found, ret>>

\* What dwarf_extract_proc_info_from_fde leaves in *pi.  A CIE, or an FDE whose CIE
\* does not parse, leaves it alone.
ExtractedPi(e) ==
  IF e.kind \in {"fde", "half"} THEN Pi(e.start, e.end, pi.format, pi.unwind_info) ELSE pi

\* The same with need_unwind_info: the unwind info is the cie_info object a good
\* FDE allocates, named by the FDE's index.
ExtractedInfo(e) ==
  IF e.kind = "fde" THEN Pi(e.start, e.end, "table", pos) ELSE ExtractedPi(e)

\* while (i++ < fde_count && addr < eh_frame_end)
LoopTest == i < fde_count /\ pos <= Len(Section)

\* Mutants: the end of the range counts as inside; the loop does not count.
InRangeInclusive(p) == p.start_ip <= ip /\ ip <= p.end_ip
CountedNot == i

\* if (ip >= pi->start_ip && ip < pi->end_ip)
InRange(p) == p.start_ip <= ip /\ ip < p.end_ip

\* The counter after i++.
Counted == i + 1

\* linear_search reads the next entry.  An entry of length 0 leaves addr where it
\* is, an error skips the range test, and a CIE goes through it with what *pi held.
linear_search ==
  /\ pc = "search" /\ LoopTest
  /\ LET e == Section[pos]
         now == ExtractedPi(e)
         good == e.kind \in {"cie", "fde"}
     IN IF good /\ InRange(now)
          THEN /\ pi' = IF need THEN ExtractedInfo(e) ELSE now
               /\ found' = 1
               /\ pc' = "report"
               /\ UNCHANGED <<pos, i>>
          ELSE /\ pi' = now
               /\ pos' = IF e.kind = "end" THEN pos ELSE pos + 1
               /\ i' = Counted
               /\ UNCHANGED <<found, pc>>
  /\ UNCHANGED <<input, k, single_fde, ret>>

\* linear_search returns -UNW_ENOINFO, dwarf_callback 0: the next file.
SearchFails ==
  /\ pc = "search" /\ ~LoopTest
  /\ k' = k + 1
  /\ pc' = "foreach"
  /\ UNCHANGED <<input, pos, i, pi, single_fde, found, ret>>

ForeachEnds ==
  /\ pc = "foreach" /\ k > Len(files)
  /\ pc' = "report"
  /\ UNCHANGED <<input, k, pos, i, pi, single_fde, found, ret>>

\* The end of dwarf_find_proc_info.  di.format is set exactly when single_fde is,
\* so the table searches behind it are never reached.
Result(fnd, single) ==
  IF fnd > 0 THEN "ENOINFO" ELSE IF single = 1 THEN "success" ELSE "ENOINFO"

dwarf_find_proc_info ==
  /\ pc = "report"
  /\ ret' = Result(found, single_fde)
  /\ pc' = "done"
  /\ UNCHANGED <<input, k, pos, i, pi, single_fde, found>>

Done == pc = "done" /\ UNCHANGED vars

Next == dwarf_callback \/ linear_search \/ SearchFails \/ ForeachEnds
          \/ dwarf_find_proc_info \/ Done

Spec == Init /\ [][Next]_vars
FairSpec == Spec /\ WF_vars(Next)
-----------------------------------------------------------------------------
\* The entries of a section before the first one of length 0.
Readable(f, p) == \A q \in 1..p : f.entries[q].kind # "end"

AllWhole(f) == \A p \in 1..Len(f.entries) : f.entries[p].kind # "half"

Covers(e) == e.kind = "fde" /\ e.start <= ip /\ ip < e.end

\* A search that finds the ip has found the first FDE that covers it, and *pi
\* describes that FDE, with its unwind info exactly when it was asked for: no
\* range is left over from an entry read earlier (Gfind_proc_info-lsb.c:134), as
\* long as no FDE failed after its range had been stored.
FoundIsFirstCover ==
  found = 1 /\ (\A n \in 1..k : AllWhole(files[n])) =>
    /\ Covers(Section[pos])
    /\ \A q \in 1..(pos - 1) : ~Covers(Section[q])
    /\ pi.start_ip = Section[pos].start /\ pi.end_ip = Section[pos].end
    /\ pi.unwind_info = IF need THEN pos ELSE NoInfo

\* A file the search leaves behind has no readable FDE for the ip: neither the
\* bound fde_count, which counts 8-byte units of the section and not entries
\* (Gfind_proc_info-lsb.c:265), nor an entry that fails to parse ends it early.
NothingOverlooked ==
  \A n \in 1..(k - 1) : ~Declines(files[n]) =>
    \A p \in 1..Len(files[n].entries) :
      Readable(files[n], p) => ~Covers(files[n].entries[p])

\* The search ends, even at an entry of length 0, which linear_search reads again
\* until its counter runs out.
Terminates == <>(pc = "done")

\* Gfind_proc_info-lsb.c:308 reports "IP=0x%lx not found": so an ip for which the
\* search found its FDE is not reported as -UNW_ENOINFO.
FoundIsReported == pc = "done" /\ found = 1 => ret = "success"
=============================================================================
