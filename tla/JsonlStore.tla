---------------------------- MODULE JsonlStore ----------------------------
(***************************************************************************)
(* CveStore (vuln-intel store.py) and GraphStore (dependency-intel         *)
(* store.py): one JSON record per line of a file, all of them in memory,   *)
(* and the line number of each.  A record that is known is rewritten in    *)
(* place; a new one is given the next line number, and CveStore writes it  *)
(* where that line begins, GraphStore at the end of the file.  open()      *)
(* reads the file back.                                                    *)
(*                                                                         *)
(* The file is a sequence of cells: a record of length n is n cells, then  *)
(* a newline.  A record's length stands for its size in bytes and is any   *)
(* of Lengths (a merge may shrink a record: merged lists are cut).  A call *)
(* holds the lock from end to end and is one step.  The process may die    *)
(* between calls, all writes being flushed, or in the middle of a write.   *)
(* An OSError of the file system is left out.                              *)
(***************************************************************************)
EXTENDS Integers, SequencesExt

CONSTANTS
  Ids,       \* record ids
  None,      \* no record
  Contents,  \* the contents a caller may put
  Lengths,
  MaxPuts,   \* bound on the calls
  MaxLives   \* bound on the starts of the process

VARIABLES
  kind,      \* which store this is: CveStore ("cve") or GraphStore ("graph")
  file,      \* the cells of the file
  memory,    \* _records, _graphs: the contents of each id
  index,     \* _index: its line number, 0 when it has none
  lineNo,    \* _line_no
  puts,      \* calls so far
  lives,     \* starts so far
  past,      \* history: contents put for an id, also in a call cut short
  risky      \* history: was a write anything but safe

vars == <<kind, file, memory, index, lineNo, puts, lives, past, risky>>

Init ==
  /\ kind \in {"cve", "graph"}
  /\ file = <<>> /\ lineNo = 0 /\ puts = 0 /\ lives = 1 /\ risky = FALSE
  /\ memory = [i \in Ids |-> None]
  /\ index  = [i \in Ids |-> 0]
  /\ past   = [i \in Ids |-> {}]

-----------------------------------------------------------------------------
(***************************************************************************)
(* The file and its lines.                                                 *)
(***************************************************************************)

NL == [at |-> 0]

Payload(i, c, n) == [id |-> i, content |-> c, size |-> n]

CellsOf(p) == [k \in 1..(p.size + 1) |-> IF k > p.size THEN NL ELSE [of |-> p, at |-> k]]

\* Positions of the newlines of a file.
Breaks(f) == {k \in DOMAIN f : f[k] = NL}

\* Number of line starts up to position k.
LineAt(f, k) == 1 + Cardinality({b \in Breaks(f) : b < k})

\* Where the n-th line starts: readline() n - 1 times, at most to the end.
LineStart(f, n) ==
  IF n = 1 THEN 1
  ELSE IF Cardinality(Breaks(f)) < n - 1 THEN Len(f) + 1
  ELSE 1 + CHOOSE b \in Breaks(f) : LineAt(f, b) = n - 1

\* The line without its newline.
Line(f, n) ==
  LET from == LineStart(f, n)
      ends == {b \in Breaks(f) : b >= from}
  IN  SubSeq(f, from, IF ends = {} THEN Len(f) ELSE (CHOOSE b \in ends : \A c \in ends : b <= c) - 1)

Lines(f) == 1..LineAt(f, Len(f) + 1)

\* What json.loads makes of a line: only a whole record parses.
Records(f, n) ==
  {p \in {f[k].of : k \in DOMAIN f \ Breaks(f)} :
     Line(f, n) = SubSeq(CellsOf(p), 1, p.size)}

\* write() at a position: it replaces what is there.
Overlay(f, from, cells) ==
  [k \in 1..(IF from + Len(cells) - 1 > Len(f) THEN from + Len(cells) - 1 ELSE Len(f)) |->
     IF k \in from..(from + Len(cells) - 1) THEN cells[k - from + 1] ELSE f[k]]

-----------------------------------------------------------------------------
(***************************************************************************)
(* open(): _rebuild_index().                                               *)
(***************************************************************************)

LinesOf(f, i) == {n \in Lines(f) : \E p \in Records(f, n) : p.id = i}

RecordAt(f, n) == CHOOSE p \in Records(f, n) : TRUE

Latest(S) == CHOOSE n \in S : \A m \in S : m <= n

\* Every record of an id: CveStore merges them, GraphStore keeps the last.
Rebuilt(f, i) ==
  IF LinesOf(f, i) = {} THEN None
  ELSE IF kind = "cve" THEN UNION {RecordAt(f, n).content : n \in LinesOf(f, i)}
  ELSE RecordAt(f, Latest(LinesOf(f, i))).content

IndexOf(f, i) == IF LinesOf(f, i) = {} THEN 0 ELSE Latest(LinesOf(f, i))

\* Mutant: the file is opened with mode "w+".
OpenTruncating(f) ==
  /\ file' = <<>>
  /\ memory' = [i \in Ids |-> Rebuilt(<<>>, i)]
  /\ index'  = [i \in Ids |-> IndexOf(<<>>, i)]
  /\ lineNo' = 0

\* The index is that of the last record of an id.  CveStore then counts the
\* lines that follow the end of the file: there are none.
Open(f) ==
  /\ file' = f
  /\ memory' = [i \in Ids |-> Rebuilt(f, i)]
  /\ index'  = [i \in Ids |-> IndexOf(f, i)]
  /\ lineNo' = IF kind = "cve" THEN 0 ELSE Latest({0} \union {IndexOf(f, i) : i \in Ids})

\* close() and a start, or a kill between two calls.
Restart ==
  /\ lives < MaxLives /\ lives' = lives + 1
  /\ Open(file)
  /\ UNCHANGED <<kind, puts, past, risky>>

-----------------------------------------------------------------------------
(***************************************************************************)
(* upsert(), save().                                                       *)
(***************************************************************************)

Known(i) == memory[i] # None

\* An existing CVE is merged with the new report, a graph is replaced.
Merged(i, c) == IF kind = "cve" /\ Known(i) THEN memory[i] \union c ELSE c

\* Where the record goes: _write_line(), _rewrite_line(), or the handle that
\* appends.
Position(i) ==
  IF Known(i) THEN LineStart(file, index[i])
  ELSE IF kind = "cve" THEN LineStart(file, lineNo + 1)
  ELSE Len(file) + 1

\* A write that touches no line but the record's own: at the end of the
\* file, over the record in the same length, or over the last line if longer.
Safe(i, n) ==
  LET from == Position(i)
  IN  IF Known(i)
      THEN \E p \in Records(file, index[i]) :
             /\ p.id = i
             /\ \/ n = p.size
                \/ n > p.size /\ from + p.size = Len(file)
      ELSE from = Len(file) + 1

\* The call's effect on the file, when k of the cells are written.
Written(i, c, n, k) ==
  Overlay(file, Position(i), SubSeq(CellsOf(Payload(i, Merged(i, c), n)), 1, k))

\* Mutant: a record that is known is merged in memory only.
PutWithoutRewrite(i, c, n) ==
  /\ puts < MaxPuts /\ puts' = puts + 1
  /\ file' = IF Known(i) THEN file ELSE Written(i, c, n, n + 1)
  /\ risky' = (risky \/ ~Safe(i, n))
  /\ memory' = [memory EXCEPT ![i] = Merged(i, c)]
  /\ lineNo' = IF Known(i) THEN lineNo ELSE lineNo + 1
  /\ index'  = IF Known(i) THEN index ELSE [index EXCEPT ![i] = lineNo']
  /\ past' = [past EXCEPT ![i] = @ \union {c}]
  /\ UNCHANGED <<kind, lives>>

Put(i, c, n) ==
  /\ puts < MaxPuts /\ puts' = puts + 1
  /\ file' = Written(i, c, n, n + 1)
  /\ risky' = (risky \/ ~Safe(i, n))
  /\ memory' = [memory EXCEPT ![i] = Merged(i, c)]
  /\ lineNo' = IF Known(i) THEN lineNo ELSE lineNo + 1
  /\ index'  = IF Known(i) THEN index ELSE [index EXCEPT ![i] = lineNo']
  /\ past' = [past EXCEPT ![i] = @ \union {c}]
  /\ UNCHANGED <<kind, lives>>

\* The process dies when k cells of the record are written, and starts.
TornPut(i, c, n, k) ==
  /\ puts < MaxPuts /\ puts' = puts + 1
  /\ lives < MaxLives /\ lives' = lives + 1
  /\ Open(Written(i, c, n, k))
  /\ risky' = TRUE
  /\ past' = [past EXCEPT ![i] = @ \union {c}]
  /\ UNCHANGED kind

Next ==
  \/ Restart
  \/ \E i \in Ids, c \in Contents, n \in Lengths :
       \/ Put(i, c, n)
       \/ \E k \in 1..n : TornPut(i, c, n, k)

Spec == Init /\ [][Next]_vars

-----------------------------------------------------------------------------
TypeOK ==
  /\ kind \in {"cve", "graph"}
  /\ \A k \in DOMAIN file : file[k] # NL => file[k].of.id \in Ids
  /\ memory \in [Ids -> {None} \union SUBSET UNION Contents]
  /\ index \in [Ids -> Nat] /\ lineNo \in Nat
  /\ puts \in 0..MaxPuts /\ lives \in 1..MaxLives
  /\ past \in [Ids -> SUBSET Contents] /\ risky \in BOOLEAN

\* What an id may have been: a graph as it was put, a CVE any merge of reports.
Values(i) == IF kind = "cve" THEN {UNION S : S \in SUBSET past[i] \ {{}}} ELSE past[i]

Abstract == INSTANCE DurableMap
  WITH map <- memory, past <- [i \in Ids |-> Values(i)], frail <- risky

(***************************************************************************)
(* Refinement: the two stores are maps that a restart keeps, as long as    *)
(* every write was safe (store.py:123-139, 103-113, 65-90); after any      *)
(* other write a restart can lose records, or bring back old values, but   *)
(* makes up none, however lines overlap.                                   *)
(***************************************************************************)
ImplementsDurableMap == Abstract!Spec
=============================================================================
