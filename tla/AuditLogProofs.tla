--------------------------- MODULE AuditLogProofs ---------------------------
(***************************************************************************)
(* Proofs about AuditLog for any number of processes, modules, calls and   *)
(* broken appends. The inductive invariant says which cells of a record    *)
(* are in the file while it is being written, that no cell is there twice, *)
(* and that no two processes write the same record. On top of it, Beside   *)
(* and Trails say what precedes and what ends the records of a call.       *)
(***************************************************************************)
EXTENDS AuditLog, SequenceTheorems, FiniteSetTheorems, TLAPS

Writing(p) == proc[p].pc = "write"

(* A call in progress has a number and a module, and after an append it    *)
(* goes on outside of append.                                              *)
Activity ==
  \A p \in Processes :
    /\ proc[p].pc # "idle" => proc[p].call \in 1..MaxCalls /\ proc[p].module \in Modules
    /\ proc[p].next \in {"idle", "call"}

(* A process writes a record of its own, one that nobody else writes.      *)
Ownership ==
  /\ \A p \in Processes : Writing(p) =>
       /\ proc[p].id \in DOMAIN issued
       /\ issued[proc[p].id].by = p
       /\ proc[p].id > born[p]
  /\ \A p, q \in Processes :
       Writing(p) /\ Writing(q) /\ proc[p].id = proc[q].id => p = q

(* Exactly the cells up to `written` are in the file, each of them once.   *)
Placement ==
  /\ \A p \in Processes : Writing(p) =>
       /\ \A i \in DOMAIN file :
            file[i].rec = proc[p].id => file[i].part <= proc[p].written
       /\ \A k \in 1..proc[p].written :
            \E i \in DOMAIN file : file[i] = [rec |-> proc[p].id, part |-> k]
  /\ \A i, j \in DOMAIN file : file[i] = file[j] => i = j

IInv == TypeOK /\ Activity /\ Ownership /\ Placement /\ SilenceMeansWritten

(* What one write does to the file: it keeps the old cells where they were *)
(* and puts the new ones behind them.                                      *)
LEMMA WriteCells ==
  ASSUME TypeOK, NEW p \in Processes, NEW n \in 1..Parts, Writing(p),
         proc[p].written + n <= Parts,
         file' = file \o Cells(proc[p].id, proc[p].written, n)
  PROVE  /\ file' \in Seq(Cell)
         /\ Len(file') = Len(file) + n
         /\ \A i \in 1..Len(file) : file'[i] = file[i]
         /\ \A i \in (Len(file) + 1)..(Len(file) + n) :
              file'[i] = [rec |-> proc[p].id,
                          part |-> proc[p].written + (i - Len(file))]
<1> DEFINE new == Cells(proc[p].id, proc[p].written, n)
<1>1. proc[p].id \in Nat /\ proc[p].written \in 0..(Parts - 1) /\ file \in Seq(Cell)
  BY DEF TypeOK, Process
<1>2. new \in Seq(Cell) /\ Len(new) = n
  BY <1>1 DEF Cells, Cell, Parts
<1>3. \A j \in 1..n : new[j] = [rec |-> proc[p].id, part |-> proc[p].written + j]
  BY DEF Cells
<1> HIDE DEF new
<1>4. /\ file \o new \in Seq(Cell)
      /\ Len(file \o new) = Len(file) + Len(new)
      /\ \A i \in 1..Len(file) + Len(new) :
           (file \o new)[i] = IF i <= Len(file) THEN file[i] ELSE new[i - Len(file)]
  BY <1>1, <1>2, ConcatProperties
<1>5. Len(file) \in Nat
  BY <1>1
<1> QED
  BY <1>2, <1>3, <1>4, <1>5 DEF new

(* The initial state satisfies the invariant: nothing has been issued.     *)
LEMMA InitIInv == Init => IInv
<1> SUFFICES ASSUME Init PROVE IInv
  OBVIOUS
<1>1. TypeOK
  BY AuditAssumption DEF Init, TypeOK, Process, AtRest, Phases, Parts, MaxJudgements
<1>2. Activity /\ Ownership /\ Placement /\ SilenceMeansWritten
  BY DEF Init, Activity, Ownership, Placement, SilenceMeansWritten, AtRest, Writing
<1> QED
  BY <1>1, <1>2 DEF IInv

(* A new record: the file is as it was, and nobody writes the record yet.  *)
LEMMA IssueIInv ==
  ASSUME IInv, NEW p \in Processes, NEW kind \in {"decision", "run"},
         NEW result \in {"allow", "deny", "success", "error"},
         NEW due \in 0..MaxJudgements, NEW granted \in BOOLEAN,
         NEW next \in {"idle", "call"},
         proc[p].pc = "call",
         Issue(p, kind, result, due, granted, next),
         UNCHANGED <<file, warned, born, calls, breaks, setting, governed>>
  PROVE  IInv'
<1> DEFINE new == [kind |-> kind, call |-> proc[p].call, module |-> proc[p].module,
                   result |-> result, by |-> p]
<1> USE DEF IInv
<1>1. new \in Record /\ issued \in Seq(Record)
  BY DEF TypeOK, Activity, Record
<1>2. issued' = Append(issued, new)
  BY DEF Issue
<1> HIDE DEF new
<1>3. /\ issued' \in Seq(Record) /\ Len(issued') = Len(issued) + 1
      /\ Len(issued) \in Nat
      /\ \A i \in 1..Len(issued) : issued'[i] = issued[i]
      /\ issued'[Len(issued) + 1] = new
      /\ DOMAIN issued = 1..Len(issued) /\ DOMAIN issued' = 1..(Len(issued) + 1)
  BY <1>1, <1>2, AppendProperties, LenProperties
<1>4. new.by = p
  BY DEF new
<1>5. /\ \A q \in Processes : q # p => proc'[q] = proc[q]
      /\ proc'[p] = [proc[p] EXCEPT !.pc = "write", !.next = next, !.due = due, !.granted = granted,
                                    !.id = Len(issued) + 1, !.written = 0]
      /\ proc' = [q \in Processes |-> proc'[q]]
  BY DEF Issue, TypeOK
<1>6. proc[p] \in Process /\ proc[p].call \in 1..MaxCalls /\ proc[p].module \in Modules
  BY DEF TypeOK, Activity
<1>7. proc'[p] = [pc |-> "write", next |-> next, call |-> proc[p].call,
                  module |-> proc[p].module, due |-> due, granted |-> granted,
                  id |-> Len(issued) + 1, written |-> 0]
  BY <1>5, <1>6 DEF Process
<1>8. /\ proc'[p].pc = "write" /\ proc'[p].next = next
      /\ proc'[p].call = proc[p].call /\ proc'[p].module = proc[p].module
      /\ proc'[p].id = Len(issued) + 1 /\ proc'[p].written = 0
      /\ proc'[p] \in Process
  BY <1>3, <1>6, <1>7 DEF Process, Phases, Parts
<1>12. TypeOK'
  <2> \A q \in Processes : proc'[q] \in Process
    BY <1>5, <1>8 DEF TypeOK
  <2>1. proc' \in [Processes -> Process]
    BY <1>5
  <2>2. born' \in [Processes -> 0..Len(issued')]
    BY <1>3 DEF TypeOK
  <2>3. \A i \in DOMAIN file' : file'[i].rec \in DOMAIN issued'
    BY <1>3 DEF TypeOK
  <2> QED
    BY <2>1, <2>2, <2>3, <1>3 DEF TypeOK
<1>13. Activity'
  <2> SUFFICES ASSUME NEW q \in Processes
               PROVE  /\ proc'[q].pc # "idle" => /\ proc'[q].call \in 1..MaxCalls
                                                 /\ proc'[q].module \in Modules
                      /\ proc'[q].next \in {"idle", "call"}
    BY DEF Activity
  <2>1. CASE q = p
    BY <2>1, <1>6, <1>8
  <2>2. CASE q # p
    BY <2>2, <1>5 DEF Activity
  <2> QED
    BY <2>1, <2>2
<1>9. Ownership'
  <2>1. \A q \in Processes : q # p /\ Writing(q)' =>
          /\ Writing(q) /\ proc'[q].id = proc[q].id
          /\ proc[q].id \in 1..Len(issued)
    BY <1>3, <1>5 DEF Ownership, Writing
  <2>2. born[p] \in 0..Len(issued)
    BY DEF TypeOK
  <2>3. ASSUME NEW q \in Processes, Writing(q)'
        PROVE  /\ proc'[q].id \in DOMAIN issued'
               /\ issued'[proc'[q].id].by = q
               /\ proc'[q].id > born'[q]
    <3>1. CASE q = p
      BY <1>3, <1>4, <1>8, <2>2, <3>1
    <3>2. CASE q # p
      BY <1>3, <2>1, <2>3, <3>2 DEF Ownership
    <3> QED
      BY <3>1, <3>2
  <2>4. ASSUME NEW q \in Processes, NEW s \in Processes,
               Writing(q)', Writing(s)', proc'[q].id = proc'[s].id
        PROVE  q = s
    BY <1>3, <1>8, <2>1, <2>4 DEF Ownership
  <2> QED
    BY <2>3, <2>4 DEF Ownership
<1>10. Placement'
  <2>1. \A i \in DOMAIN file : file[i].rec # Len(issued) + 1
    BY <1>3 DEF TypeOK
  <2>2. ASSUME NEW q \in Processes, Writing(q)'
        PROVE  /\ \A i \in DOMAIN file' :
                    file'[i].rec = proc'[q].id => file'[i].part <= proc'[q].written
               /\ \A k \in 1..proc'[q].written :
                    \E i \in DOMAIN file' : file'[i] = [rec |-> proc'[q].id, part |-> k]
    <3>1. CASE q = p
      BY <2>1, <1>8, <3>1
    <3>2. CASE q # p
      BY <2>2, <1>5, <3>2 DEF Placement, Writing
    <3> QED
      BY <3>1, <3>2
  <2> QED
    BY <2>2 DEF Placement
<1>11. SilenceMeansWritten'
  <2> SUFFICES ASSUME NEW r \in DOMAIN issued', OfLiveLogger(r)',
                      ~warned'[issued'[r].by], ~BeingWritten(r)'
               PROVE  Complete(r)'
    BY DEF SilenceMeansWritten
  <2>1. r # Len(issued) + 1
    BY <1>8 DEF BeingWritten
  <2>2. r \in DOMAIN issued /\ issued'[r] = issued[r]
    BY <2>1, <1>3
  <2>3. ~BeingWritten(r)
    BY <1>5, <2>1 DEF BeingWritten
  <2>4. Complete(r)
    BY <2>2, <2>3 DEF SilenceMeansWritten, OfLiveLogger
  <2> QED
    BY <2>4 DEF Complete
<1> QED
  BY <1>12, <1>13, <1>9, <1>10, <1>11

(* What a process may be after a step that does not leave it writing.      *)
Settled(v) ==
  /\ v \in Process /\ v.pc # "write"
  /\ v.pc # "idle" => v.call \in 1..MaxCalls /\ v.module \in Modules
  /\ v.next \in {"idle", "call"}

(* The process that append returns to.                                     *)
Resumed(v) ==
  IF v.next = "idle" THEN AtRest
  ELSE [v EXCEPT !.pc = v.next, !.next = "idle", !.id = 0, !.written = 0]

LEMMA AtRestSettled == Settled(AtRest)
BY AuditAssumption DEF Settled, AtRest, Process, Phases, Parts, MaxJudgements

LEMMA ResumedSettled ==
  ASSUME TypeOK, Activity, NEW p \in Processes, Writing(p)
  PROVE  Settled(Resumed(proc[p]))
<1>1. proc[p] \in Process /\ proc[p].call \in 1..MaxCalls /\ proc[p].module \in Modules
      /\ proc[p].next \in {"idle", "call"}
  BY DEF TypeOK, Activity, Writing
<1>2. CASE proc[p].next = "idle"
  BY <1>2, AtRestSettled DEF Resumed
<1>3. CASE proc[p].next # "idle"
  <2>1. Resumed(proc[p]) =
          [pc |-> proc[p].next, next |-> "idle", call |-> proc[p].call,
           module |-> proc[p].module, due |-> proc[p].due, granted |-> proc[p].granted,
           id |-> 0, written |-> 0]
    BY <1>1, <1>3 DEF Resumed, Process
  <2> QED
    BY <2>1, <1>1, <1>3 DEF Settled, Process, Phases, Parts
<1> QED
  BY <1>2, <1>3

(* A process that stops writing, or was not writing, leaves the others     *)
(* and the file alone.                                                     *)
LEMMA SettledStep ==
  ASSUME TypeOK, Activity, Ownership, Placement,
         NEW p \in Processes, NEW v, Settled(v),
         proc' = [proc EXCEPT ![p] = v], UNCHANGED <<file, issued>>,
         \A q \in Processes : q # p => born'[q] = born[q]
  PROVE  /\ proc' \in [Processes -> Process]
         /\ Activity' /\ Ownership' /\ Placement'
         /\ \A r : BeingWritten(r) /\ ~BeingWritten(r)' => Writing(p) /\ r = proc[p].id
<1>1. /\ proc \in [Processes -> Process]
      /\ \A q \in Processes : q # p => proc'[q] = proc[q]
      /\ proc'[p] = v /\ v \in Process /\ v.pc # "write"
  BY DEF TypeOK, Settled
<1>2. proc' \in [Processes -> Process]
  BY <1>1
<1>3. Activity'
  BY <1>1 DEF Activity, Settled
<1>4. \A q \in Processes : Writing(q)' => q # p /\ Writing(q)
  BY <1>1 DEF Writing
<1>5. Ownership'
  BY <1>1, <1>4 DEF Ownership, Writing
<1>6. Placement'
  BY <1>1, <1>4 DEF Placement, Writing
<1>7. \A r : BeingWritten(r) /\ ~BeingWritten(r)' => Writing(p) /\ r = proc[p].id
  BY <1>1 DEF BeingWritten, Writing
<1> QED
  BY <1>2, <1>3, <1>5, <1>6, <1>7

(* A step of a process outside of append that issues nothing.              *)
LEMMA QuietIInv ==
  ASSUME IInv, NEW p \in Processes, NEW v, ~Writing(p), Settled(v),
         proc' = [proc EXCEPT ![p] = v],
         calls' \in 0..MaxCalls, UNCHANGED <<file, issued, warned, born, breaks, setting, governed>>
  PROVE  IInv'
<1>1. /\ proc' \in [Processes -> Process]
      /\ Activity' /\ Ownership' /\ Placement'
      /\ \A r : BeingWritten(r) => BeingWritten(r)'
  BY SettledStep DEF IInv
<1>2. TypeOK'
  BY <1>1 DEF IInv, TypeOK
<1>3. SilenceMeansWritten'
  BY <1>1 DEF IInv, SilenceMeansWritten, OfLiveLogger, Complete
<1> QED
  BY <1>1, <1>2, <1>3 DEF IInv

(* append failed: its logger has warned by now.                            *)
LEMMA AppendFailsIInv ==
  ASSUME IInv, NEW p \in Processes, AppendFails(p)
  PROVE  IInv'
<1>1. Writing(p) /\ Settled(Resumed(proc[p])) /\ proc' = [proc EXCEPT ![p] = Resumed(proc[p])]
  BY ResumedSettled DEF IInv, AppendFails, Writing, Resume, Resumed
<1>2. /\ proc' \in [Processes -> Process]
      /\ Activity' /\ Ownership' /\ Placement'
      /\ \A r : BeingWritten(r) /\ ~BeingWritten(r)' => r = proc[p].id
  BY <1>1, SettledStep DEF IInv, AppendFails
<1>3. warned'[p] = TRUE /\ \A q \in Processes : q # p => warned'[q] = warned[q]
  BY DEF IInv, TypeOK, AppendFails
<1>4. TypeOK'
  <2>1. breaks' \in 0..MaxBreaks[setting]
    BY AuditAssumption DEF IInv, TypeOK, AppendFails, Break
  <2>2. warned' \in [Processes -> BOOLEAN]
    BY DEF IInv, TypeOK, AppendFails
  <2> QED
    BY <1>2, <2>1, <2>2 DEF IInv, TypeOK, AppendFails
<1>5. SilenceMeansWritten'
  <2> SUFFICES ASSUME NEW r \in DOMAIN issued, OfLiveLogger(r),
                      ~warned'[issued[r].by], ~BeingWritten(r)'
               PROVE  Complete(r)
    BY DEF SilenceMeansWritten, OfLiveLogger, Complete, AppendFails
  <2>1. issued[r].by \in Processes
    <3>1. issued[r] \in Record
      BY DEF IInv, TypeOK
    <3> QED
      BY <3>1 DEF Record
  <2>2. issued[r].by # p /\ ~warned[issued[r].by]
    BY <1>3, <2>1
  <2>3. ~BeingWritten(r)
    BY <1>1, <1>2, <2>2 DEF IInv, Ownership
  <2> QED
    BY <2>2, <2>3 DEF IInv, SilenceMeansWritten
<1> QED
  BY <1>2, <1>4, <1>5 DEF IInv

(* A process died: nothing issued so far belongs to its next logger.       *)
LEMMA DieIInv ==
  ASSUME IInv, NEW p \in Processes, Die(p)
  PROVE  IInv'
<1>1. Settled(AtRest) /\ proc' = [proc EXCEPT ![p] = AtRest]
  BY AtRestSettled DEF Die
<1>2. /\ born'[p] = Len(issued) /\ warned'[p] = FALSE
      /\ \A q \in Processes : q # p => born'[q] = born[q] /\ warned'[q] = warned[q]
  BY DEF IInv, TypeOK, Die
<1>3. /\ proc' \in [Processes -> Process]
      /\ Activity' /\ Ownership' /\ Placement'
      /\ \A r : BeingWritten(r) /\ ~BeingWritten(r)' => Writing(p) /\ r = proc[p].id
  BY <1>1, <1>2, SettledStep DEF IInv, Die
<1>4. issued \in Seq(Record) /\ Len(issued) \in Nat /\ DOMAIN issued = 1..Len(issued)
  BY DEF IInv, TypeOK
<1>5. TypeOK'
  BY <1>3, <1>4, AuditAssumption DEF IInv, TypeOK, Die, Break
<1>6. SilenceMeansWritten'
  <2> SUFFICES ASSUME NEW r \in DOMAIN issued, r > born'[issued[r].by],
                      ~warned'[issued[r].by], ~BeingWritten(r)'
               PROVE  Complete(r)
    BY DEF SilenceMeansWritten, OfLiveLogger, Complete, Die
  <2>1. issued[r].by \in Processes /\ r \in 1..Len(issued)
    <3>1. issued[r] \in Record
      BY <1>4
    <3> QED
      BY <1>4, <3>1 DEF Record
  <2>2. issued[r].by # p
    BY <1>2, <1>4, <2>1
  <2>3. ~BeingWritten(r)
    BY <1>3, <2>2 DEF IInv, Ownership
  <2>4. OfLiveLogger(r) /\ ~warned[issued[r].by]
    BY <1>2, <2>1, <2>2 DEF OfLiveLogger
  <2> QED
    BY <2>3, <2>4 DEF IInv, SilenceMeansWritten
<1> QED
  BY <1>3, <1>5, <1>6 DEF IInv

(* A write places the next cells of its record behind all others; with the *)
(* last of them the record is complete.                                    *)
LEMMA WriteIInv ==
  ASSUME IInv, NEW p \in Processes, NEW n \in 1..Parts, Write(p, n)
  PROVE  IInv'
<1> DEFINE id == proc[p].id
           before == proc[p].written
<1>0. /\ proc[p] \in Process /\ before \in 0..2 /\ n \in 1..3 /\ Parts = 3
  BY DEF IInv, TypeOK, Process, Parts
<1>1. /\ Writing(p) /\ before + n <= Parts
      /\ file' = file \o Cells(id, before, n)
      /\ UNCHANGED <<issued, warned, born, calls, setting, governed>>
  BY <1>0 DEF Write, Writing
<1>2. /\ file' \in Seq(Cell) /\ Len(file') = Len(file) + n
      /\ \A i \in 1..Len(file) : file'[i] = file[i]
      /\ \A i \in (Len(file) + 1)..(Len(file) + n) :
           file'[i] = [rec |-> id, part |-> before + (i - Len(file))]
  BY <1>1, WriteCells DEF IInv
<1>3. /\ Len(file) \in Nat /\ DOMAIN file = 1..Len(file)
      /\ DOMAIN file' = 1..(Len(file) + n)
      /\ id \in DOMAIN issued /\ proc \in [Processes -> Process]
      /\ \A i \in DOMAIN file : file[i] \in Cell
  BY <1>1, <1>2 DEF IInv, TypeOK, Ownership
<1> HIDE DEF before, id
<1>4. \A i \in DOMAIN file : file[i].rec = id => file[i].part <= before
  BY <1>1 DEF IInv, Placement, id, before
<1>5. \A k \in 1..(before + n) : \E i \in DOMAIN file' : file'[i] = [rec |-> id, part |-> k]
  <2> SUFFICES ASSUME NEW k \in 1..(before + n)
               PROVE  \E i \in DOMAIN file' : file'[i] = [rec |-> id, part |-> k]
    OBVIOUS
  <2>1. CASE k <= before
    <3>1. PICK i \in DOMAIN file : file[i] = [rec |-> id, part |-> k]
      BY <1>1, <1>3, <2>1 DEF IInv, Placement, id, before
    <3> QED
      BY <1>2, <1>3, <3>1
  <2>2. CASE k > before
    <3>1. Len(file) + (k - before) \in (Len(file) + 1)..(Len(file) + n)
      BY <1>0, <1>3, <2>2
    <3>2. file'[Len(file) + (k - before)] = [rec |-> id, part |-> k]
      BY <1>0, <1>2, <1>3, <3>1
    <3> QED
      BY <1>0, <1>3, <3>1, <3>2
  <2> QED
    BY <1>0, <2>1, <2>2
<1>6. /\ \A i \in DOMAIN file' \ DOMAIN file :
           /\ file'[i].rec = id /\ file'[i].part = before + (i - Len(file))
           /\ i \in (Len(file) + 1)..(Len(file) + n)
      /\ \A i \in DOMAIN file' : file'[i].rec = id => file'[i].part <= before + n
  <2>1. \A i \in DOMAIN file' \ DOMAIN file : i \in (Len(file) + 1)..(Len(file) + n)
    BY <1>0, <1>3
  <2>2. \A i \in DOMAIN file' \ DOMAIN file :
          file'[i].rec = id /\ file'[i].part = before + (i - Len(file))
    <3> SUFFICES ASSUME NEW i \in DOMAIN file' \ DOMAIN file
                 PROVE  file'[i].rec = id /\ file'[i].part = before + (i - Len(file))
      OBVIOUS
    <3>1. file'[i] = [rec |-> id, part |-> before + (i - Len(file))]
      BY <1>2, <2>1
    <3> QED
      BY <3>1
  <2>3. \A i \in DOMAIN file : file'[i].rec = id => file'[i].part <= before + n
    <3>1. \A i \in DOMAIN file : file[i].part \in 1..3
      BY <1>0, <1>3 DEF Cell
    <3> QED
      BY <1>0, <1>2, <1>3, <1>4, <3>1
  <2>4. \A i \in DOMAIN file' \ DOMAIN file : file'[i].part <= before + n
    BY <1>0, <1>3, <2>1, <2>2
  <2> QED
    BY <2>1, <2>2, <2>3, <2>4
<1>7. \A i, j \in DOMAIN file' : file'[i] = file'[j] => i = j
  <2> SUFFICES ASSUME NEW i \in DOMAIN file', NEW j \in DOMAIN file', file'[i] = file'[j]
               PROVE  i = j
    OBVIOUS
  <2>1. CASE i \in DOMAIN file /\ j \in DOMAIN file
    BY <1>2, <1>3, <2>1 DEF IInv, Placement
  <2>2. CASE i \notin DOMAIN file /\ j \notin DOMAIN file
    <3>1. before + (i - Len(file)) = before + (j - Len(file))
      BY <1>6, <2>2
    <3> QED
      BY <1>0, <1>3, <1>6, <2>2, <3>1
  <2>3. ASSUME NEW a \in DOMAIN file, NEW b \in DOMAIN file' \ DOMAIN file
        PROVE  file'[a] # file'[b]
    <3>1. file'[b].rec = id /\ file'[b].part > before
      BY <1>0, <1>3, <1>6
    <3>2. file'[a] = file[a] /\ (file[a].rec = id => file[a].part <= before)
      BY <1>2, <1>3, <1>4
    <3>3. file[a].part \in 1..3
      BY <1>0, <1>3 DEF Cell
    <3> QED
      BY <1>0, <3>1, <3>2, <3>3
  <2> QED
    BY <2>1, <2>2, <2>3
<1>8. \A i \in DOMAIN file' : file'[i].rec \in DOMAIN issued'
  BY <1>1, <1>2, <1>3, <1>6 DEF IInv, TypeOK
<1>9. \A r : Complete(r) => Complete(r)'
  BY <1>2, <1>3 DEF Complete
<1>10. CASE before + n = Parts
  <2>1. /\ Settled(Resumed(proc[p])) /\ proc' = [proc EXCEPT ![p] = Resumed(proc[p])]
        /\ UNCHANGED breaks
    <3>1. Resume(p) /\ UNCHANGED breaks
      BY <1>0, <1>10 DEF Write, before
    <3> QED
      BY <1>1, <3>1, ResumedSettled DEF IInv, Resume, Resumed
  <2>2. /\ \A q \in Processes : q # p => proc'[q] = proc[q]
        /\ proc'[p] = Resumed(proc[p]) /\ proc'[p] \in Process /\ proc'[p].pc # "write"
    BY <1>3, <2>1 DEF Settled
  <2>3. proc' \in [Processes -> Process]
    BY <1>3, <2>1 DEF Settled
  <2>4. TypeOK'
    BY <1>1, <1>2, <1>8, <2>1, <2>3 DEF IInv, TypeOK
  <2>5. Activity'
    BY <2>1, <2>2 DEF IInv, Activity, Settled
  <2>6. \A q \in Processes : Writing(q)' => q # p /\ Writing(q) /\ proc[q].id # id
    BY <1>1, <2>2 DEF IInv, Ownership, Writing, id
  <2>7. Ownership'
    BY <1>1, <2>2, <2>6 DEF IInv, Ownership, Writing
  <2>8. Placement'
    <3>1. ASSUME NEW q \in Processes, Writing(q)'
          PROVE  /\ \A i \in DOMAIN file' :
                      file'[i].rec = proc'[q].id => file'[i].part <= proc'[q].written
                 /\ \A k \in 1..proc'[q].written :
                      \E i \in DOMAIN file' : file'[i] = [rec |-> proc'[q].id, part |-> k]
      <4>1. Writing(q) /\ proc[q].id # id /\ proc'[q] = proc[q]
        BY <2>2, <2>6, <3>1
      <4>2. \A i \in DOMAIN file' : file'[i].rec = proc[q].id => i \in DOMAIN file
        BY <1>6, <4>1
      <4> QED
        BY <1>0, <1>2, <1>3, <4>1, <4>2 DEF IInv, Placement
    <3> QED
      BY <1>7, <3>1 DEF Placement
  <2>9. \A k \in 1..Parts : \E i \in DOMAIN file' : file'[i] = [rec |-> id, part |-> k]
    BY <1>0, <1>5, <1>10
  <2>10. SilenceMeansWritten'
    <3> SUFFICES ASSUME NEW r \in DOMAIN issued, OfLiveLogger(r),
                        ~warned[issued[r].by], ~BeingWritten(r)'
                 PROVE  Complete(r)'
      BY <1>1 DEF SilenceMeansWritten, OfLiveLogger
    <3>1. r # id => ~BeingWritten(r)
      BY <2>2 DEF BeingWritten, id
    <3>2. CASE r = id
      BY <2>9, <3>2 DEF Complete
    <3>3. CASE r # id
      BY <1>9, <3>1, <3>3 DEF IInv, SilenceMeansWritten
    <3> QED
      BY <3>2, <3>3
  <2> QED
    BY <2>4, <2>5, <2>7, <2>8, <2>10 DEF IInv
<1>11. CASE before + n < Parts
  <2>1. proc' = [proc EXCEPT ![p].written = before + n] /\ Break
    BY <1>0, <1>1, <1>3, <1>11 DEF Write, before
  <2>2. /\ \A q \in Processes : q # p => proc'[q] = proc[q]
        /\ proc'[p] = [proc[p] EXCEPT !.written = before + n]
    BY <1>3, <2>1
  <2>3. /\ proc'[p] \in Process /\ proc'[p].written = before + n
        /\ proc'[p].id = id /\ proc'[p].pc = "write" /\ proc'[p].next = proc[p].next
        /\ proc'[p].call = proc[p].call /\ proc'[p].module = proc[p].module
    <3>1. proc[p].pc = "write" /\ proc[p].id = id /\ before + n \in 0..2
      BY <1>0, <1>1, <1>11 DEF Writing, id
    <3>2. proc'[p] = [pc |-> proc[p].pc, next |-> proc[p].next, call |-> proc[p].call,
                      module |-> proc[p].module, due |-> proc[p].due, granted |-> proc[p].granted,
                      id |-> proc[p].id, written |-> before + n]
      BY <1>0, <2>2 DEF Process
    <3> QED
      BY <1>0, <3>1, <3>2 DEF Process
  <2>4. proc' \in [Processes -> Process]
    BY <1>3, <2>1, <2>3
  <2>5. breaks' \in 0..MaxBreaks[setting]
    BY <2>1, AuditAssumption DEF IInv, TypeOK, Break
  <2>6. TypeOK'
    BY <1>1, <1>2, <1>8, <2>4, <2>5 DEF IInv, TypeOK
  <2>7. Activity'
    BY <1>1, <2>2, <2>3 DEF IInv, Activity, Writing
  <2>8. \A q \in Processes : (Writing(q)' <=> Writing(q)) /\ proc'[q].id = proc[q].id
    BY <1>1, <2>2, <2>3 DEF Writing, id
  <2>9. Ownership'
    BY <1>1, <2>8 DEF IInv, Ownership
  <2>10. Placement'
    <3>1. ASSUME NEW q \in Processes, Writing(q)'
          PROVE  /\ \A i \in DOMAIN file' :
                      file'[i].rec = proc'[q].id => file'[i].part <= proc'[q].written
                 /\ \A k \in 1..proc'[q].written :
                      \E i \in DOMAIN file' : file'[i] = [rec |-> proc'[q].id, part |-> k]
      <4>1. CASE q = p
        BY <1>5, <1>6, <2>3, <4>1
      <4>2. CASE q # p
        <5>1. proc[q].id # id /\ Writing(q) /\ proc'[q] = proc[q]
          BY <1>1, <2>2, <2>8, <3>1, <4>2 DEF IInv, Ownership, id
        <5>2. \A i \in DOMAIN file' : file'[i].rec = proc[q].id => i \in DOMAIN file
          BY <1>6, <5>1
        <5> QED
          BY <1>0, <1>2, <1>3, <5>1, <5>2 DEF IInv, Placement
      <4> QED
        BY <4>1, <4>2
    <3> QED
      BY <1>7, <3>1 DEF Placement
  <2>11. SilenceMeansWritten'
    <3>1. \A r : BeingWritten(r)' <=> BeingWritten(r)
      BY <2>8 DEF BeingWritten, Writing
    <3> QED
      BY <1>1, <1>9, <3>1 DEF IInv, SilenceMeansWritten, OfLiveLogger
  <2> QED
    BY <2>6, <2>7, <2>9, <2>10, <2>11 DEF IInv
<1> QED
  BY <1>0, <1>1, <1>10, <1>11

(* Every step preserves the invariant.                                     *)
LEMMA NextIInv == IInv /\ [Next]_vars => IInv'
<1> SUFFICES ASSUME IInv, [Next]_vars PROVE IInv'
  OBVIOUS
<1>1. ASSUME NEW p \in Processes, NEW m \in Modules, Begin(p, m) PROVE IInv'
  <2> DEFINE due == IF governed[calls + 1] THEN MaxJudgements ELSE 0
             granted == ~governed[calls + 1]
             v == [proc[p] EXCEPT !.pc = "call", !.call = calls + 1, !.module = m,
                                  !.due = due, !.granted = granted]
  <2>1. /\ proc[p] \in Process /\ proc \in [Processes -> Process]
        /\ proc[p].next \in {"idle", "call"}
        /\ calls + 1 \in 1..MaxCalls /\ proc[p].pc = "idle"
        /\ governed[calls + 1] \in BOOLEAN
    BY <1>1, AuditAssumption DEF IInv, TypeOK, Activity, Begin
  <2>6. due \in 0..MaxJudgements /\ granted \in BOOLEAN
    BY <2>1 DEF MaxJudgements
  <2>4. proc' = [proc EXCEPT ![p] = v]
    BY <1>1, <2>1 DEF Begin
  <2> HIDE DEF due, granted
  <2>2. PICK w : w = v
    OBVIOUS
  <2> w = [pc |-> "call", next |-> proc[p].next, call |-> calls + 1, module |-> m,
           due |-> due, granted |-> granted, id |-> proc[p].id,
           written |-> proc[p].written]
    BY <2>1, <2>2 DEF Process
  <2>3. Settled(w)
    BY <2>1, <2>6 DEF Settled, Process, Phases, Parts
  <2>5. /\ calls' \in 0..MaxCalls
        /\ UNCHANGED <<file, issued, warned, born, breaks, setting, governed>>
    BY <1>1, <2>1 DEF Begin
  <2> HIDE DEF v
  <2> QED
    BY <2>1, <2>2, <2>3, <2>4, <2>5, QuietIInv DEF Writing
<1>2. ASSUME NEW p \in Processes, NEW allowed \in BOOLEAN, Judge(p, allowed)
      PROVE  IInv'
  <2> DEFINE due == IF allowed THEN proc[p].due - 1 ELSE 0
             result == IF allowed THEN "allow" ELSE "deny"
             v == [proc[p] EXCEPT !.due = due, !.granted = allowed]
  <2>1. /\ proc[p] \in Process /\ proc \in [Processes -> Process]
        /\ proc[p].next \in {"idle", "call"} /\ proc[p].pc = "call"
        /\ proc[p].call \in 1..MaxCalls /\ proc[p].module \in Modules
    BY <1>2 DEF IInv, TypeOK, Activity, Judge
  <2>4. due \in 0..MaxJudgements
    BY <1>2, <2>1 DEF Judge, Process, MaxJudgements
  <2>2. CASE Issue(p, "decision", result, due, allowed, "call")
    <3>1. UNCHANGED <<file, warned, born, calls, breaks, setting, governed>>
      BY <1>2 DEF Judge
    <3>2. result \in {"allow", "deny", "success", "error"}
      OBVIOUS
    <3> QED
      BY <2>1, <2>2, <2>4, <3>1, <3>2, IssueIInv
  <2>3. CASE proc' = [proc EXCEPT ![p].due = due, ![p].granted = allowed] /\ UNCHANGED issued
    <3>3. proc' = [proc EXCEPT ![p] = v]
      BY <2>1, <2>3
    <3> HIDE DEF due
    <3>1. PICK w : w = v
      OBVIOUS
    <3> w = [pc |-> proc[p].pc, next |-> proc[p].next, call |-> proc[p].call,
             module |-> proc[p].module, due |-> due, granted |-> allowed,
             id |-> proc[p].id, written |-> proc[p].written]
      BY <2>1, <3>1 DEF Process
    <3>2. Settled(w)
      BY <2>1, <2>4 DEF Settled, Process, Phases, Parts
    <3>4. /\ calls' \in 0..MaxCalls
          /\ UNCHANGED <<file, issued, warned, born, breaks, setting, governed>>
      BY <1>2, <2>3 DEF IInv, TypeOK, Judge
    <3> HIDE DEF v
    <3> QED
      BY <2>1, <3>1, <3>2, <3>3, <3>4, QuietIInv DEF Writing
  <2> QED
    BY <1>2, <2>2, <2>3 DEF Judge
<1>3. ASSUME NEW p \in Processes, NEW status \in {"success", "error"}, Finish(p, status)
      PROVE  IInv'
  <2>1. proc[p].granted \in BOOLEAN /\ proc[p].due \in 0..MaxJudgements
    <3>1. proc[p] \in Process
      BY DEF IInv, TypeOK
    <3> QED
      BY <3>1 DEF Process
  <2> QED
    BY <1>3, <2>1, IssueIInv DEF Finish
<1>8. ASSUME NEW p \in Processes, Leave(p) PROVE IInv'
  BY <1>8, AtRestSettled, QuietIInv DEF Leave, Writing, IInv, TypeOK
<1>4. ASSUME NEW p \in Processes, NEW n \in 1..Parts, Write(p, n) PROVE IInv'
  BY <1>4, WriteIInv
<1>5. ASSUME NEW p \in Processes, AppendFails(p) PROVE IInv'
  BY <1>5, AppendFailsIInv
<1>6. ASSUME NEW p \in Processes, Die(p) PROVE IInv'
  BY <1>6, DieIInv
<1>7. CASE UNCHANGED vars
  BY <1>7 DEF vars, IInv, TypeOK, Activity, Ownership, Placement, SilenceMeansWritten,
              Writing, OfLiveLogger, BeingWritten, Complete
<1> QED
  BY <1>1, <1>2, <1>3, <1>4, <1>5, <1>6, <1>7, <1>8 DEF Next

(* The invariant holds in every reachable state.                           *)
LEMMA Invariance == Spec => []IInv
  BY InitIInv, NextIInv, PTL DEF Spec

(* The type invariant, for every number of processes and calls.            *)
THEOREM TypeCorrect == Spec => []TypeOK
<1>1. IInv => TypeOK
  BY DEF IInv
<1> QED
  BY <1>1, Invariance, PTL

(* A logger that never warned has written all it was given: append loops   *)
(* until the last byte or warns (audit.ts).                                *)
THEOREM SilenceTheorem == Spec => []SilenceMeansWritten
<1>1. IInv => SilenceMeansWritten
  BY DEF IInv
<1> QED
  BY <1>1, Invariance, PTL

(* Every step leaves the file or puts cells behind it, so the lines that   *)
(* are closed are read as before: the log is append-only (system-usage.ts).*)
THEOREM ClosedLinesTheorem == Spec => ClosedLinesStay
<1>1. ASSUME IInv, [Next]_vars
      PROVE  [ /\ ClosedLines \subseteq ClosedLines'
               /\ \A i \in ClosedLines : file'[i].rec = file[i].rec ]_file
  <2>1. CASE UNCHANGED file
    BY <2>1
  <2>2. ASSUME NEW p \in Processes, NEW n \in 1..Parts, Write(p, n)
        PROVE  /\ ClosedLines \subseteq ClosedLines'
               /\ \A i \in ClosedLines : file'[i].rec = file[i].rec
    <3>1. /\ Writing(p) /\ proc[p].written + n <= Parts
          /\ file' = file \o Cells(proc[p].id, proc[p].written, n)
      <4>1. proc[p].written \in 0..2 /\ n \in 1..3 /\ Parts = 3
        BY <1>1 DEF IInv, TypeOK, Process, Parts
      <4> QED
        BY <2>2, <4>1 DEF Write, Writing
    <3>2. /\ file' \in Seq(Cell) /\ Len(file') = Len(file) + n
          /\ \A i \in 1..Len(file) : file'[i] = file[i]
      BY <1>1, <3>1, WriteCells DEF IInv
    <3>3. /\ Len(file) \in Nat /\ DOMAIN file = 1..Len(file)
          /\ DOMAIN file' = 1..(Len(file) + n) /\ n \in 1..3
      BY <1>1, <3>2 DEF IInv, TypeOK, Parts
    <3>4. ASSUME NEW i \in ClosedLines
          PROVE  i \in ClosedLines' /\ file'[i].rec = file[i].rec
      <4>1. i \in 1..Len(file) /\ i + 1 < Len(file) /\ Parses(i)
        BY <3>3 DEF ClosedLines
      <4>2. /\ file'[i] = file[i] /\ file'[i + 1] = file[i + 1]
            /\ i + 2 \in 1..Len(file) /\ file'[i + 2] = file[i + 2]
            /\ i # 1 => file'[i - 1] = file[i - 1]
        BY <3>2, <3>3, <4>1
      <4> /\ i \in Nat /\ (i + 1) + 1 = i + 2 /\ i + 1 # Len(file)
          /\ i \in 1..Len(file') /\ i < Len(file') /\ i + 1 < Len(file')
        <5>1. /\ Len(file) \in Nat /\ Len(file') = Len(file) + n /\ n \in 1..3
              /\ i \in 1..Len(file) /\ i + 1 < Len(file)
          BY <3>2, <3>3, <4>1
        <5>2. \A l, k : l \in Nat /\ k = l + n /\ i \in 1..l /\ i + 1 < l
                => /\ i \in Nat /\ (i + 1) + 1 = i + 2 /\ i + 1 # l
                   /\ i \in 1..k /\ i < k /\ i + 1 < k
          BY <5>1
        <5> QED
          BY <5>1, <5>2
      <4>3. IsNewline(file[i + 2])
        <5>1. i + 1 = Len(file) \/ IsNewline(file[(i + 1) + 1])
          BY <4>1 DEF Parses, Closes
        <5> QED
          BY <5>1
      <4>4. Parses(i)'
        <5>1. Opens(i)'
          <6>1. i = 1 \/ IsNewline(file[i - 1])
            BY <4>1 DEF Parses, Opens
          <6>2. i = 1 \/ IsNewline(file'[i - 1])
            BY <4>2, <6>1
          <6> QED
            BY <6>2 DEF Opens, IsNewline
        <5>2. Closes(i + 1)'
          <6>1. IsNewline(file'[(i + 1) + 1])
            BY <4>2, <4>3
          <6> QED
            BY <6>1 DEF Closes, IsNewline
        <5>3. /\ i < Len(file') /\ file'[i].part = 1
              /\ file'[i + 1] = [rec |-> file'[i].rec, part |-> 2]
          BY <4>1, <4>2 DEF Parses
        <5> QED
          BY <5>1, <5>2, <5>3 DEF Parses
      <4>5. i \in DOMAIN file'
        BY <3>2, <3>3
      <4>6. i \in ClosedLines'
        BY <4>4, <4>5 DEF ClosedLines
      <4> QED
        BY <4>2, <4>6
    <3> QED
      BY <3>4
  <2> QED
    BY <1>1, <2>1, <2>2
    DEF Next, vars, Begin, Judge, Finish, Leave, AppendFails, Die
<1> QED
  BY <1>1, Invariance, PTL DEF Spec, ClosedLinesStay

(* A record written in one piece is lost to the reader only behind the     *)
(* text of a broken one: every cell is in the file once, so what stands    *)
(* before it and is no newline belongs to another record, of which it is   *)
(* not followed by the rest.                                               *)
THEOREM LossTheorem == Spec => []LostOnlyBehindABreak
<1>1. ASSUME IInv PROVE LostOnlyBehindABreak
  <2> SUFFICES ASSUME NEW i \in DOMAIN file, file[i].part = 1, file[i].rec \in Whole,
                      file[i].rec \notin Readable
               PROVE  i > 1 /\ file[i - 1].rec # file[i].rec /\ file[i - 1].rec \notin Whole
    BY DEF LostOnlyBehindABreak
  <2>1. /\ Len(file) \in Nat /\ DOMAIN file = 1..Len(file) /\ Parts = 3
        /\ \A j \in DOMAIN file :
             /\ file[j] = [rec |-> file[j].rec, part |-> file[j].part]
             /\ file[j].part \in 1..3
        /\ \A j, k \in DOMAIN file : file[j] = file[k] => j = k
    <3>1. file \in Seq(Cell) /\ Parts = 3
      BY <1>1 DEF IInv, TypeOK, Parts
    <3>2. Len(file) \in Nat /\ DOMAIN file = 1..Len(file)
      BY <3>1
    <3>3. ASSUME NEW j \in DOMAIN file
          PROVE  /\ file[j] = [rec |-> file[j].rec, part |-> file[j].part]
                 /\ file[j].part \in 1..3
      <4>1. file[j] \in Cell
        BY <3>1
      <4> QED
        BY <3>1, <4>1 DEF Cell
    <3>4. \A j, k \in DOMAIN file : file[j] = file[k] => j = k
      BY <1>1 DEF IInv, Placement
    <3> QED
      BY <3>1, <3>2, <3>3, <3>4
  <2>2. /\ i + 2 \in DOMAIN file
        /\ file[i + 1] = [rec |-> file[i].rec, part |-> 2]
        /\ file[i + 2] = [rec |-> file[i].rec, part |-> 3]
    <3>1. PICK j \in DOMAIN file : InOnePiece(j) /\ file[j].rec = file[i].rec
      BY DEF Whole
    <3>2. file[j] = [rec |-> file[i].rec, part |-> 1]
      BY <2>1, <3>1 DEF InOnePiece
    <3>3. i = j
      BY <2>1, <3>2
    <3> QED
      BY <2>1, <3>1, <3>3 DEF InOnePiece
  <2>3. ~Opens(i)
    BY <2>1, <2>2 DEF Readable, Parses, Closes, IsNewline
  <2>4. i > 1 /\ i - 1 \in DOMAIN file /\ file[i - 1].part \in 1..2
    BY <2>1, <2>3 DEF Opens, IsNewline
  <2>5. file[i - 1].rec # file[i].rec
    <3> SUFFICES ASSUME file[i - 1].rec = file[i].rec PROVE FALSE
      OBVIOUS
    <3>1. file[i - 1] = file[i] \/ file[i - 1] = file[i + 1]
      BY <2>1, <2>2, <2>4
    <3> QED
      BY <2>1, <2>2, <2>4, <3>1
  <2>6. file[i - 1].rec \notin Whole
    <3> SUFFICES ASSUME file[i - 1].rec \in Whole PROVE FALSE
      OBVIOUS
    <3>1. PICK j \in DOMAIN file : InOnePiece(j) /\ file[j].rec = file[i - 1].rec
      BY DEF Whole
    <3>2. /\ j + 2 \in DOMAIN file
          /\ file[j] = [rec |-> file[i - 1].rec, part |-> 1]
          /\ file[j + 1] = [rec |-> file[i - 1].rec, part |-> 2]
          /\ file[j + 2] = [rec |-> file[i - 1].rec, part |-> 3]
      BY <2>1, <3>1 DEF InOnePiece
    <3>3. i - 1 = j \/ i - 1 = j + 1
      BY <2>1, <2>4, <3>2
    <3>4. file[i].rec = file[i - 1].rec
      BY <2>1, <3>2, <3>3
    <3> QED
      BY <2>5, <3>4
  <2> QED
    BY <2>4, <2>5, <2>6
<1> QED
  BY <1>1, Invariance, PTL

(* A summary counts lines of records, each once: never more than were run. *)
(* When every record in the file is whole, the lines that parse are those  *)
(* of the whole records, since none stands behind a broken one.            *)
THEOREM SummaryTheorem == Spec => []SummaryTruthful
<1>1. ASSUME TypeOK, LostOnlyBehindABreak PROVE SummaryTruthful
  <2>1. /\ Len(issued) \in Nat /\ DOMAIN issued = 1..Len(issued)
        /\ Len(file) \in Nat /\ DOMAIN file = 1..Len(file)
        /\ \A i \in DOMAIN file : file[i].rec \in DOMAIN issued
        /\ Parts = 3
    BY <1>1 DEF TypeOK, Parts
  <2>2. Readable \subseteq DOMAIN issued
    BY <2>1 DEF Readable
  <2>3. ASSUME \A i \in DOMAIN file : file[i].rec \in Whole
        PROVE  Readable = Whole
    <3>1. Readable \subseteq Whole
      BY <2>3 DEF Readable
    <3>2. ASSUME NEW r \in Whole PROVE r \in Readable
      <4>1. PICK i \in DOMAIN file : InOnePiece(i) /\ file[i].rec = r
        BY <3>2 DEF Whole
      <4>2. file[i].part = 1
        <5>1. file[i + 1 - 1] = [rec |-> file[i].rec, part |-> 1]
          BY <2>1, <4>1 DEF InOnePiece
        <5>2. i + 1 - 1 = i
          BY <2>1
        <5> QED
          BY <5>1, <5>2
      <4>3. i > 1 => i - 1 \in DOMAIN file
        BY <2>1
      <4> QED
        BY <1>1, <2>3, <3>2, <4>1, <4>2, <4>3 DEF LostOnlyBehindABreak
    <3> QED
      BY <3>1, <3>2
  <2>4. ASSUME NEW m \in Modules, NEW since \in DOMAIN issued
        PROVE  /\ Calls(Readable, m, since) <= Cardinality(Runs(m, since))
               /\ (\A i \in DOMAIN file : file[i].rec \in Whole) =>
                     Calls(Readable, m, since) = Cardinality(Runs(m, since) \cap Whole)
    <3>1. IsFiniteSet(Runs(m, since))
      <4>1. since \in Int /\ Len(issued) \in Int
        BY <2>1
      <4>2. IsFiniteSet(since..Len(issued))
        BY <4>1, FS_Interval
      <4>3. Runs(m, since) \in SUBSET (since..Len(issued))
        BY DEF Runs
      <4> QED
        BY <4>2, <4>3, FS_Subset
    <3>2. Counted(Readable, m, since) = Runs(m, since) \cap Readable
      BY <2>1, <2>2 DEF Counted, Runs
    <3>3. Cardinality(Counted(Readable, m, since)) <= Cardinality(Runs(m, since))
      <4>1. Counted(Readable, m, since) \in SUBSET Runs(m, since)
        BY <3>2
      <4> QED
        BY <3>1, <4>1, FS_Subset
    <3> QED
      BY <2>3, <3>2, <3>3 DEF Calls
  <2> QED
    BY <2>4 DEF SummaryTruthful
<1> QED
  BY <1>1, TypeCorrect, LossTheorem, PTL

-----------------------------------------------------------------------------
(* Decisions beside runs.                                                  *)

(* A process hands over one record after the other: when it issues the     *)
(* next, it is through with the one before, for good.                      *)
Sequence ==
  \A d, r \in DOMAIN issued :
    d < r /\ issued[d].by = issued[r].by =>
      /\ ~BeingWritten(d)
      /\ \A i, j \in DOMAIN file : file[i].rec = d /\ file[j].rec = r => i < j

(* A record that allows a call of process p.                               *)
Allows(record, call, p) ==
  /\ record.kind = "decision" /\ record.result = "allow"
  /\ record.call = call /\ record.by = p

(* A grant that took a decision is on record from the moment it is given.  *)
GrantsOnRecord ==
  \A p \in Processes : proc[p].granted /\ governed[proc[p].call] =>
    \E d \in DOMAIN issued : Allows(issued[d], proc[p].call, p)

(* So is, before it, the decision behind a run that succeeded.             *)
RunsAllowed ==
  \A r \in DOMAIN issued :
    issued[r].kind = "run" /\ issued[r].result = "success" /\ governed[issued[r].call] =>
      \E d \in 1..(r - 1) : Allows(issued[d], issued[r].call, issued[r].by)

Beside ==
  /\ Sequence
  /\ \A p \in Processes : proc[p].pc = "idle" => ~proc[p].granted
  /\ ~SwitchedOff(setting.enabled) => GrantsOnRecord /\ RunsAllowed

(* Unless a word for no switches the records off, an allowing decision is  *)
(* recorded, whatever include_denied says.                                 *)
LEMMA AllowingIsRecorded ==
  ASSUME ~SwitchedOff(setting.enabled)
  PROVE  Recorded(TRUE)
BY DEF SwitchedOff, Recorded, AuditFlag, AsBool

(* A step that leaves the records and the file alone, and after which      *)
(* nobody writes who did not write before.                                 *)
LEMMA SequenceQuiet ==
  ASSUME Sequence, UNCHANGED <<file, issued>>,
         \A r : BeingWritten(r)' => BeingWritten(r)
  PROVE  Sequence'
BY DEF Sequence

(* A step of p that leaves the records alone: a grant outlives it only     *)
(* within the call it was given for.                                       *)
LEMMA GrantsQuiet ==
  ASSUME NEW p \in Processes, NEW v, UNCHANGED <<issued, setting, governed>>,
         proc \in [Processes -> Process], proc' = [proc EXCEPT ![p] = v],
         Beside, v.pc = "idle" => ~v.granted,
         v.granted /\ governed[v.call] /\ ~SwitchedOff(setting.enabled) =>
           \E d \in DOMAIN issued : Allows(issued[d], v.call, p)
  PROVE  /\ \A q \in Processes : proc'[q].pc = "idle" => ~proc'[q].granted
         /\ ~SwitchedOff(setting'.enabled) => GrantsOnRecord' /\ RunsAllowed'
<1>1. proc'[p] = v /\ \A q \in Processes : q # p => proc'[q] = proc[q]
  OBVIOUS
<1>2. \A q \in Processes : proc'[q].pc = "idle" => ~proc'[q].granted
  BY <1>1 DEF Beside
<1>3. ASSUME ~SwitchedOff(setting.enabled) PROVE GrantsOnRecord' /\ RunsAllowed'
  <2>1. GrantsOnRecord'
    BY <1>1, <1>3 DEF Beside, GrantsOnRecord
  <2>2. RunsAllowed'
    BY <1>3 DEF Beside, RunsAllowed
  <2> QED
    BY <2>1, <2>2
<1> QED
  BY <1>2, <1>3

(* A step of p after which it does not write, and that issues nothing.     *)
LEMMA BesideQuiet ==
  ASSUME NEW p \in Processes, NEW v, UNCHANGED <<file, issued, setting, governed>>,
         proc \in [Processes -> Process], proc' = [proc EXCEPT ![p] = v],
         Beside, v.pc # "write", v.pc = "idle" => ~v.granted,
         v.granted /\ governed[v.call] /\ ~SwitchedOff(setting.enabled) =>
           \E d \in DOMAIN issued : Allows(issued[d], v.call, p)
  PROVE  Beside'
<1>1. \A r : BeingWritten(r)' => BeingWritten(r)
  BY DEF BeingWritten
<1>2. Sequence'
  BY <1>1, SequenceQuiet DEF Beside
<1> QED
  BY <1>2, GrantsQuiet DEF Beside

(* A new record of p: whatever p has issued before is written or lost, and *)
(* no cell of the new one is there yet.                                    *)
LEMMA BesideIssue ==
  ASSUME IInv, Beside, NEW p \in Processes, NEW kind \in {"decision", "run"},
         NEW result \in {"allow", "deny", "success", "error"},
         NEW due \in 0..MaxJudgements, NEW granted \in BOOLEAN,
         NEW next \in {"idle", "call"},
         proc[p].pc = "call",
         Issue(p, kind, result, due, granted, next), UNCHANGED <<file, setting, governed>>,
         kind = "run" => granted = proc[p].granted,
         kind = "run" /\ result = "success" => granted,
         kind = "decision" /\ granted => result = "allow"
  PROVE  Beside'
<1> DEFINE new == [kind |-> kind, call |-> proc[p].call, module |-> proc[p].module,
                   result |-> result, by |-> p]
<1>1. new \in Record /\ issued \in Seq(Record)
  BY DEF IInv, TypeOK, Activity, Record
<1>2. issued' = Append(issued, new)
  BY DEF Issue
<1>3. /\ new.kind = kind /\ new.result = result
      /\ new.call = proc[p].call /\ new.by = p
  OBVIOUS
<1> HIDE DEF new
<1>4. /\ Len(issued) \in Nat
      /\ \A i \in 1..Len(issued) : issued'[i] = issued[i]
      /\ issued'[Len(issued) + 1] = new
      /\ DOMAIN issued = 1..Len(issued) /\ DOMAIN issued' = 1..(Len(issued) + 1)
  BY <1>1, <1>2, AppendProperties, LenProperties
<1>5. /\ \A q \in Processes : q # p => proc'[q] = proc[q]
      /\ proc'[p] = [proc[p] EXCEPT !.pc = "write", !.next = next, !.due = due, !.granted = granted,
                                    !.id = Len(issued) + 1, !.written = 0]
      /\ proc[p] \in Process
  BY DEF Issue, IInv, TypeOK
<1>6. /\ proc'[p].pc = "write" /\ proc'[p].granted = granted
      /\ proc'[p].call = proc[p].call /\ proc'[p].id = Len(issued) + 1
  BY <1>5 DEF Process
<1>7. Sequence'
  <2> SUFFICES ASSUME NEW d \in DOMAIN issued', NEW r \in DOMAIN issued',
                      d < r, issued'[d].by = issued'[r].by
               PROVE  /\ ~BeingWritten(d)'
                      /\ \A i, j \in DOMAIN file :
                           file[i].rec = d /\ file[j].rec = r => i < j
    BY DEF Sequence
  <2>1. d \in DOMAIN issued /\ issued'[d] = issued[d] /\ d # Len(issued) + 1
    BY <1>4
  <2>2. BeingWritten(d)' => BeingWritten(d)
    BY <1>5, <1>6, <2>1 DEF BeingWritten
  <2>3. CASE r = Len(issued) + 1
    <3>1. issued[d].by = p
      BY <1>3, <1>4, <2>1, <2>3
    <3>2. ~BeingWritten(d)
      BY <3>1 DEF BeingWritten, IInv, Ownership, Writing
    <3>3. \A j \in DOMAIN file : file[j].rec # r
      BY <1>4, <2>3 DEF IInv, TypeOK
    <3> QED
      BY <2>2, <3>2, <3>3
  <2>4. CASE r # Len(issued) + 1
    <3>1. r \in DOMAIN issued /\ issued'[r] = issued[r]
      BY <1>4, <2>4
    <3> QED
      BY <2>1, <2>2, <3>1 DEF Beside, Sequence
  <2> QED
    BY <2>3, <2>4
<1>8. \A q \in Processes : proc'[q].pc = "idle" => ~proc'[q].granted
  BY <1>5, <1>6 DEF Beside
<1>9. ASSUME ~SwitchedOff(setting.enabled) PROVE GrantsOnRecord' /\ RunsAllowed'
  <2>1. GrantsOnRecord /\ RunsAllowed
    BY <1>9 DEF Beside
  <2>2. ASSUME NEW q \in Processes, proc'[q].granted, governed'[proc'[q].call]
        PROVE  \E d \in DOMAIN issued' : Allows(issued'[d], proc'[q].call, q)
    <3>1. CASE q = p /\ kind = "decision"
      <4>1. Allows(issued'[Len(issued) + 1], proc'[p].call, p)
        BY <1>3, <1>4, <1>6, <2>2, <3>1 DEF Allows
      <4> QED
        BY <1>4, <3>1, <4>1
    <3>2. CASE q # p \/ kind = "run"
      <4>1. /\ proc[q].granted /\ proc'[q].call = proc[q].call
            /\ governed[proc[q].call]
        BY <1>5, <1>6, <2>2, <3>2
      <4>2. PICK d \in DOMAIN issued : Allows(issued[d], proc[q].call, q)
        BY <2>1, <4>1 DEF GrantsOnRecord
      <4>3. Allows(issued'[d], proc[q].call, q) /\ d \in DOMAIN issued'
        BY <1>4, <4>2
      <4> QED
        BY <4>1, <4>3
    <3> QED
      BY <3>1, <3>2
  <2>3. ASSUME NEW r \in DOMAIN issued', issued'[r].kind = "run",
               issued'[r].result = "success", governed'[issued'[r].call]
        PROVE  \E d \in 1..(r - 1) : Allows(issued'[d], issued'[r].call, issued'[r].by)
    <3>1. CASE r = Len(issued) + 1
      <4>1. /\ kind = "run" /\ result = "success" /\ proc[p].granted
            /\ governed[proc[p].call] /\ issued'[r].call = proc[p].call /\ issued'[r].by = p
        BY <1>3, <1>4, <2>3, <3>1
      <4>2. PICK d \in DOMAIN issued : Allows(issued[d], proc[p].call, p)
        BY <2>1, <4>1 DEF GrantsOnRecord
      <4>3. d \in 1..(r - 1)
        BY <1>4, <3>1
      <4> QED
        BY <1>4, <4>1, <4>2, <4>3
    <3>2. CASE r # Len(issued) + 1
      <4>1. r \in DOMAIN issued /\ issued'[r] = issued[r]
        BY <1>4, <3>2
      <4>2. PICK d \in 1..(r - 1) : Allows(issued[d], issued[r].call, issued[r].by)
        BY <2>1, <2>3, <4>1 DEF RunsAllowed
      <4>3. issued'[d] = issued[d]
        BY <1>4, <4>1
      <4> QED
        BY <4>1, <4>2, <4>3
    <3> QED
      BY <3>1, <3>2
  <2> QED
    BY <2>2, <2>3 DEF GrantsOnRecord, RunsAllowed
<1> QED
  BY <1>7, <1>8, <1>9 DEF Beside

(* What append returns to keeps its grant, or is at rest.                  *)
LEMMA ResumedGrant ==
  ASSUME TypeOK, NEW p \in Processes
  PROVE  /\ Resumed(proc[p]).pc = "idle" => ~Resumed(proc[p]).granted
         /\ Resumed(proc[p]).granted =>
              proc[p].granted /\ Resumed(proc[p]).call = proc[p].call
<1>1. proc[p] \in Process
  BY DEF TypeOK
<1> QED
  BY <1>1 DEF Resumed, AtRest, Process

(* A write of p puts its cells behind all others, so behind those of the   *)
(* records p issued before; of those it issued later there are none.       *)
LEMMA BesideWrite ==
  ASSUME IInv, Beside, NEW p \in Processes, NEW n \in 1..Parts, Write(p, n)
  PROVE  Beside'
<1> DEFINE id == proc[p].id
<1>1. /\ proc[p] \in Process /\ proc[p].written \in 0..2 /\ n \in 1..3 /\ Parts = 3
      /\ proc \in [Processes -> Process]
  BY DEF IInv, TypeOK, Process, Parts
<1>2. /\ Writing(p) /\ proc[p].written + n <= Parts
      /\ file' = file \o Cells(id, proc[p].written, n)
      /\ UNCHANGED <<issued, setting, governed>>
  BY <1>1 DEF Write, Writing
<1>3. /\ file' \in Seq(Cell) /\ Len(file') = Len(file) + n
      /\ \A i \in 1..Len(file) : file'[i] = file[i]
      /\ \A i \in (Len(file) + 1)..(Len(file) + n) : file'[i].rec = id
      /\ Len(file) \in Nat /\ DOMAIN file = 1..Len(file)
  <2>1. Len(file) \in Nat /\ DOMAIN file = 1..Len(file)
    BY DEF IInv, TypeOK
  <2>2. /\ file' \in Seq(Cell) /\ Len(file') = Len(file) + n
        /\ \A i \in 1..Len(file) : file'[i] = file[i]
        /\ \A i \in (Len(file) + 1)..(Len(file) + n) :
             file'[i] = [rec |-> id, part |-> proc[p].written + (i - Len(file))]
    BY <1>2, WriteCells DEF IInv
  <2>3. ASSUME NEW i \in (Len(file) + 1)..(Len(file) + n) PROVE file'[i].rec = id
    <3>1. file'[i] = [rec |-> id, part |-> proc[p].written + (i - Len(file))]
      BY <2>2
    <3> QED
      BY <3>1
  <2> QED
    BY <2>1, <2>2, <2>3
<1>4. \A r : BeingWritten(r)' => BeingWritten(r)
  <2>1. CASE Resume(p)
    <3>1. Settled(Resumed(proc[p])) /\ proc' = [proc EXCEPT ![p] = Resumed(proc[p])]
      BY <1>2, <2>1, ResumedSettled DEF IInv, Resume, Resumed
    <3>2. Resumed(proc[p]).pc # "write"
      BY <3>1 DEF Settled
    <3> QED
      BY <1>1, <3>1, <3>2 DEF BeingWritten
  <2>2. CASE proc' = [proc EXCEPT ![p].written = proc[p].written + n]
    <3>1. /\ \A q \in Processes : q # p => proc'[q] = proc[q]
          /\ proc'[p].pc = proc[p].pc /\ proc'[p].id = proc[p].id
      BY <1>1, <2>2 DEF Process
    <3> QED
      BY <3>1 DEF BeingWritten
  <2> QED
    BY <2>1, <2>2 DEF Write
<1>5. Sequence'
  <2> SUFFICES ASSUME NEW d \in DOMAIN issued, NEW r \in DOMAIN issued,
                      d < r, issued[d].by = issued[r].by
               PROVE  /\ ~BeingWritten(d)'
                      /\ \A i, j \in DOMAIN file' :
                           file'[i].rec = d /\ file'[j].rec = r => i < j
    BY <1>2 DEF Sequence
  <2>1. /\ ~BeingWritten(d)
        /\ \A i, j \in DOMAIN file : file[i].rec = d /\ file[j].rec = r => i < j
    BY DEF Beside, Sequence
  <2>2. d # id
    BY <1>2, <2>1 DEF BeingWritten, Writing
  <2>3. DOMAIN file' = 1..(Len(file) + n)
    BY <1>3
  <2>4. ASSUME NEW i \in DOMAIN file', NEW j \in DOMAIN file',
               file'[i].rec = d, file'[j].rec = r
        PROVE  i < j
    <3>1. i \in 1..Len(file) /\ file[i].rec = d
      BY <1>1, <1>3, <2>2, <2>3, <2>4
    <3>2. CASE j \in 1..Len(file)
      BY <1>3, <2>1, <2>4, <3>1, <3>2
    <3>3. CASE j \notin 1..Len(file)
      BY <1>1, <1>3, <2>3, <3>1, <3>3
    <3> QED
      BY <3>2, <3>3
  <2> QED
    BY <1>4, <2>1, <2>4
<1>6. PICK v : /\ proc' = [proc EXCEPT ![p] = v]
               /\ v.pc = "idle" => ~v.granted
               /\ v.granted => proc[p].granted /\ v.call = proc[p].call
  <2>1. CASE Resume(p)
    <3>1. proc' = [proc EXCEPT ![p] = Resumed(proc[p])]
      BY <1>2, <2>1 DEF Resume, Resumed
    <3> QED
      BY <3>1, ResumedGrant DEF IInv
  <2>2. CASE proc' = [proc EXCEPT ![p].written = proc[p].written + n]
    <3>1. /\ proc' = [proc EXCEPT ![p] = proc'[p]]
          /\ proc'[p].pc = proc[p].pc /\ proc'[p].granted = proc[p].granted
          /\ proc'[p].call = proc[p].call
      BY <1>1, <2>2 DEF Process
    <3> QED
      BY <1>2, <3>1 DEF Writing
  <2> QED
    BY <2>1, <2>2 DEF Write
<1>7. v.granted /\ governed[v.call] /\ ~SwitchedOff(setting.enabled) =>
        \E d \in DOMAIN issued : Allows(issued[d], v.call, p)
  BY <1>6 DEF Beside, GrantsOnRecord
<1> QED
  BY <1>1, <1>2, <1>5, <1>6, <1>7, GrantsQuiet DEF Beside

LEMMA NextBeside == IInv /\ Beside /\ [Next]_vars => Beside'
<1> SUFFICES ASSUME IInv, Beside, [Next]_vars PROVE Beside'
  OBVIOUS
<1>1. ASSUME NEW p \in Processes, NEW m \in Modules, Begin(p, m) PROVE Beside'
  <2>1. proc[p] \in Process /\ proc \in [Processes -> Process] /\ proc[p].pc = "idle"
    BY <1>1 DEF IInv, TypeOK, Begin
  <2>2. /\ proc' = [proc EXCEPT ![p] = proc'[p]]
        /\ proc'[p].pc = "call" /\ proc'[p].call = calls + 1
        /\ proc'[p].granted = ~governed[calls + 1]
    BY <1>1, <2>1 DEF Begin, Process
  <2>3. ~(proc'[p].granted /\ governed[proc'[p].call])
    BY <2>2
  <2>4. UNCHANGED <<file, issued, setting, governed>>
    BY <1>1 DEF Begin
  <2> QED
    BY <2>1, <2>2, <2>3, <2>4, BesideQuiet
<1>2. ASSUME NEW p \in Processes, NEW allowed \in BOOLEAN, Judge(p, allowed)
      PROVE  Beside'
  <2> DEFINE due == IF allowed THEN proc[p].due - 1 ELSE 0
  <2>1. proc[p] \in Process /\ proc \in [Processes -> Process] /\ proc[p].pc = "call"
    BY <1>2 DEF IInv, TypeOK, Judge
  <2>4. due \in 0..MaxJudgements
    BY <1>2, <2>1 DEF Judge, Process, MaxJudgements
  <2>2. CASE Issue(p, "decision", IF allowed THEN "allow" ELSE "deny", due, allowed, "call")
    <3>1. /\ (IF allowed THEN "allow" ELSE "deny") \in {"allow", "deny", "success", "error"}
          /\ allowed => (IF allowed THEN "allow" ELSE "deny") = "allow"
      OBVIOUS
    <3> QED
      BY <1>2, <2>1, <2>2, <2>4, <3>1, BesideIssue DEF Judge
  <2>3. CASE /\ ~Recorded(allowed)
             /\ proc' = [proc EXCEPT ![p].due = due, ![p].granted = allowed]
             /\ UNCHANGED issued
    <3>1. /\ proc' = [proc EXCEPT ![p] = proc'[p]]
          /\ proc'[p].pc = "call" /\ proc'[p].granted = allowed
      BY <2>1, <2>3 DEF Process
    <3>2. allowed => SwitchedOff(setting.enabled)
      BY <2>3, AllowingIsRecorded
    <3> QED
      BY <1>2, <2>1, <2>3, <3>1, <3>2, BesideQuiet DEF Judge
  <2> QED
    BY <1>2, <2>2, <2>3 DEF Judge
<1>3. ASSUME NEW p \in Processes, NEW status \in {"success", "error"}, Finish(p, status)
      PROVE  Beside'
  <2>1. proc[p].granted \in BOOLEAN /\ proc[p].due \in 0..MaxJudgements
    <3>1. proc[p] \in Process
      BY DEF IInv, TypeOK
    <3> QED
      BY <3>1 DEF Process
  <2> QED
    BY <1>3, <2>1, BesideIssue DEF Finish
<1>4. ASSUME NEW p \in Processes, NEW n \in 1..Parts, Write(p, n) PROVE Beside'
  BY <1>4, BesideWrite
<1>5. ASSUME NEW p \in Processes, AppendFails(p) PROVE Beside'
  <2>1. /\ Settled(Resumed(proc[p])) /\ proc \in [Processes -> Process]
        /\ proc' = [proc EXCEPT ![p] = Resumed(proc[p])]
        /\ UNCHANGED <<file, issued, setting, governed>>
    BY <1>5, ResumedSettled DEF IInv, TypeOK, AppendFails, Writing, Resume, Resumed
  <2>2. Resumed(proc[p]).pc # "write"
    BY <2>1 DEF Settled
  <2>3. /\ Resumed(proc[p]).pc = "idle" => ~Resumed(proc[p]).granted
        /\ Resumed(proc[p]).granted /\ governed[Resumed(proc[p]).call]
             /\ ~SwitchedOff(setting.enabled) =>
             \E d \in DOMAIN issued : Allows(issued[d], Resumed(proc[p]).call, p)
    BY ResumedGrant DEF IInv, Beside, GrantsOnRecord
  <2> QED
    BY <2>1, <2>2, <2>3, BesideQuiet
<1>8. ASSUME NEW p \in Processes, Leave(p) PROVE Beside'
  <2>1. AtRest.pc = "idle" /\ ~AtRest.granted
    BY DEF AtRest
  <2> QED
    BY <1>8, <2>1, BesideQuiet DEF IInv, TypeOK, Leave
<1>6. ASSUME NEW p \in Processes, Die(p) PROVE Beside'
  <2>1. AtRest.pc = "idle" /\ ~AtRest.granted
    BY DEF AtRest
  <2> QED
    BY <1>6, <2>1, BesideQuiet DEF IInv, TypeOK, Die
<1>7. CASE UNCHANGED vars
  BY <1>7 DEF vars, Beside, Sequence, GrantsOnRecord, RunsAllowed, BeingWritten
<1> QED
  BY <1>1, <1>2, <1>3, <1>4, <1>5, <1>6, <1>7, <1>8 DEF Next

(* The decisions land beside the calls they governed (audit.ts): a process *)
(* is through with the record of its decision before it issues that of the *)
(* run, so no order of the others' writes can swap the two in the file.    *)
THEOREM DecisionTheorem == Spec => []DecisionBesideRun
<1>1. Init => Beside
  BY DEF Init, Beside, Sequence, GrantsOnRecord, RunsAllowed, AtRest
<1>2. Spec => []Beside
  BY <1>1, NextBeside, Invariance, PTL DEF Spec
<1>3. ASSUME Beside, TypeOK PROVE DecisionBesideRun
  <2> SUFFICES ASSUME ~SwitchedOff(setting.enabled), NEW r \in DOMAIN issued,
                      issued[r].kind = "run", issued[r].result = "success",
                      governed[issued[r].call]
               PROVE  \E d \in 1..(r - 1) :
                        /\ issued[d].kind = "decision" /\ issued[d].result = "allow"
                        /\ issued[d].call = issued[r].call
                        /\ Complete(d) /\ Complete(r) => StartOf(d) < StartOf(r)
    BY DEF DecisionBesideRun
  <2>1. PICK d \in 1..(r - 1) : Allows(issued[d], issued[r].call, issued[r].by)
    BY <1>3 DEF Beside, RunsAllowed
  <2>2. d \in DOMAIN issued /\ d < r
    BY <1>3 DEF TypeOK
  <2>3. ASSUME Complete(d), Complete(r) PROVE StartOf(d) < StartOf(r)
    <3>1. /\ StartOf(d) \in DOMAIN file /\ file[StartOf(d)] = [rec |-> d, part |-> 1]
          /\ StartOf(r) \in DOMAIN file /\ file[StartOf(r)] = [rec |-> r, part |-> 1]
      BY <2>3 DEF Complete, StartOf, Parts
    <3> QED
      BY <1>3, <2>1, <2>2, <3>1 DEF Beside, Sequence, Allows
  <2> QED
    BY <2>1, <2>3 DEF Allows
<1> QED
  BY <1>2, <1>3, TypeCorrect, PTL

-----------------------------------------------------------------------------
(* The records of one call are an AuditTrail.                              *)

Active(p) == proc[p].pc # "idle"

(* A call has one process, and its number is not given out again.          *)
OneProcess ==
  /\ \A p \in Processes : Active(p) => proc[p].call <= calls
  /\ \A p, q \in Processes :
       Active(p) /\ Active(q) /\ proc[p].call = proc[q].call => p = q
  /\ \A r \in DOMAIN issued : issued[r].call <= calls

(* A run is recorded once; then its process only writes the record.        *)
RunIsLast ==
  /\ \A r, s \in DOMAIN issued :
       /\ issued[r].kind = "run" /\ issued[s].kind = "run"
       /\ issued[r].call = issued[s].call
       => r = s
  /\ \A p \in Processes, r \in DOMAIN issued :
       Active(p) /\ issued[r].kind = "run" /\ issued[r].call = proc[p].call =>
         proc[p].pc = "write" /\ proc[p].next = "idle"

(* A call asks the ACL only if it is governed, and no more once denied.    *)
DenialIsLast ==
  /\ \A p \in Processes : Active(p) /\ proc[p].due > 0 => governed[proc[p].call]
  /\ \A p \in Processes, r \in DOMAIN issued :
       Active(p) /\ issued[r].call = proc[p].call /\ issued[r].result = "deny" =>
         proc[p].due = 0 /\ ~proc[p].granted

Trails == OneProcess /\ RunIsLast /\ DenialIsLast

(* A step of p that issues nothing: p goes on with its call as it was,     *)
(* perhaps judged once more without a record, or is at rest.               *)
LEMMA TrailsQuiet ==
  ASSUME Trails, NEW p \in Processes, NEW v, UNCHANGED <<issued, calls, governed>>,
         proc \in [Processes -> Process], proc' = [proc EXCEPT ![p] = v],
         v.pc # "idle" =>
           /\ Active(p) /\ v.call = proc[p].call
           /\ proc[p].pc = "write" /\ proc[p].next = "idle" =>
                v.pc = "write" /\ v.next = "idle"
           /\ v.due > 0 => proc[p].due > 0
           /\ proc[p].due = 0 /\ ~proc[p].granted => v.due = 0 /\ ~v.granted
  PROVE  Trails'
<1>1. proc'[p] = v /\ \A q \in Processes : q # p => proc'[q] = proc[q]
  OBVIOUS
<1>2. \A q \in Processes : Active(q)' =>
        /\ Active(q) /\ proc'[q].call = proc[q].call
        /\ proc[q].pc = "write" /\ proc[q].next = "idle" =>
             proc'[q].pc = "write" /\ proc'[q].next = "idle"
        /\ proc'[q].due > 0 => proc[q].due > 0
        /\ proc[q].due = 0 /\ ~proc[q].granted => proc'[q].due = 0 /\ ~proc'[q].granted
  BY <1>1 DEF Active
<1>3. OneProcess'
  BY <1>2 DEF Trails, OneProcess
<1>4. RunIsLast'
  BY <1>2 DEF Trails, RunIsLast
<1>5. DenialIsLast'
  BY <1>2 DEF Trails, DenialIsLast
<1> QED
  BY <1>3, <1>4, <1>5 DEF Trails

(* A new call: nobody has its number yet, and there are no records of it.  *)
LEMMA TrailsBegin ==
  ASSUME IInv, Trails, NEW p \in Processes, NEW m \in Modules, Begin(p, m)
  PROVE  Trails'
<1>1. /\ proc[p] \in Process /\ proc \in [Processes -> Process]
      /\ calls \in Nat /\ calls' = calls + 1 /\ calls + 1 \in 1..MaxCalls
      /\ proc[p].pc = "idle" /\ UNCHANGED <<issued, governed>>
      /\ governed[calls + 1] \in BOOLEAN
  BY AuditAssumption DEF IInv, TypeOK, Begin
<1>2. /\ \A q \in Processes : q # p => proc'[q] = proc[q]
      /\ proc'[p].call = calls + 1 /\ proc'[p].pc = "call"
      /\ proc'[p].due = IF governed[calls + 1] THEN MaxJudgements ELSE 0
  BY <1>1 DEF Begin, Process
<1>3. /\ \A q \in Processes : proc[q] \in Process
      /\ \A r \in DOMAIN issued : issued[r].call \in Nat
  <2>1. \A r \in DOMAIN issued : issued[r] \in Record
    BY DEF IInv, TypeOK
  <2>2. \A r \in DOMAIN issued : issued[r].call \in 1..MaxCalls
    BY <2>1 DEF Record
  <2> QED
    BY <1>1, <2>2, AuditAssumption
<1>4. \A q \in Processes : q # p /\ Active(q)' =>
        Active(q) /\ proc'[q].call = proc[q].call /\ proc[q].call # calls + 1
  BY <1>1, <1>2, <1>3 DEF Active, Trails, OneProcess, Process
<1>5. \A r \in DOMAIN issued : issued[r].call # calls + 1
  BY <1>1, <1>3 DEF Trails, OneProcess
<1>6. OneProcess'
  <2>1. \A q \in Processes : Active(q)' => proc'[q].call <= calls'
    BY <1>1, <1>2, <1>3, <1>4 DEF Trails, OneProcess, Process
  <2>2. \A r \in DOMAIN issued' : issued'[r].call <= calls'
    BY <1>1, <1>3 DEF Trails, OneProcess
  <2>3. ASSUME NEW q \in Processes, NEW s \in Processes, Active(q)', Active(s)',
               proc'[q].call = proc'[s].call
        PROVE  q = s
    BY <1>2, <1>4, <2>3 DEF Trails, OneProcess
  <2> QED
    BY <2>1, <2>2, <2>3 DEF OneProcess
<1>7. RunIsLast'
  BY <1>1, <1>2, <1>4, <1>5 DEF Trails, RunIsLast
<1>8. DenialIsLast'
  <2>1. \A q \in Processes : Active(q)' /\ proc'[q].due > 0 => governed'[proc'[q].call]
    BY <1>1, <1>2, <1>4 DEF Trails, DenialIsLast
  <2>2. ASSUME NEW q \in Processes, NEW r \in DOMAIN issued', Active(q)',
               issued'[r].call = proc'[q].call, issued'[r].result = "deny"
        PROVE  proc'[q].due = 0 /\ ~proc'[q].granted
    <3>1. q # p
      BY <1>1, <1>2, <1>5, <2>2
    <3> QED
      BY <1>1, <1>2, <1>4, <2>2, <3>1 DEF Trails, DenialIsLast
  <2> QED
    BY <2>1, <2>2 DEF DenialIsLast
<1> QED
  BY <1>6, <1>7, <1>8 DEF Trails

(* What issuing a record does to the records.                              *)
LEMMA IssueRecords ==
  ASSUME IInv, NEW p \in Processes, NEW kind \in {"decision", "run"},
         NEW result \in {"allow", "deny", "success", "error"},
         NEW due, NEW granted, NEW next, proc[p].pc = "call",
         Issue(p, kind, result, due, granted, next)
  PROVE  /\ Len(issued) \in Nat
         /\ DOMAIN issued = 1..Len(issued) /\ DOMAIN issued' = 1..(Len(issued) + 1)
         /\ \A i \in 1..Len(issued) : issued'[i] = issued[i]
         /\ issued'[Len(issued) + 1].kind = kind
         /\ issued'[Len(issued) + 1].result = result
         /\ issued'[Len(issued) + 1].call = proc[p].call
         /\ \A q \in Processes : q # p => proc'[q] = proc[q]
         /\ proc'[p].pc = "write" /\ proc'[p].next = next
         /\ proc'[p].call = proc[p].call
         /\ proc'[p].due = due /\ proc'[p].granted = granted
<1> DEFINE new == [kind |-> kind, call |-> proc[p].call, module |-> proc[p].module,
                   result |-> result, by |-> p]
<1>1. new \in Record /\ issued \in Seq(Record)
  BY DEF IInv, TypeOK, Activity, Record
<1>2. issued' = Append(issued, new)
  BY DEF Issue
<1>3. new.kind = kind /\ new.result = result /\ new.call = proc[p].call
  OBVIOUS
<1> HIDE DEF new
<1>4. /\ Len(issued) \in Nat
      /\ \A i \in 1..Len(issued) : issued'[i] = issued[i]
      /\ issued'[Len(issued) + 1] = new
      /\ DOMAIN issued = 1..Len(issued) /\ DOMAIN issued' = 1..(Len(issued) + 1)
  BY <1>1, <1>2, AppendProperties, LenProperties
<1>5. /\ \A q \in Processes : q # p => proc'[q] = proc[q]
      /\ proc'[p] = [proc[p] EXCEPT !.pc = "write", !.next = next, !.due = due,
                                    !.granted = granted, !.id = Len(issued) + 1,
                                    !.written = 0]
      /\ proc[p] \in Process
  BY DEF Issue, IInv, TypeOK
<1>6. /\ proc'[p].pc = "write" /\ proc'[p].next = next
      /\ proc'[p].call = proc[p].call
      /\ proc'[p].due = due /\ proc'[p].granted = granted
  BY <1>5 DEF Process
<1> QED
  BY <1>3, <1>4, <1>5, <1>6

(* A new record: a run is the first and last of its call, a denial ends    *)
(* the judging.                                                            *)
LEMMA TrailsIssue ==
  ASSUME IInv, Trails, NEW p \in Processes, NEW kind \in {"decision", "run"},
         NEW result \in {"allow", "deny", "success", "error"},
         NEW due \in 0..MaxJudgements, NEW granted \in BOOLEAN,
         NEW next \in {"idle", "call"}, proc[p].pc = "call",
         Issue(p, kind, result, due, granted, next), UNCHANGED <<calls, governed>>,
         kind = "run" =>
           /\ next = "idle" /\ result # "deny"
           /\ due = proc[p].due /\ granted = proc[p].granted,
         kind = "decision" => proc[p].due > 0,
         result = "deny" => due = 0 /\ ~granted
  PROVE  Trails'
<1> DEFINE n == Len(issued) + 1
<1>1. /\ n \in Nat
      /\ DOMAIN issued' = DOMAIN issued \cup {n} /\ n \notin DOMAIN issued
      /\ \A i \in DOMAIN issued : issued'[i] = issued[i]
      /\ issued'[n].kind = kind /\ issued'[n].result = result
      /\ issued'[n].call = proc[p].call
  <2>1. /\ Len(issued) \in Nat
        /\ DOMAIN issued = 1..Len(issued) /\ DOMAIN issued' = 1..(Len(issued) + 1)
        /\ \A i \in 1..Len(issued) : issued'[i] = issued[i]
        /\ issued'[n].kind = kind /\ issued'[n].result = result
        /\ issued'[n].call = proc[p].call
    BY IssueRecords
  <2> QED
    BY <2>1
<1>2. /\ \A q \in Processes : q # p => proc'[q] = proc[q]
      /\ proc'[p].pc = "write" /\ proc'[p].next = next
      /\ proc'[p].call = proc[p].call
      /\ proc'[p].due = due /\ proc'[p].granted = granted
  BY IssueRecords
<1> HIDE DEF n
<1>3. Active(p) /\ \A q \in Processes : Active(q)' => Active(q) /\ proc'[q].call = proc[q].call
  BY <1>2 DEF Active
<1>4. \A r \in DOMAIN issued :
        ~(issued[r].kind = "run" /\ issued[r].call = proc[p].call)
  BY <1>3 DEF Trails, RunIsLast
<1>5. \A q \in Processes : q # p /\ Active(q) => proc[q].call # proc[p].call
  BY <1>3 DEF Trails, OneProcess
<1>6. OneProcess'
  <2>1. \A r \in DOMAIN issued' : issued'[r].call <= calls'
    BY <1>1, <1>3 DEF Trails, OneProcess
  <2> QED
    BY <1>3, <2>1 DEF Trails, OneProcess
<1>7. RunIsLast'
  <2>1. ASSUME NEW r \in DOMAIN issued', NEW s \in DOMAIN issued',
               issued'[r].kind = "run", issued'[s].kind = "run",
               issued'[r].call = issued'[s].call
        PROVE  r = s
    BY <1>1, <1>4, <2>1 DEF Trails, RunIsLast
  <2>2. ASSUME NEW q \in Processes, NEW r \in DOMAIN issued', Active(q)',
               issued'[r].kind = "run", issued'[r].call = proc'[q].call
        PROVE  proc'[q].pc = "write" /\ proc'[q].next = "idle"
    <3>1. CASE q = p
      <4>1. r = n
        BY <1>1, <1>2, <1>4, <2>2, <3>1
      <4> QED
        BY <1>1, <1>2, <2>2, <3>1, <4>1
    <3>2. CASE q # p
      <4>1. r \in DOMAIN issued
        BY <1>1, <1>3, <1>5, <2>2, <3>2
      <4> QED
        BY <1>1, <1>2, <1>3, <2>2, <3>2, <4>1 DEF Trails, RunIsLast
    <3> QED
      BY <3>1, <3>2
  <2> QED
    BY <2>1, <2>2 DEF RunIsLast
<1>8. DenialIsLast'
  <2>1. ASSUME NEW q \in Processes, Active(q)', proc'[q].due > 0
        PROVE  governed'[proc'[q].call]
    <3>1. proc[q].due > 0
      BY <1>2, <2>1
    <3> QED
      BY <1>3, <2>1, <3>1 DEF Trails, DenialIsLast
  <2>2. ASSUME NEW q \in Processes, NEW r \in DOMAIN issued', Active(q)',
               issued'[r].call = proc'[q].call, issued'[r].result = "deny"
        PROVE  proc'[q].due = 0 /\ ~proc'[q].granted
    <3>1. CASE r = n
      <4>1. q = p
        BY <1>1, <1>3, <1>5, <2>2, <3>1
      <4> QED
        BY <1>1, <1>2, <2>2, <3>1, <4>1
    <3>2. CASE r # n
      <4>1. /\ r \in DOMAIN issued /\ issued[r].result = "deny"
            /\ issued[r].call = proc[q].call /\ Active(q)
        BY <1>1, <1>3, <2>2, <3>2
      <4>2. proc[q].due = 0 /\ ~proc[q].granted
        BY <4>1 DEF Trails, DenialIsLast
      <4> QED
        BY <1>2, <4>2
    <3> QED
      BY <3>1, <3>2
  <2> QED
    BY <2>1, <2>2 DEF DenialIsLast
<1> QED
  BY <1>6, <1>7, <1>8 DEF Trails

(* append has returned: the call goes on as it was, or is over.            *)
LEMMA TrailsResume ==
  ASSUME Trails, NEW p \in Processes, UNCHANGED <<issued, calls, governed>>,
         proc \in [Processes -> Process], proc[p].pc = "write", Resume(p)
  PROVE  Trails'
<1>1. proc[p] \in Process
  OBVIOUS
<1>2. proc' = [proc EXCEPT ![p] = Resumed(proc[p])]
  BY DEF Resume, Resumed
<1>3. Resumed(proc[p]).pc # "idle" =>
        /\ proc[p].next # "idle" /\ Resumed(proc[p]).call = proc[p].call
        /\ Resumed(proc[p]).due = proc[p].due
        /\ Resumed(proc[p]).granted = proc[p].granted
  BY <1>1 DEF Resumed, AtRest, Process
<1> HIDE DEF Resumed
<1> QED
  BY <1>1, <1>2, <1>3, TrailsQuiet DEF Active

LEMMA NextTrails == IInv /\ Trails /\ [Next]_vars => Trails'
<1> SUFFICES ASSUME IInv, Trails, [Next]_vars PROVE Trails'
  OBVIOUS
<1>0. /\ proc \in [Processes -> Process]
      /\ \A p \in Processes : /\ proc[p] \in Process /\ proc[p].granted \in BOOLEAN
                             /\ proc[p].due \in 0..MaxJudgements
  BY DEF IInv, TypeOK, Process
<1>1. ASSUME NEW p \in Processes, NEW m \in Modules, Begin(p, m) PROVE Trails'
  BY <1>1, TrailsBegin
<1>2. ASSUME NEW p \in Processes, NEW allowed \in BOOLEAN, Judge(p, allowed)
      PROVE  Trails'
  <2> DEFINE due == IF allowed THEN proc[p].due - 1 ELSE 0
             result == IF allowed THEN "allow" ELSE "deny"
  <2>1. /\ proc[p].pc = "call" /\ proc[p].due > 0 /\ due \in 0..MaxJudgements
        /\ result \in {"allow", "deny", "success", "error"}
        /\ result = "deny" => due = 0 /\ ~allowed
        /\ UNCHANGED <<calls, governed>>
    BY <1>0, <1>2 DEF Judge, MaxJudgements
  <2>2. CASE Issue(p, "decision", result, due, allowed, "call")
    <3> HIDE DEF due, result
    <3> QED
      BY <2>1, <2>2, TrailsIssue
  <2>3. CASE proc' = [proc EXCEPT ![p].due = due, ![p].granted = allowed] /\ UNCHANGED issued
    <3>1. /\ proc' = [proc EXCEPT ![p] = proc'[p]]
          /\ proc'[p].pc = "call" /\ proc'[p].call = proc[p].call
      BY <1>0, <2>1, <2>3 DEF Process
    <3>2. Active(p) /\ proc[p].pc # "write" /\ proc[p].due # 0
      BY <1>0, <2>1 DEF Active, MaxJudgements
    <3> QED
      BY <1>0, <2>1, <2>3, <3>1, <3>2, TrailsQuiet
  <2> QED
    BY <1>2, <2>2, <2>3 DEF Judge
<1>3. ASSUME NEW p \in Processes, NEW status \in {"success", "error"}, Finish(p, status)
      PROVE  Trails'
  BY <1>0, <1>3, TrailsIssue DEF Finish
<1>4. ASSUME NEW p \in Processes, NEW n \in 1..Parts, Write(p, n) PROVE Trails'
  <2>1. CASE Resume(p)
    BY <1>0, <1>4, <2>1, TrailsResume DEF Write
  <2>2. CASE proc' = [proc EXCEPT ![p].written = proc[p].written + n]
    <3>1. /\ proc' = [proc EXCEPT ![p] = proc'[p]]
          /\ proc'[p].pc = proc[p].pc /\ proc'[p].next = proc[p].next
          /\ proc'[p].call = proc[p].call
          /\ proc'[p].due = proc[p].due /\ proc'[p].granted = proc[p].granted
      BY <1>0, <2>2 DEF Process
    <3> QED
      BY <1>0, <1>4, <3>1, TrailsQuiet DEF Write, Active
  <2> QED
    BY <1>4, <2>1, <2>2 DEF Write
<1>5. ASSUME NEW p \in Processes, AppendFails(p) PROVE Trails'
  BY <1>0, <1>5, TrailsResume DEF AppendFails
<1>6. ASSUME NEW p \in Processes, Die(p) \/ Leave(p) PROVE Trails'
  <2>1. AtRest.pc = "idle"
    BY DEF AtRest
  <2> QED
    BY <1>0, <1>6, <2>1, TrailsQuiet DEF Die, Leave
<1>7. CASE UNCHANGED vars
  BY <1>7 DEF vars, Trails, OneProcess, RunIsLast, DenialIsLast, Active
<1> QED
  BY <1>1, <1>2, <1>3, <1>4, <1>5, <1>6, <1>7 DEF Next

(* A record of p about call c changes the trail of c, by that record.      *)
LEMMA TrailOfIssue ==
  ASSUME IInv, Trails, NEW p \in Processes, NEW kind \in {"decision", "run"},
         NEW result \in {"allow", "deny", "success", "error"},
         NEW due, NEW granted, NEW next, proc[p].pc = "call",
         Issue(p, kind, result, due, granted, next), NEW c
  PROVE  /\ c # proc[p].call => Decided(c)' = Decided(c) /\ Outcome(c)' = Outcome(c)
         /\ c = proc[p].call /\ kind = "decision" =>
              /\ Decided(c)' = Decided(c) \cup {result}
              /\ Outcome(c) = "none" /\ Outcome(c)' = "none"
         /\ c = proc[p].call /\ kind = "run" =>
              /\ Decided(c)' = Decided(c)
              /\ Outcome(c) = "none" /\ Outcome(c)' = result
<1> DEFINE n == Len(issued) + 1
<1>1. /\ DOMAIN issued' = DOMAIN issued \cup {n} /\ n \notin DOMAIN issued
      /\ \A i \in DOMAIN issued : issued'[i] = issued[i]
      /\ issued'[n].kind = kind /\ issued'[n].result = result
      /\ issued'[n].call = proc[p].call
  <2>1. /\ Len(issued) \in Nat
        /\ DOMAIN issued = 1..Len(issued) /\ DOMAIN issued' = 1..(Len(issued) + 1)
        /\ \A i \in 1..Len(issued) : issued'[i] = issued[i]
        /\ issued'[n].kind = kind /\ issued'[n].result = result
        /\ issued'[n].call = proc[p].call
    BY IssueRecords
  <2> QED
    BY <2>1
<1> HIDE DEF n
<1>2. ASSUME NEW k, k # kind \/ c # proc[p].call
      PROVE  About(k, c)' = About(k, c)
    BY <1>1, <1>2 DEF About
<1>3. ASSUME c = proc[p].call PROVE About(kind, c)' = About(kind, c) \cup {n}
  BY <1>1, <1>3 DEF About
<1>4. ASSUME c = proc[p].call PROVE About("run", c) = {}
  BY <1>4 DEF About, Trails, RunIsLast, Active
<1>5. ASSUME NEW k, About(k, c)' = About(k, c)
      PROVE  \A r \in About(k, c) : issued'[r] = issued[r]
  BY <1>1 DEF About
<1>6. ASSUME c # proc[p].call
      PROVE  Decided(c)' = Decided(c) /\ Outcome(c)' = Outcome(c)
  <2>1. /\ About("decision", c)' = About("decision", c)
        /\ About("run", c)' = About("run", c)
    BY <1>2, <1>6
  <2>2. Decided(c)' = Decided(c)
    BY <1>5, <2>1 DEF Decided
  <2>3. Outcome(c)' = Outcome(c)
    <3>1. CASE About("run", c) = {}
      BY <2>1, <3>1 DEF Outcome
    <3>2. CASE About("run", c) # {}
      <4>1. (CHOOSE r \in About("run", c) : TRUE) \in About("run", c)
        BY <3>2
      <4> QED
        BY <1>5, <2>1, <3>2, <4>1 DEF Outcome
    <3> QED
      BY <3>1, <3>2
  <2> QED
    BY <2>2, <2>3
<1>7. ASSUME c = proc[p].call, kind = "decision"
      PROVE  /\ Decided(c)' = Decided(c) \cup {result}
             /\ Outcome(c) = "none" /\ Outcome(c)' = "none"
  <2>1. About("run", c)' = {} /\ About("run", c) = {}
    BY <1>2, <1>4, <1>7
  <2>2. About("decision", c)' = About("decision", c) \cup {n}
    BY <1>3, <1>7
  <2>3. \A r \in About("decision", c) : issued'[r] = issued[r]
    BY <1>1 DEF About
  <2>4. Decided(c)' = Decided(c) \cup {result}
    BY <1>1, <2>2, <2>3 DEF Decided
  <2> QED
    BY <2>1, <2>4 DEF Outcome
<1>8. ASSUME c = proc[p].call, kind = "run"
      PROVE  /\ Decided(c)' = Decided(c)
             /\ Outcome(c) = "none" /\ Outcome(c)' = result
  <2>1. About("run", c)' = {n} /\ About("run", c) = {}
    BY <1>3, <1>4, <1>8
  <2>2. About("decision", c)' = About("decision", c)
    BY <1>2, <1>8
  <2>3. Decided(c)' = Decided(c)
    BY <1>5, <2>2 DEF Decided
  <2>4. Outcome(c)' = issued'[n].result
    BY <2>1 DEF Outcome
  <2> QED
    BY <1>1, <2>1, <2>3, <2>4 DEF Outcome
<1> QED
  BY <1>6, <1>7, <1>8

(* Which decisions are kept, by the words of the settings.                 *)
LEMMA RecordedIsKept ==
  ASSUME NEW allowed \in BOOLEAN
  PROVE  Recorded(allowed) <=> (IF allowed THEN "allow" ELSE "deny") \in Kept
BY AuditAssumption DEF Recorded, Kept, SwitchedOff, AuditFlag, AsBool

(* A step of p about another call, or one that records nothing, leaves the *)
(* trail of c as it is.                                                    *)
LEMMA TrailStutters ==
  ASSUME NEW c, UNCHANGED <<setting, governed>>,
         Decided(c)' = Decided(c), Outcome(c)' = Outcome(c)
  PROVE  UNCHANGED Trail(c)!vars
BY DEF Trail!vars, Kept, SwitchedOff

(* A record of p is a step of the trail of its call, and of no other.      *)
LEMMA TrailIssue ==
  ASSUME IInv, Beside, Trails, NEW p \in Processes, NEW kind \in {"decision", "run"},
         NEW result \in {"allow", "deny", "success", "error"},
         NEW due, NEW granted, NEW next, proc[p].pc = "call",
         Issue(p, kind, result, due, granted, next), UNCHANGED <<setting, governed>>,
         kind = "decision" =>
           /\ proc[p].due > 0 /\ result \in {"allow", "deny"} /\ result \in Kept,
         kind = "run" =>
           /\ result \in {"success", "error"}
           /\ result = "success" => proc[p].granted,
         NEW c \in 1..MaxCalls
  PROVE  [Trail(c)!Next]_(Trail(c)!vars)
<1>1. proc[p] \in Process /\ proc[p].due \in 0..MaxJudgements /\ Active(p)
  BY DEF IInv, TypeOK, Process, Active
<1>2. CASE c # proc[p].call
  BY <1>2, TrailOfIssue, TrailStutters
<1>3. CASE c = proc[p].call /\ kind = "decision"
  <2>1. governed[c] /\ ~(proc[p].due = 0)
    BY <1>1, <1>3 DEF Trails, DenialIsLast, MaxJudgements
  <2>2. "deny" \notin Decided(c)
    BY <1>1, <1>3, <2>1 DEF Trails, DenialIsLast, Decided, About
  <2>3. /\ Decided(c)' = Decided(c) \cup {result}
        /\ Outcome(c) = "none" /\ Outcome(c)' = "none"
    BY <1>3, TrailOfIssue
  <2>4. Kept' = Kept
    BY DEF Kept, SwitchedOff
  <2>5. Trail(c)!Decide(result)
    BY <1>3, <2>1, <2>2, <2>3, <2>4 DEF Trail!Decide
  <2> QED
    BY <1>3, <2>5 DEF Trail!Next, Trail!Verdicts
<1>4. CASE c = proc[p].call /\ kind = "run"
  <2>1. /\ Decided(c)' = Decided(c)
        /\ Outcome(c) = "none" /\ Outcome(c)' = result
    BY <1>4, TrailOfIssue
  <2>2. ASSUME result = "success"
        PROVE  /\ "deny" \notin Decided(c)
               /\ governed[c] /\ "allow" \in Kept => "allow" \in Decided(c)
    <3>1. proc[p].granted
      BY <1>4, <2>2
    <3>2. "deny" \notin Decided(c)
      BY <1>1, <1>4, <3>1 DEF Trails, DenialIsLast, Decided, About
    <3>3. ASSUME governed[c], "allow" \in Kept PROVE "allow" \in Decided(c)
      <4>1. ~SwitchedOff(setting.enabled)
        BY <3>3 DEF Kept
      <4>2. PICK d \in DOMAIN issued : Allows(issued[d], c, p)
        BY <1>4, <3>1, <3>3, <4>1 DEF Beside, GrantsOnRecord
      <4> QED
        BY <4>2 DEF Allows, Decided, About
    <3> QED
      BY <3>2, <3>3
  <2>3. Kept' = Kept
    BY DEF Kept, SwitchedOff
  <2>4. Trail(c)!Record(result)
    BY <2>1, <2>2, <2>3 DEF Trail!Record
  <2> QED
    BY <1>4, <2>4 DEF Trail!Next
<1> QED
  BY <1>2, <1>3, <1>4

(* Every step of the log is a step of each trail, or leaves it alone.      *)
LEMMA TrailStep ==
  ASSUME IInv, Beside, Trails, [Next]_vars, NEW c \in 1..MaxCalls
  PROVE  [Trail(c)!Next]_(Trail(c)!vars)
<1>1. ASSUME UNCHANGED <<issued, setting, governed>>
      PROVE  [Trail(c)!Next]_(Trail(c)!vars)
  <2>1. Decided(c)' = Decided(c) /\ Outcome(c)' = Outcome(c)
    BY <1>1 DEF Decided, Outcome, About
  <2> QED
    BY <1>1, <2>1, TrailStutters
<1>2. ASSUME NEW p \in Processes, NEW allowed \in BOOLEAN, Judge(p, allowed)
      PROVE  [Trail(c)!Next]_(Trail(c)!vars)
  <2> DEFINE due == IF allowed THEN proc[p].due - 1 ELSE 0
             result == IF allowed THEN "allow" ELSE "deny"
  <2>1. CASE Recorded(allowed) /\ Issue(p, "decision", result, due, allowed, "call")
    <3>1. /\ result \in {"allow", "deny"} /\ result \in {"allow", "deny", "success", "error"}
          /\ result \in Kept
      BY <2>1, RecordedIsKept
    <3>2. proc[p].pc = "call" /\ proc[p].due > 0 /\ UNCHANGED <<setting, governed>>
      BY <1>2 DEF Judge
    <3> HIDE DEF due, result
    <3> QED
      BY <2>1, <3>1, <3>2, TrailIssue
  <2>2. CASE UNCHANGED issued
    BY <1>1, <1>2, <2>2 DEF Judge
  <2> QED
    BY <1>2, <2>1, <2>2 DEF Judge
<1>3. ASSUME NEW p \in Processes, NEW status \in {"success", "error"}, Finish(p, status)
      PROVE  [Trail(c)!Next]_(Trail(c)!vars)
  BY <1>3, TrailIssue DEF Finish
<1> QED
  BY <1>1, <1>2, <1>3 DEF Next, vars, Begin, Leave, Write, AppendFails, Die

(* Whatever the processes do to the file and whatever becomes of them: the *)
(* records handed to append about a call are an AuditTrail, for any number *)
(* of processes, calls and broken appends.                                 *)
THEOREM TrailTheorem == Spec => ImplementsAuditTrail
<1>1. Init => Beside
  BY DEF Init, Beside, Sequence, GrantsOnRecord, RunsAllowed, AtRest
<1>2. Init => Trails
  BY DEF Init, Trails, OneProcess, RunIsLast, DenialIsLast, Active, AtRest
<1>3. Init => \A c \in 1..MaxCalls : Trail(c)!Init
  BY DEF Init, Trail!Init, Trail!Verdicts, Kept, Decided, Outcome, About
<1>4. IInv /\ Beside /\ Trails /\ [Next]_vars =>
        [\A c \in 1..MaxCalls : [Trail(c)!Next]_(Trail(c)!vars)]_vars
  BY TrailStep
<1> QED
  BY <1>1, <1>2, <1>3, <1>4, Invariance, NextBeside, NextTrails, PTL
  DEF Spec, ImplementsAuditTrail
=============================================================================
