--------------------------- MODULE FileStoreProofs ---------------------------
(***************************************************************************)
(* Proofs about FileStore, for every set of processes, names and values    *)
(* and any number of kills and power losses.                               *)
(***************************************************************************)
EXTENDS FileStore, TLAPS

USE FileStoreAssumption

-----------------------------------------------------------------------------
(* The invariant.                                                          *)

Files == [text : Values \cup {"empty"}, synced : BOOLEAN, broad : BOOLEAN]

\* What a name may lead to: the fsync before the rename is what makes it so.
WholeFiles == [text : Values, synced : {TRUE}, broad : BOOLEAN]

Processes ==
    [op : {"idle", "save", "load", "list"}, name : Names \cup {Nothing},
     step : {"", "write", "sync", "rename", "stat", "open", "read", "next"},
     file : Files \cup {Nothing}, value : Values \cup {Nothing},
     todo : SUBSET Names, disturbed : BOOLEAN,
     result : {"", "read error"}]

TypeInv ==
    /\ names \in [Names -> WholeFiles \cup {Nothing}]
    /\ durable \in [Names -> WholeFiles \cup {Nothing}]
    /\ proc \in [Procs -> Processes]
    /\ faults \in Nat

\* The temporary file of a save holds what the step before it left there.
SaveInv(p) ==
    proc[p].op = "save" =>
        /\ proc[p].name \in Names /\ proc[p].value \in Values
        /\ proc[p].step \in {"write", "sync", "rename"}
        /\ proc[p].step = "sync" => proc[p].file = File(proc[p].value, FALSE)
        /\ proc[p].step = "rename" => proc[p].file = File(proc[p].value, TRUE)

\* A reader that nobody disturbed finds what it has seen in the directory.
ReadInv(p) ==
    proc[p].op \in Readers =>
        /\ proc[p].step \in {"stat", "open", "read", "next"}
        /\ proc[p].step # "next" => proc[p].name \in Names
        /\ proc[p].step = "read" => proc[p].file \in WholeFiles
        /\ proc[p].op = "load" => proc[p].todo = {}
        /\ ~proc[p].disturbed =>
              /\ \A n \in proc[p].todo : names[n] # Nothing
              /\ (proc[p].step = "open" \/ (proc[p].step = "stat" /\ proc[p].op = "list"))
                    => names[proc[p].name] # Nothing

IInv ==
    /\ TypeInv
    /\ \A p \in Procs : SaveInv(p) /\ ReadInv(p)
    /\ WritersAreInvisible

-----------------------------------------------------------------------------
\* A file written and synced by a save is one a name may lead to.
LEMMA FileTypes ==
  \A v \in Values : /\ File(v, TRUE) \in WholeFiles
                    /\ \A b \in BOOLEAN : File(v, b) \in Files
                    /\ File("empty", FALSE) \in Files
  BY DEF File, WholeFiles, Files

LEMMA IInvInit == Init => IInv
<1> SUFFICES ASSUME Init PROVE IInv
  OBVIOUS
<1>1. Idle \in Processes
  BY DEF Idle, Processes
<1>2. TypeInv
  BY <1>1 DEF Init, TypeInv
<1>3. \A p \in Procs : proc[p].op = "idle" /\ proc[p].result = ""
  BY DEF Init, Idle
<1> QED
  BY <1>2, <1>3 DEF IInv, SaveInv, ReadInv, WritersAreInvisible, Readers

\* A step of one process that leaves the directory alone.
LEMMA LocalStep ==
  ASSUME IInv, NEW p \in Procs, NEW record \in Processes,
         proc' = [proc EXCEPT ![p] = record],
         UNCHANGED <<names, durable>>, faults' \in Nat,
         SaveInv(p)', ReadInv(p)',
         record.result = "read error" => record.disturbed
  PROVE  IInv'
<1>1. TypeInv'
  BY DEF IInv, TypeInv
<1>2. ASSUME NEW q \in Procs, q # p PROVE SaveInv(q)' /\ ReadInv(q)'
  BY <1>2 DEF IInv, TypeInv, SaveInv, ReadInv
<1>3. WritersAreInvisible'
  BY DEF IInv, TypeInv, WritersAreInvisible
<1> QED
  BY <1>1, <1>2, <1>3 DEF IInv

\* A process that goes back to idle keeps the invariant in whatever way.
LEMMA IdleStep ==
  ASSUME IInv, NEW p \in Procs, proc' = [proc EXCEPT ![p] = Idle],
         UNCHANGED <<names, durable>>, faults' \in Nat
  PROVE  IInv'
<1>1. Idle \in Processes
  BY DEF Idle, Processes
<1>2. proc'[p] = Idle /\ Idle.op = "idle"
  BY DEF IInv, TypeInv, Idle
<1>3. SaveInv(p)' /\ ReadInv(p)'
  BY <1>2 DEF SaveInv, ReadInv, Readers
<1>4. Idle.result # "read error"
  BY DEF Idle
<1> QED
  BY <1>1, <1>3, <1>4, LocalStep

-----------------------------------------------------------------------------
(* Save.                                                                   *)

LEMMA CreateTempStep ==
  ASSUME IInv, NEW p \in Procs, NEW n \in Names, NEW v \in Values,
         CreateTemp(p, n, v)
  PROVE  IInv'
<1> DEFINE next == Saving(n, v)
<1>1. /\ next \in Processes /\ next.op = "save" /\ next.name = n
      /\ next.value = v /\ next.step = "write" /\ next.result = ""
  BY DEF Saving, Idle, File, Processes, Files
<1>2. proc' = [proc EXCEPT ![p] = next] /\ proc'[p] = next
  BY DEF CreateTemp, Go, IInv, TypeInv
<1> HIDE DEF next
<1>3. SaveInv(p)' /\ ReadInv(p)'
  BY <1>1, <1>2 DEF SaveInv, ReadInv, Readers
<1>4. UNCHANGED <<names, durable, faults>> /\ faults' \in Nat
  BY DEF CreateTemp, IInv, TypeInv
<1> QED
  BY <1>1, <1>2, <1>3, <1>4, LocalStep

LEMMA WriteStep ==
  ASSUME IInv, NEW p \in Procs, Write(p) PROVE IInv'
<1> DEFINE next == [proc[p] EXCEPT !.step = "sync", !.file = File(proc[p].value, FALSE)]
<1>1. /\ proc[p] \in Processes /\ proc[p].op = "save" /\ proc[p].value \in Values
      /\ proc[p].name \in Names
  BY DEF Write, At, IInv, TypeInv, SaveInv
<1>2. /\ next \in Processes /\ next.op = "save" /\ next.name = proc[p].name
      /\ next.value = proc[p].value /\ next.step = "sync"
      /\ next.file = File(proc[p].value, FALSE)
      /\ next.result = proc[p].result /\ next.disturbed = proc[p].disturbed
  BY <1>1 DEF File, Processes, Files
<1>3. proc' = [proc EXCEPT ![p] = next] /\ proc'[p] = next
  BY DEF Write, Go, IInv, TypeInv
<1> HIDE DEF next
<1>4. SaveInv(p)' /\ ReadInv(p)'
  BY <1>1, <1>2, <1>3 DEF SaveInv, ReadInv, Readers
<1>5. UNCHANGED <<names, durable, faults>> /\ faults' \in Nat
  BY DEF Write, IInv, TypeInv
<1>6. next.result = "read error" => next.disturbed
  BY <1>2 DEF IInv, WritersAreInvisible
<1> QED
  BY <1>2, <1>3, <1>4, <1>5, <1>6, LocalStep

LEMMA SyncStep ==
  ASSUME IInv, NEW p \in Procs, Sync(p) PROVE IInv'
<1> DEFINE next == [proc[p] EXCEPT !.step = "rename", !.file = File(proc[p].value, TRUE)]
<1>1. /\ proc[p] \in Processes /\ proc[p].op = "save" /\ proc[p].value \in Values
      /\ proc[p].name \in Names
  BY DEF Sync, At, IInv, TypeInv, SaveInv
<1>4. /\ next \in Processes /\ next.op = "save" /\ next.name = proc[p].name
      /\ next.value = proc[p].value /\ next.step = "rename"
      /\ next.file = File(proc[p].value, TRUE)
      /\ next.result = proc[p].result /\ next.disturbed = proc[p].disturbed
  BY <1>1, FileTypes DEF Processes
<1>5. proc' = [proc EXCEPT ![p] = next] /\ proc'[p] = next
  BY DEF Sync, Go, IInv, TypeInv
<1> HIDE DEF next
<1>6. SaveInv(p)' /\ ReadInv(p)'
  BY <1>1, <1>4, <1>5 DEF SaveInv, ReadInv, Readers
<1>7. UNCHANGED <<names, durable, faults>> /\ faults' \in Nat
  BY DEF Sync, IInv, TypeInv
<1>8. next.result = "read error" => next.disturbed
  BY <1>4 DEF IInv, WritersAreInvisible
<1> QED
  BY <1>4, <1>5, <1>6, <1>7, <1>8, LocalStep

\* Whoever reads while a name changes sees a file either way: what was there
\* or what replaces it.
LEMMA RenameStep ==
  ASSUME IInv, NEW p \in Procs, Rename(p) PROVE IInv'
<1> DEFINE file == proc[p].file
<1>1. /\ proc[p] \in Processes /\ proc[p].name \in Names
      /\ file = File(proc[p].value, TRUE) /\ proc[p].value \in Values
  BY DEF Rename, At, IInv, TypeInv, SaveInv
<1>2. file \in WholeFiles /\ file # Nothing
  <2>1. file \in WholeFiles /\ file \in Files
    BY <1>1, FileTypes
  <2> QED
    BY <2>1, FileStoreAssumption DEF Files
<1>3. /\ names' = [names EXCEPT ![proc[p].name] = file]
      /\ proc' = [proc EXCEPT ![p] = Idle]
      /\ UNCHANGED <<durable, faults>>
  BY DEF Rename, Return, Go
<1> HIDE DEF file
<1>4. Idle \in Processes
  BY DEF Idle, Processes
<1>5. TypeInv'
  BY <1>1, <1>2, <1>3, <1>4 DEF IInv, TypeInv
<1>6. \A n \in Names : names[n] # Nothing => names'[n] # Nothing
  BY <1>2, <1>3 DEF IInv, TypeInv
<1>7. ASSUME NEW q \in Procs PROVE SaveInv(q)' /\ ReadInv(q)'
                                   /\ (proc'[q].result = "read error" => proc'[q].disturbed)
  <2>1. CASE q = p
    <3>1. proc'[q] = Idle /\ Idle.op = "idle" /\ Idle.result = ""
      BY <1>3, <2>1 DEF IInv, TypeInv, Idle
    <3> QED
      BY <3>1 DEF SaveInv, ReadInv, Readers
  <2>2. CASE q # p
    <3>1. proc'[q] = proc[q] /\ proc[q] \in Processes
      BY <1>3, <2>2 DEF IInv, TypeInv
    <3>2. SaveInv(q)'
      BY <3>1 DEF IInv, SaveInv
    <3>3. ReadInv(q)'
      BY <1>6, <3>1 DEF IInv, ReadInv, Processes, Readers
    <3> QED
      BY <3>1, <3>2, <3>3 DEF IInv, WritersAreInvisible
  <2> QED
    BY <2>1, <2>2
<1> QED
  BY <1>5, <1>7 DEF IInv, WritersAreInvisible
-----------------------------------------------------------------------------
(* Load and List.                                                          *)

\* Only a reader that was disturbed may return an error.
LEMMA ErrorStep ==
  ASSUME IInv, NEW p \in Procs, proc[p].disturbed, Return(p, "read error"),
         UNCHANGED <<names, durable>>, faults' \in Nat
  PROVE  IInv'
<1> DEFINE next == [Idle EXCEPT !.result = "read error", !.disturbed = proc[p].disturbed]
<1>1. proc[p] \in Processes
  BY DEF IInv, TypeInv
<1>2. next \in Processes /\ next.op = "idle" /\ next.disturbed
  BY <1>1 DEF Idle, Processes
<1>3. proc' = [proc EXCEPT ![p] = next] /\ proc'[p] = next
  BY DEF Return, Go, IInv, TypeInv
<1> HIDE DEF next
<1>4. SaveInv(p)' /\ ReadInv(p)'
  BY <1>2, <1>3 DEF SaveInv, ReadInv, Readers
<1> QED
  BY <1>2, <1>3, <1>4, LocalStep

\* A call that returns anything else.
LEMMA ReturnStep ==
  ASSUME IInv, NEW p \in Procs, NEW result, result # "read error",
         Return(p, result), UNCHANGED <<names, durable>>, faults' \in Nat
  PROVE  IInv'
<1>1. proc' = [proc EXCEPT ![p] = Idle]
  BY DEF Return, Go
<1> QED
  BY <1>1, IdleStep

LEMMA BeginLoadStep ==
  ASSUME IInv, NEW p \in Procs, NEW n \in Names, BeginLoad(p, n) PROVE IInv'
<1> DEFINE next == [Idle EXCEPT !.op = "load", !.name = n, !.step = "stat"]
<1>1. /\ next \in Processes /\ next.op = "load" /\ next.name = n
      /\ next.step = "stat" /\ next.todo = {} /\ next.result = ""
  BY DEF Idle, Processes
<1>2. proc' = [proc EXCEPT ![p] = next] /\ proc'[p] = next
  BY DEF BeginLoad, Go, IInv, TypeInv
<1> HIDE DEF next
<1>3. SaveInv(p)' /\ ReadInv(p)'
  BY <1>1, <1>2 DEF SaveInv, ReadInv, Readers
<1>4. UNCHANGED <<names, durable, faults>> /\ faults' \in Nat
  BY DEF BeginLoad, IInv, TypeInv
<1> QED
  BY <1>1, <1>2, <1>3, <1>4, LocalStep

LEMMA ReadDirStep ==
  ASSUME IInv, NEW p \in Procs, ReadDir(p) PROVE IInv'
<1> DEFINE found == {n \in Names : names[n] # Nothing}
           next == [Idle EXCEPT !.op = "list", !.step = "next", !.todo = found]
<1>1. /\ next \in Processes /\ next.op = "list" /\ next.step = "next"
      /\ next.todo = found /\ next.result = ""
  BY DEF Idle, Processes
<1>2. proc' = [proc EXCEPT ![p] = next] /\ proc'[p] = next
  BY DEF ReadDir, Go, IInv, TypeInv
<1>3. UNCHANGED <<names, durable, faults>> /\ faults' \in Nat
  BY DEF ReadDir, IInv, TypeInv
<1> HIDE DEF next
<1>4. SaveInv(p)' /\ ReadInv(p)'
  BY <1>1, <1>2, <1>3 DEF SaveInv, ReadInv, Readers
<1> QED
  BY <1>1, <1>2, <1>3, <1>4, LocalStep

LEMMA ListNextStep ==
  ASSUME IInv, NEW p \in Procs, ListNext(p) PROVE IInv'
<1>1. /\ proc[p] \in Processes /\ proc[p].op = "list" /\ ReadInv(p)
      /\ UNCHANGED <<names, durable, faults>> /\ faults' \in Nat
  BY DEF ListNext, At, IInv, TypeInv
<1>2. CASE proc[p].todo = {}
  BY <1>1, <1>2, ReturnStep DEF ListNext
<1>3. ASSUME NEW n \in proc[p].todo,
             Go(p, [proc[p] EXCEPT !.name = n, !.step = "stat", !.todo = @ \ {n}])
      PROVE  IInv'
  <2> DEFINE next == [proc[p] EXCEPT !.name = n, !.step = "stat", !.todo = @ \ {n}]
  <2>1. /\ next \in Processes /\ next.op = "list" /\ next.step = "stat"
        /\ next.name = n /\ next.todo = proc[p].todo \ {n} /\ n \in Names
        /\ next.result = proc[p].result /\ next.disturbed = proc[p].disturbed
    BY <1>1 DEF Processes
  <2>2. proc' = [proc EXCEPT ![p] = next] /\ proc'[p] = next
    BY <1>3 DEF Go, IInv, TypeInv
  <2> HIDE DEF next
  <2>3. SaveInv(p)' /\ ReadInv(p)'
    BY <1>1, <2>1, <2>2 DEF SaveInv, ReadInv, Readers
  <2>4. next.result = "read error" => next.disturbed
    BY <2>1 DEF IInv, WritersAreInvisible
  <2> QED
    BY <1>1, <2>1, <2>2, <2>3, <2>4, LocalStep
<1> QED
  BY <1>2, <1>3 DEF ListNext

LEMMA StatStep ==
  ASSUME IInv, NEW p \in Procs, Stat(p) PROVE IInv'
<1> DEFINE file == names[proc[p].name]
<1>1. /\ proc[p] \in Processes /\ proc[p].op \in Readers /\ proc[p].step = "stat"
      /\ ReadInv(p) /\ proc[p].name \in Names
      /\ UNCHANGED <<names, durable, faults>> /\ faults' \in Nat
  BY DEF Stat, At, IInv, TypeInv, ReadInv
<1>2. CASE file = Nothing /\ proc[p].op = "list"
  <2>1. proc[p].disturbed
    BY <1>1, <1>2 DEF ReadInv
  <2>2. Return(p, "read error")
    BY <1>2 DEF Stat
  <2> QED
    BY <1>1, <2>1, <2>2, ErrorStep
<1>3. CASE file = Nothing /\ proc[p].op # "list"
  <2>1. Return(p, "miss")
    BY <1>3 DEF Stat
  <2> QED
    BY <1>1, <2>1, ReturnStep
<1>4. CASE file # Nothing /\ file.broad
  <2>1. Return(p, "refused")
    BY <1>4 DEF Stat
  <2> QED
    BY <1>1, <2>1, ReturnStep
<1>5. CASE file # Nothing /\ ~file.broad
  <2> DEFINE next == [proc[p] EXCEPT !.step = "open"]
  <2>1. /\ next \in Processes /\ next.op = proc[p].op /\ next.step = "open"
        /\ next.name = proc[p].name /\ next.todo = proc[p].todo
        /\ next.result = proc[p].result /\ next.disturbed = proc[p].disturbed
    BY <1>1 DEF Processes
  <2>2. Step(p, "open")
    BY <1>5 DEF Stat
  <2>3. proc' = [proc EXCEPT ![p] = next] /\ proc'[p] = next
    BY <2>2 DEF Step, Go, IInv, TypeInv
  <2> HIDE DEF next
  <2>4. SaveInv(p)' /\ ReadInv(p)'
    BY <1>1, <1>5, <2>1, <2>3 DEF SaveInv, ReadInv, Readers
  <2>5. next.result = "read error" => next.disturbed
    BY <2>1 DEF IInv, WritersAreInvisible
  <2> QED
    BY <1>1, <2>1, <2>3, <2>4, <2>5, LocalStep
<1> QED
  BY <1>2, <1>3, <1>4, <1>5

LEMMA OpenStep ==
  ASSUME IInv, NEW p \in Procs, Open(p) PROVE IInv'
<1> DEFINE file == names[proc[p].name]
<1>1. /\ proc[p] \in Processes /\ proc[p].op \in Readers /\ proc[p].step = "open"
      /\ ReadInv(p) /\ proc[p].name \in Names /\ file \in WholeFiles \cup {Nothing}
      /\ UNCHANGED <<names, durable, faults>> /\ faults' \in Nat
  BY DEF Open, At, IInv, TypeInv, ReadInv
<1>2. CASE file = Nothing
  <2>1. proc[p].disturbed
    BY <1>1, <1>2 DEF ReadInv
  <2>2. Return(p, "read error")
    BY <1>2 DEF Open
  <2> QED
    BY <1>1, <2>1, <2>2, ErrorStep
<1>3. CASE file # Nothing
  <2> DEFINE next == [proc[p] EXCEPT !.step = "read", !.file = file]
  <2>1. file \in Files /\ file \in WholeFiles
    BY <1>1, <1>3 DEF WholeFiles, Files
  <2>2. /\ next \in Processes /\ next.op = proc[p].op /\ next.step = "read"
        /\ next.name = proc[p].name /\ next.todo = proc[p].todo
        /\ next.file = file
        /\ next.result = proc[p].result /\ next.disturbed = proc[p].disturbed
    BY <1>1, <2>1 DEF Processes
  <2>3. proc' = [proc EXCEPT ![p] = next] /\ proc'[p] = next
    BY <1>3 DEF Open, Go, IInv, TypeInv
  <2> HIDE DEF next, file
  <2>4. SaveInv(p)' /\ ReadInv(p)'
    BY <1>1, <1>3, <2>1, <2>2, <2>3 DEF SaveInv, ReadInv, Readers
  <2>5. next.result = "read error" => next.disturbed
    BY <2>2 DEF IInv, WritersAreInvisible
  <2> QED
    BY <1>1, <2>2, <2>3, <2>4, <2>5, LocalStep
<1> QED
  BY <1>2, <1>3

\* What was opened decodes, however the name has changed since.
LEMMA ReadStep ==
  ASSUME IInv, NEW p \in Procs, Read(p) PROVE IInv'
<1>1. /\ proc[p] \in Processes /\ proc[p].op \in Readers /\ proc[p].step = "read"
      /\ ReadInv(p) /\ proc[p].file.text \in Values
      /\ UNCHANGED <<names, durable, faults>> /\ faults' \in Nat
  BY DEF Read, At, IInv, TypeInv, ReadInv, WholeFiles
<1>2. CASE proc[p].op = "list"
  <2> DEFINE next == [proc[p] EXCEPT !.step = "next", !.name = Nothing, !.file = Nothing]
  <2>1. /\ next \in Processes /\ next.op = "list" /\ next.step = "next"
        /\ next.todo = proc[p].todo
        /\ next.result = proc[p].result /\ next.disturbed = proc[p].disturbed
    BY <1>1, <1>2 DEF Processes
  <2>2. proc' = [proc EXCEPT ![p] = next] /\ proc'[p] = next
    BY <1>1, <1>2 DEF Read, Go, IInv, TypeInv
  <2> HIDE DEF next
  <2>3. SaveInv(p)' /\ ReadInv(p)'
    BY <1>1, <2>1, <2>2 DEF SaveInv, ReadInv, Readers
  <2>4. next.result = "read error" => next.disturbed
    BY <2>1 DEF IInv, WritersAreInvisible
  <2> QED
    BY <1>1, <2>1, <2>2, <2>3, <2>4, LocalStep
<1>3. CASE proc[p].op # "list"
  <2>1. Return(p, "hit or miss")
    BY <1>1, <1>3 DEF Read
  <2> QED
    BY <1>1, <2>1, ReturnStep
<1> QED
  BY <1>2, <1>3
-----------------------------------------------------------------------------
(* Removals and the environment.                                           *)

\* Whoever was about to read the name is disturbed by the same step.
LEMMA RemoveStep ==
  ASSUME IInv, NEW p \in Procs, NEW n \in Names, Remove(p, n) PROVE IInv'
<1>1. /\ names' = [names EXCEPT ![n] = Nothing] /\ UNCHANGED <<durable, faults>>
      /\ proc' = [q \in Procs |-> IF q = p THEN Idle ELSE Disturbed(q, n)]
  BY DEF Remove
<1>2. Idle \in Processes /\ Idle.op = "idle" /\ Idle.result = ""
  BY DEF Idle, Processes
<1>3. ASSUME NEW q \in Procs, q # p
      PROVE  LET next == proc'[q] IN
             /\ next \in Processes /\ next.op = proc[q].op /\ next.name = proc[q].name
             /\ next.step = proc[q].step /\ next.file = proc[q].file
             /\ next.value = proc[q].value /\ next.todo = proc[q].todo
             /\ next.result = proc[q].result
             /\ proc[q].disturbed => next.disturbed
             /\ proc[q].op \in Readers /\ n \in proc[q].todo \cup {proc[q].name}
                  => next.disturbed
  <2>1. proc[q] \in Processes /\ proc'[q] = Disturbed(q, n)
    BY <1>1, <1>3 DEF IInv, TypeInv
  <2> QED
    BY <2>1 DEF Disturbed, Processes
<1>4. TypeInv'
  <2>1. names' \in [Names -> WholeFiles \cup {Nothing}]
    BY <1>1 DEF IInv, TypeInv
  <2>2. \A q \in Procs : proc'[q] \in Processes
    BY <1>1, <1>2, <1>3
  <2>3. proc' \in [Procs -> Processes]
    BY <1>1, <2>2
  <2> QED
    BY <1>1, <2>1, <2>3 DEF IInv, TypeInv
<1>5. ASSUME NEW q \in Procs
      PROVE  /\ SaveInv(q)' /\ ReadInv(q)'
             /\ proc'[q].result = "read error" => proc'[q].disturbed
  <2>1. CASE q = p
    <3>1. proc'[q] = Idle
      BY <1>1, <2>1
    <3> QED
      BY <1>2, <3>1 DEF SaveInv, ReadInv, Readers
  <2>2. CASE q # p
    <3>1. SaveInv(q)'
      BY <1>3, <2>2 DEF IInv, SaveInv
    <3>2. ReadInv(q)'
      <4>1. \A m \in Names : m # n => names'[m] = names[m]
        BY <1>1 DEF IInv, TypeInv
      <4>2. proc[q].todo \subseteq Names
        BY DEF IInv, TypeInv, Processes
      <4> QED
        BY <1>3, <2>2, <4>1, <4>2 DEF IInv, ReadInv, Readers
    <3>3. proc'[q].result = "read error" => proc'[q].disturbed
      BY <1>3, <2>2 DEF IInv, WritersAreInvisible
    <3> QED
      BY <3>1, <3>2, <3>3
  <2> QED
    BY <2>1, <2>2
<1> QED
  BY <1>4, <1>5 DEF IInv, WritersAreInvisible

LEMMA WriteBackStep ==
  ASSUME IInv, NEW n \in Names, WriteBack(n) PROVE IInv'
<1>1. /\ durable' = [durable EXCEPT ![n] = names[n]]
      /\ UNCHANGED <<names, proc, faults>>
  BY DEF WriteBack
<1>2. TypeInv'
  BY <1>1 DEF IInv, TypeInv
<1>3. \A p \in Procs : SaveInv(p)' /\ ReadInv(p)'
  BY <1>1 DEF IInv, SaveInv, ReadInv
<1>4. WritersAreInvisible'
  BY <1>1 DEF IInv, WritersAreInvisible
<1> QED
  BY <1>2, <1>3, <1>4 DEF IInv

LEMMA KillStep ==
  ASSUME IInv, NEW p \in Procs, Kill(p) PROVE IInv'
<1>1. proc' = [proc EXCEPT ![p] = Idle] /\ UNCHANGED <<names, durable>>
  BY DEF Kill, Go
<1>2. faults' \in Nat
  BY DEF Kill, Fault, IInv, TypeInv
<1> QED
  BY <1>1, <1>2, IdleStep

\* Every named file was synced before it got its name, so none is torn.
LEMMA NothingTorn ==
  ASSUME IInv, PowerLoss
  PROVE  /\ \A n \in Names : names'[n] \in {names[n], durable[n]}
         /\ names' \in [Names -> WholeFiles \cup {Nothing}]
         /\ durable' = names'
<1>1. PICK back \in SUBSET Names :
        names' = [n \in Names |-> Torn(IF n \in back THEN durable[n] ELSE names[n])]
  BY DEF PowerLoss
<1>2. \A file \in WholeFiles \cup {Nothing} : Torn(file) = file
  BY DEF Torn, WholeFiles
<1>3. \A n \in Names : /\ names[n] \in WholeFiles \cup {Nothing}
                       /\ durable[n] \in WholeFiles \cup {Nothing}
  BY DEF IInv, TypeInv
<1>4. \A n \in Names : names'[n] = IF n \in back THEN durable[n] ELSE names[n]
  BY <1>1, <1>2, <1>3
<1> QED
  BY <1>1, <1>3, <1>4 DEF PowerLoss

LEMMA PowerLossStep ==
  ASSUME IInv, PowerLoss PROVE IInv'
<1>1. proc' = [p \in Procs |-> Idle] /\ faults' \in Nat
  BY DEF PowerLoss, Fault, IInv, TypeInv
<1>2. Idle \in Processes /\ Idle.op = "idle" /\ Idle.result = ""
  BY DEF Idle, Processes
<1>3. TypeInv'
  BY <1>1, <1>2, NothingTorn DEF TypeInv
<1>4. \A p \in Procs : SaveInv(p)' /\ ReadInv(p)'
  BY <1>1, <1>2 DEF SaveInv, ReadInv, Readers
<1>5. WritersAreInvisible'
  BY <1>1, <1>2 DEF WritersAreInvisible
<1> QED
  BY <1>3, <1>4, <1>5 DEF IInv

\* A file that others may read is still a whole file.
LEMMA Loosened ==
  ASSUME IInv, NEW n \in Names, Loosen(n)
  PROVE  /\ names' \in [Names -> WholeFiles \cup {Nothing}]
         /\ \A m \in Names : Content(names'[m]) = Content(names[m])
         /\ \A m \in Names : names[m] # Nothing => names'[m] # Nothing
         /\ UNCHANGED <<durable, proc>>
<1> DEFINE file == [names[n] EXCEPT !.broad = TRUE]
<1>1. names[n] \in WholeFiles
  BY DEF IInv, TypeInv, Loosen
<1>2. file \in WholeFiles /\ file.text = names[n].text
  BY <1>1 DEF WholeFiles
<1>3. file # Nothing
  BY <1>2 DEF WholeFiles
<1>4. names' = [names EXCEPT ![n] = file] /\ UNCHANGED <<durable, proc>>
  BY DEF Loosen
<1> HIDE DEF file
<1>5. names' \in [Names -> WholeFiles \cup {Nothing}]
  BY <1>2, <1>4 DEF IInv, TypeInv
<1>6. \A m \in Names : names'[m] = IF m = n THEN file ELSE names[m]
  BY <1>4 DEF IInv, TypeInv
<1>7. names[n] # Nothing
  BY DEF Loosen
<1> QED
  BY <1>2, <1>3, <1>4, <1>5, <1>6, <1>7 DEF Content

LEMMA LoosenStep ==
  ASSUME IInv, NEW n \in Names, Loosen(n) PROVE IInv'
<1>1. TypeInv'
  <2>1. faults' \in Nat
    BY DEF Loosen, Fault, IInv, TypeInv
  <2>2. names' \in [Names -> WholeFiles \cup {Nothing}] /\ UNCHANGED <<durable, proc>>
    BY Loosened
  <2> QED
    BY <2>1, <2>2 DEF IInv, TypeInv
<1>2. ASSUME NEW p \in Procs PROVE SaveInv(p)' /\ ReadInv(p)'
  <2>1. SaveInv(p)'
    BY Loosened DEF IInv, SaveInv
  <2>2. proc[p].todo \subseteq Names
    BY DEF IInv, TypeInv, Processes
  <2>3. ReadInv(p)'
    BY <2>2, Loosened DEF IInv, ReadInv, Readers
  <2> QED
    BY <2>1, <2>3
<1>3. WritersAreInvisible'
  BY Loosened DEF IInv, WritersAreInvisible
<1> QED
  BY <1>1, <1>2, <1>3 DEF IInv

-----------------------------------------------------------------------------
LEMMA StutterStep == IInv /\ UNCHANGED vars => IInv'
<1> SUFFICES ASSUME IInv, UNCHANGED vars PROVE IInv'
  OBVIOUS
<1>1. TypeInv' /\ WritersAreInvisible'
  BY DEF IInv, vars, TypeInv, WritersAreInvisible
<1>2. \A p \in Procs : SaveInv(p)' /\ ReadInv(p)'
  BY DEF IInv, vars, SaveInv, ReadInv
<1> QED
  BY <1>1, <1>2 DEF IInv

LEMMA IInvStep == IInv /\ [Next]_vars => IInv'
<1> SUFFICES ASSUME IInv, [Next]_vars PROVE IInv'
  OBVIOUS
<1>1. ASSUME NEW p \in Procs, NEW n \in Names,
             \/ \E v \in Values : CreateTemp(p, n, v)
             \/ BeginLoad(p, n) \/ Remove(p, n)
      PROVE  IInv'
  BY <1>1, CreateTempStep, BeginLoadStep, RemoveStep
<1>2. ASSUME NEW p \in Procs,
             \/ Write(p) \/ Sync(p) \/ SaveFails(p) \/ Rename(p)
             \/ ReadDir(p) \/ ListNext(p) \/ Stat(p) \/ Open(p) \/ Read(p)
             \/ Kill(p)
      PROVE  IInv'
  <2>1. CASE SaveFails(p)
    <3>1. Return(p, "save error") /\ UNCHANGED <<names, durable>> /\ faults' \in Nat
      BY <2>1 DEF SaveFails, IInv, TypeInv
    <3> QED
      BY <3>1, ReturnStep
  <2> QED
    BY <1>2, <2>1, WriteStep, SyncStep, RenameStep, ReadDirStep, ListNextStep,
       StatStep, OpenStep, ReadStep, KillStep
<1>3. ASSUME NEW n \in Names, WriteBack(n) \/ Loosen(n) PROVE IInv'
  BY <1>3, WriteBackStep, LoosenStep
<1> QED
  BY <1>1, <1>2, <1>3, PowerLossStep, StutterStep DEF Next

\* Named files are whole and synced, and readers find what they have seen.
THEOREM Inductive == Spec => []IInv
  BY IInvInit, IInvStep, PTL DEF Spec

\* No save, finished, failed or killed, and no power loss is seen by a reader.
THEOREM SavesAreInvisible == Spec => []WritersAreInvisible
  BY Inductive, PTL DEF IInv

-----------------------------------------------------------------------------
(* The files implement the register.                                       *)

LEMMA RegisterStep == IInv /\ [Next]_vars => [Register!RegisterNext]_(Register!registerVars)
<1> SUFFICES ASSUME IInv, [Next]_vars
             PROVE  [Register!RegisterNext]_(Register!registerVars)
  OBVIOUS
<1> USE DEF Register!RegisterNext, Register!registerVars
<1>1. ASSUME \A n \in Names : Content(names'[n]) = Content(names[n]),
             UNCHANGED durable
      PROVE  UNCHANGED Register!registerVars
  BY <1>1
<1>2. ASSUME NEW p \in Procs, Rename(p) PROVE Register!RegisterNext
  <2> DEFINE n == proc[p].name
             v == proc[p].value
  <2>1. n \in Names /\ v \in Values /\ proc[p].file = File(v, TRUE)
    BY <1>2 DEF Rename, At, IInv, SaveInv
  <2>2. File(v, TRUE) # Nothing /\ File(v, TRUE).text = v
    BY <2>1, FileTypes DEF WholeFiles, File
  <2>3. names' = [names EXCEPT ![n] = File(v, TRUE)] /\ UNCHANGED durable
    BY <1>2, <2>1 DEF Rename
  <2> HIDE DEF n, v
  <2>4. [m \in Names |-> Content(names'[m])]
          = [[m \in Names |-> Content(names[m])] EXCEPT ![n] = v]
    BY <2>1, <2>2, <2>3 DEF IInv, TypeInv, Content
  <2>5. Register!Put(n)
    BY <2>1, <2>3, <2>4 DEF Register!Put
  <2> QED
    BY <2>1, <2>5
<1>3. ASSUME NEW p \in Procs, NEW n \in Names, Remove(p, n)
      PROVE  Register!RegisterNext
  <2>1. names' = [names EXCEPT ![n] = Nothing] /\ UNCHANGED durable
    BY <1>3 DEF Remove
  <2>2. [m \in Names |-> Content(names'[m])]
          = [[m \in Names |-> Content(names[m])] EXCEPT ![n] = Nothing]
    BY <2>1 DEF IInv, TypeInv, Content
  <2>3. Register!Drop(n)
    BY <2>1, <2>2 DEF Register!Drop
  <2> QED
    BY <2>3
<1>4. ASSUME NEW n \in Names, WriteBack(n) PROVE Register!RegisterNext
  <2>1. durable' = [durable EXCEPT ![n] = names[n]] /\ UNCHANGED names
    BY <1>4 DEF WriteBack
  <2>2. [m \in Names |-> Content(durable'[m])]
          = [[m \in Names |-> Content(durable[m])] EXCEPT ![n] = Content(names[n])]
    BY <2>1 DEF IInv, TypeInv
  <2>3. Register!Keep(n)
    BY <2>1, <2>2 DEF Register!Keep
  <2> QED
    BY <2>3
<1>5. CASE PowerLoss
  <2>1. \A n \in Names : Content(names'[n]) \in {Content(names[n]), Content(durable[n])}
    BY <1>5, NothingTorn
  <2>2. Register!FallBack
    BY <1>5, <2>1, NothingTorn DEF Register!FallBack
  <2> QED
    BY <2>2
<1>6. ASSUME NEW n \in Names, Loosen(n) PROVE UNCHANGED Register!registerVars
  BY <1>1, <1>6, Loosened
<1>7. ASSUME NEW p \in Procs, NEW n \in Names,
             (\E v \in Values : CreateTemp(p, n, v)) \/ BeginLoad(p, n)
      PROVE  UNCHANGED Register!registerVars
  BY <1>1, <1>7 DEF CreateTemp, BeginLoad
<1>8. ASSUME NEW p \in Procs,
             \/ Write(p) \/ Sync(p) \/ SaveFails(p) \/ ReadDir(p)
             \/ ListNext(p) \/ Stat(p) \/ Open(p) \/ Read(p) \/ Kill(p)
      PROVE  UNCHANGED Register!registerVars
  BY <1>1, <1>8 DEF Write, Sync, SaveFails, ReadDir, ListNext, Stat, Open, Read, Kill
<1>9. CASE UNCHANGED vars
  BY <1>1, <1>9 DEF vars
<1> QED
  BY <1>2, <1>3, <1>4, <1>5, <1>6, <1>7, <1>8, <1>9 DEF Next

\* Whatever is killed or loses power, a name holds nothing or one whole saved
\* value, and changes in one step: the files are a register.
THEOREM FilesAreARegister == Spec => ImplementsRegister
<1>1. Init => Register!RegisterInit
  BY DEF Init, Register!RegisterInit, Content
<1> QED
  BY <1>1, RegisterStep, Inductive, PTL
     DEF Spec, ImplementsRegister, Register!RegisterSpec
=============================================================================
