------------------------------ MODULE FileStore ------------------------------
(***************************************************************************)
(* The owner-only files of gozillo: search and property cache entries      *)
(* (cli/disk_cache.go) and browser sessions (session/session.go).  Several *)
(* processes use one directory; each may be killed at any step, and the    *)
(* machine may lose power.  The cache only saves and loads; sessions are   *)
(* listed and removed as well.  A file is a record, since none changes     *)
(* after it got its name; a temporary file is known to its process alone,  *)
(* and one that a killed process leaves behind is never read.              *)
(***************************************************************************)
EXTENDS Integers

CONSTANTS Procs, Names, Values,
          MaxFaults,   \* bound on kills, power losses and loosened modes
          Nothing

VARIABLES names,     \* the directory as a process sees it: name to file
          durable,   \* the directory as the disk has it
          proc,      \* what each process is doing
          faults

\* Nothing is no file.
ASSUME FileStoreAssumption ==
    /\ Nothing \notin [text : Values \cup {"empty"}, synced : BOOLEAN, broad : BOOLEAN]
    /\ MaxFaults \in Nat

vars == <<names, durable, proc, faults>>

File(text, synced) == [text |-> text, synced |-> synced, broad |-> FALSE]

Idle == [op |-> "idle", name |-> Nothing, step |-> "", file |-> Nothing,
         value |-> Nothing, todo |-> {}, disturbed |-> FALSE, result |-> ""]

Init ==
    /\ names = [n \in Names |-> Nothing] /\ durable = names
    /\ proc = [p \in Procs |-> Idle] /\ faults = 0

At(p, ops, step) == proc[p].op \in ops /\ proc[p].step = step

Go(p, record) == proc' = [proc EXCEPT ![p] = record]

Step(p, step) == Go(p, [proc[p] EXCEPT !.step = step])

\* A call returns.  Of its result only a read error is of interest.
Return(p, result) ==
    Go(p, IF result = "read error"
          THEN [Idle EXCEPT !.result = result, !.disturbed = proc[p].disturbed]
          ELSE Idle)

-----------------------------------------------------------------------------
(* Save: a temporary file is written, synced, closed and renamed.          *)

Saving(n, v) == [Idle EXCEPT !.op = "save", !.name = n, !.value = v,
                             !.step = "write", !.file = File("empty", FALSE)]

\* Arguments and directory are checked first; neither fails here.
CreateTemp(p, n, v) ==
    /\ proc[p].op = "idle"
    /\ Go(p, Saving(n, v))
    /\ UNCHANGED <<names, durable, faults>>

Write(p) ==
    /\ At(p, {"save"}, "write")
    /\ Go(p, [proc[p] EXCEPT !.step = "sync",
                             !.file = File(proc[p].value, FALSE)])
    /\ UNCHANGED <<names, durable, faults>>

SyncSkipped(p) ==
    /\ At(p, {"save"}, "sync")
    /\ Step(p, "rename")
    /\ UNCHANGED <<names, durable, faults>>

Sync(p) ==
    /\ At(p, {"save"}, "sync")
    /\ Go(p, [proc[p] EXCEPT !.step = "rename",
                             !.file = File(proc[p].value, TRUE)])
    /\ UNCHANGED <<names, durable, faults>>

SaveFailsRemovingEntry(p) ==
    /\ proc[p].op = "save"
    /\ names' = [names EXCEPT ![proc[p].name] = Nothing]
    /\ Return(p, "save error")
    /\ UNCHANGED <<durable, faults>>

\* A step may fail; the temporary file, perhaps half written, is removed.
SaveFails(p) ==
    /\ proc[p].op = "save"
    /\ Return(p, "save error")
    /\ UNCHANGED <<names, durable, faults>>

Rename(p) ==
    /\ At(p, {"save"}, "rename")
    /\ names' = [names EXCEPT ![proc[p].name] = proc[p].file]
    /\ Return(p, "saved")
    /\ UNCHANGED <<durable, faults>>

-----------------------------------------------------------------------------
(* Load: stat, then open, then read; List: one Load after another.         *)

Readers == {"load", "list"}

BeginLoad(p, n) ==
    /\ proc[p].op = "idle"
    /\ Go(p, [Idle EXCEPT !.op = "load", !.name = n, !.step = "stat"])
    /\ UNCHANGED <<names, durable, faults>>

\* os.ReadDir, of which only the .json files count.
ReadDir(p) ==
    /\ proc[p].op = "idle"
    /\ Go(p, [Idle EXCEPT !.op = "list", !.step = "next",
                          !.todo = {n \in Names : names[n] # Nothing}])
    /\ UNCHANGED <<names, durable, faults>>

ListNext(p) ==
    /\ At(p, {"list"}, "next")
    /\ IF proc[p].todo = {} THEN Return(p, "listed")
       ELSE \E n \in proc[p].todo :
               Go(p, [proc[p] EXCEPT !.name = n, !.step = "stat",
                                     !.todo = @ \ {n}])
    /\ UNCHANGED <<names, durable, faults>>

\* A missing file is a miss of the cache and an error of the session store,
\* one that others may read is refused by both.
Stat(p) ==
    LET file == names[proc[p].name] IN
    /\ At(p, Readers, "stat")
    /\ CASE file = Nothing -> Return(p, IF proc[p].op = "list" THEN "read error"
                                        ELSE "miss")
         [] file # Nothing /\ file.broad -> Return(p, "refused")
         [] OTHER -> Step(p, "open")
    /\ UNCHANGED <<names, durable, faults>>

Open(p) ==
    LET file == names[proc[p].name] IN
    /\ At(p, Readers, "open")
    /\ IF file = Nothing THEN Return(p, "read error")
       ELSE Go(p, [proc[p] EXCEPT !.step = "read", !.file = file])
    /\ UNCHANGED <<names, durable, faults>>

\* What does not decode is an error.  Whether a cache entry is young enough,
\* and of this version and key, decides between a hit and a miss.
Read(p) ==
    /\ At(p, Readers, "read")
    /\ CASE proc[p].file.text \notin Values -> Return(p, "read error")
         [] proc[p].file.text \in Values /\ proc[p].op = "list" ->
               Go(p, [proc[p] EXCEPT !.step = "next", !.name = Nothing,
                                     !.file = Nothing])
         [] OTHER -> Return(p, "hit or miss")
    /\ UNCHANGED <<names, durable, faults>>

\* A reader that has yet to read this name.
Disturbed(q, n) ==
    [proc[q] EXCEPT !.disturbed = @ \/ (proc[q].op \in Readers
                                       /\ n \in proc[q].todo \cup {proc[q].name})]

Remove(p, n) ==
    /\ proc[p].op = "idle"
    /\ names[n] # Nothing      \* else an error that changes nothing
    /\ names' = [names EXCEPT ![n] = Nothing]
    /\ proc' = [q \in Procs |-> IF q = p THEN Idle ELSE Disturbed(q, n)]
    /\ UNCHANGED <<durable, faults>>

-----------------------------------------------------------------------------
(* The environment.                                                        *)

WriteBack(n) ==
    /\ durable[n] # names[n]
    /\ durable' = [durable EXCEPT ![n] = names[n]]
    /\ UNCHANGED <<names, proc, faults>>

Fault == faults < MaxFaults /\ faults' = faults + 1

\* The deferred removal of the temporary file does not run.
Kill(p) ==
    /\ Fault /\ proc[p].op # "idle"
    /\ Go(p, Idle)
    /\ UNCHANGED <<names, durable>>

Torn(file) == IF file = Nothing \/ file.synced THEN file
              ELSE [file EXCEPT !.text = "torn"]

\* Every process ends, names fall back at will, content that was not synced
\* may be torn.
PowerLoss ==
    /\ Fault
    /\ \E back \in SUBSET Names :
          names' = [n \in Names |-> Torn(IF n \in back THEN durable[n]
                                         ELSE names[n])]
    /\ durable' = names'
    /\ proc' = [p \in Procs |-> Idle]

\* Somebody changes the mode of a file.
Loosen(n) ==
    /\ Fault /\ names[n] # Nothing
    /\ names' = [names EXCEPT ![n].broad = TRUE]
    /\ UNCHANGED <<durable, proc>>

Next ==
    \/ \E p \in Procs, n \in Names :
          (\E v \in Values : CreateTemp(p, n, v)) \/ BeginLoad(p, n) \/ Remove(p, n)
    \/ \E p \in Procs :
          \/ Write(p) \/ Sync(p) \/ SaveFails(p) \/ Rename(p)
          \/ ReadDir(p) \/ ListNext(p) \/ Stat(p) \/ Open(p) \/ Read(p)
          \/ Kill(p)
    \/ \E n \in Names : WriteBack(n) \/ Loosen(n)
    \/ PowerLoss

Spec == Init /\ [][Next]_vars

-----------------------------------------------------------------------------
\* A Load or List fails only because somebody removed what it was about to
\* read: a save that is under way, fails half way or dies with its process is
\* not to be seen.
WritersAreInvisible ==
    \A p \in Procs : proc[p].result = "read error" => proc[p].disturbed

Content(file) == IF file = Nothing THEN Nothing ELSE file.text

Register == INSTANCE NamedRegister WITH
    held <- [n \in Names |-> Content(names[n])],
    kept <- [n \in Names |-> Content(durable[n])]

\* The files are a register: whatever is killed or loses power, a name holds
\* nothing or one whole saved value, and changes in one step.
ImplementsRegister == Register!RegisterSpec
=============================================================================
