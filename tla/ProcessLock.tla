------------------------------ MODULE ProcessLock ------------------------------
(***************************************************************************)
(* The single-instance lock of the daemon (daemon.rs: prepare,             *)
(* check_legacy_lock, try_acquire_lock, LockGuard).  Several processes     *)
(* start, run, end and die over one lock path.  Every system call on that  *)
(* path is a step of its own: between the read of a lock, the look at its  *)
(* pid and its removal other processes act.                                *)
(*                                                                         *)
(* A process creates the file at most once, so a file is named by the      *)
(* process that created it; it stays that process's file when the path is  *)
(* unlinked under it, which is where a late write of the pid goes.         *)
(* The path of the pre-rename program is held by one external process that *)
(* is there from the start or not at all.                                  *)
(***************************************************************************)
EXTENDS Naturals, FiniteSets

CONSTANTS
  Procs,   \* process instances; each starts once
  NoFile   \* no file at the path, and no pid recorded

ASSUME NoFileAssumption == NoFile \notin Procs

VARIABLES
  path,      \* the file at PROCESS_LOCK_PATH
  written,   \* the files that hold their creator's pid
  pc,        \* where each process is
  recorded,  \* the pid a process has read from the lock
  legacy,    \* the pre-rename process: "none", "running", or "dead" with its lock left behind
  legacyFile,\* LEGACY_PROCESS_LOCK_PATH: "absent", "pid" or "garbage"
  stolen,    \* history: a removal unlinked a file that was not the one meant
  overlapped \* history: two processes were in prepare at the same time

vars == <<path, written, pc, recorded, legacy, legacyFile, stolen, overlapped>>

Preparing == {"legacy", "unlinkLegacy", "creating", "writing", "reading", "checking", "removing"}
Steps == {"unborn", "running", "ending", "gone"} \cup Preparing

In(states) == {p \in Procs : pc[p] \in states}
Alive(p) == pc[p] \in Preparing \cup {"running", "ending"}

Init ==
  /\ path = NoFile /\ written = {}
  /\ pc = [p \in Procs |-> "unborn"]
  /\ recorded = [p \in Procs |-> NoFile]
  /\ \/ legacy = "none" /\ legacyFile \in {"absent", "garbage"}
     \/ legacy \in {"running", "dead"} /\ legacyFile = "pid"
  /\ stolen = FALSE /\ overlapped = FALSE

Goto(p, next) == pc' = [pc EXCEPT ![p] = next]
Refuse(p) == Goto(p, "gone")

-----------------------------------------------------------------------------
(***************************************************************************)
(* check_legacy_lock                                                       *)
(***************************************************************************)
Start(p) ==
  /\ pc[p] = "unborn"
  /\ Goto(p, "legacy")
  /\ overlapped' = (overlapped \/ In(Preparing) # {})
  /\ UNCHANGED <<path, written, recorded, legacy, legacyFile, stolen>>

(* Mutant: the legacy pid is not looked up. *)
CheckLegacyParsesOnly(p) ==
  /\ pc[p] = "legacy"
  /\ \/ legacyFile = "absent" /\ Goto(p, "creating")
     \/ legacyFile = "garbage" /\ Refuse(p)
     \/ legacyFile = "pid" /\ Goto(p, "unlinkLegacy")
  /\ UNCHANGED <<path, written, recorded, legacy, legacyFile, stolen, overlapped>>

(* The read of the legacy lock and the lookup of its pid, as one step.  A  *)
(* recorded pid that is dead may belong to a new process by now.           *)
CheckLegacyLock(p) ==
  /\ pc[p] = "legacy"
  /\ \/ legacyFile = "absent" /\ Goto(p, "creating")
     \/ legacyFile = "garbage" /\ Refuse(p)
     \/ legacyFile = "pid" /\ Refuse(p)
     \/ legacyFile = "pid" /\ legacy # "running" /\ Goto(p, "unlinkLegacy")
  /\ UNCHANGED <<path, written, recorded, legacy, legacyFile, stolen, overlapped>>

UnlinkLegacy(p) ==
  /\ pc[p] = "unlinkLegacy"
  /\ \/ legacyFile # "absent" /\ legacyFile' = "absent" /\ Goto(p, "creating")
     \/ Refuse(p) /\ UNCHANGED legacyFile
  /\ UNCHANGED <<path, written, recorded, legacy, stolen, overlapped>>

(* Mutant: the file is opened with create instead of create_new. *)
CreateOrOpen(p) ==
  /\ pc[p] = "creating"
  /\ path' = p /\ Goto(p, "writing")
  /\ UNCHANGED <<written, recorded, legacy, legacyFile, stolen, overlapped>>

-----------------------------------------------------------------------------
(***************************************************************************)
(* try_acquire_lock                                                        *)
(***************************************************************************)
(* open(create_new) may also fail for another reason, as any call below. *)
Create(p) ==
  /\ pc[p] = "creating"
  /\ \/ path = NoFile /\ path' = p /\ Goto(p, "writing")
     \/ path # NoFile /\ Goto(p, "reading") /\ UNCHANGED path
     \/ Refuse(p) /\ UNCHANGED path
  /\ UNCHANGED <<written, recorded, legacy, legacyFile, stolen, overlapped>>

(* The guard exists only after the pid is written: a failed write leaves   *)
(* the empty file behind.                                                  *)
WritePid(p) ==
  /\ pc[p] = "writing"
  /\ \/ written' = written \cup {p} /\ Goto(p, "running")
     \/ Refuse(p) /\ UNCHANGED written
  /\ UNCHANGED <<path, recorded, legacy, legacyFile, stolen, overlapped>>

(* Mutant: a lock that cannot be parsed is taken for one of a dead process. *)
ReadLockLenient(p) ==
  /\ pc[p] = "reading" /\ path # NoFile
  /\ recorded' = [recorded EXCEPT ![p] = path]
  /\ Goto(p, "checking")
  /\ UNCHANGED <<path, written, legacy, legacyFile, stolen, overlapped>>

ReadLock(p) ==
  /\ pc[p] = "reading"
  /\ \/ path \in written /\ recorded' = [recorded EXCEPT ![p] = path] /\ Goto(p, "checking")
     \/ Refuse(p) /\ UNCHANGED recorded
  /\ UNCHANGED <<path, written, legacy, legacyFile, stolen, overlapped>>

(* Mutant: the recorded pid is not looked up. *)
CheckPidSkipped(p) ==
  /\ pc[p] = "checking" /\ Goto(p, "removing")
  /\ UNCHANGED <<path, written, recorded, legacy, legacyFile, stolen, overlapped>>

CheckPid(p) ==
  /\ pc[p] = "checking"
  /\ \/ Refuse(p)
     \/ ~Alive(recorded[p]) /\ Goto(p, "removing")
  /\ UNCHANGED <<path, written, recorded, legacy, legacyFile, stolen, overlapped>>

(* Mutant: the result of remove_file is ignored. *)
RemoveIgnoringErrors(p) ==
  /\ pc[p] = "removing" /\ Goto(p, "creating")
  /\ recorded' = [recorded EXCEPT ![p] = NoFile]
  /\ path' \in {path, NoFile}
  /\ stolen' = (stolen \/ (path' # path /\ path # recorded[p]))
  /\ UNCHANGED <<written, legacy, legacyFile, overlapped>>

RemoveStale(p) ==
  /\ pc[p] = "removing"
  /\ \/ /\ path # NoFile
        /\ path' = NoFile /\ Goto(p, "creating")
        /\ stolen' = (stolen \/ path # recorded[p])
        /\ recorded' = [recorded EXCEPT ![p] = NoFile]
     \/ Refuse(p) /\ UNCHANGED <<path, recorded, stolen>>
  /\ UNCHANGED <<written, legacy, legacyFile, overlapped>>

-----------------------------------------------------------------------------
(***************************************************************************)
(* The end of a process                                                    *)
(***************************************************************************)

(* LockGuard::drop removes whatever is at the path, after the runtime. *)
DropGuard(p) ==
  /\ pc[p] = "running"
  /\ path' = NoFile
  /\ stolen' = (stolen \/ path \notin {p, NoFile})
  /\ Goto(p, "ending")
  /\ UNCHANGED <<written, recorded, legacy, legacyFile, overlapped>>

Exit(p) ==
  /\ pc[p] = "ending"
  /\ Goto(p, "gone")
  /\ UNCHANGED <<path, written, recorded, legacy, legacyFile, stolen, overlapped>>

Crash(p) ==
  /\ Alive(p)
  /\ Goto(p, "gone")
  /\ UNCHANGED <<path, written, recorded, legacy, legacyFile, stolen, overlapped>>

LegacyEnds ==
  /\ legacy = "running"
  /\ \/ legacy' = "none" /\ legacyFile' = "absent"
     \/ legacy' = "dead" /\ UNCHANGED legacyFile
  /\ UNCHANGED <<path, written, pc, recorded, stolen, overlapped>>

Prepare(p) == \/ CheckLegacyLock(p) \/ UnlinkLegacy(p)
              \/ Create(p) \/ WritePid(p) \/ ReadLock(p) \/ CheckPid(p) \/ RemoveStale(p)

Next == \/ \E p \in Procs : Start(p) \/ Prepare(p) \/ DropGuard(p) \/ Exit(p) \/ Crash(p)
        \/ LegacyEnds

(* A process that prepares goes on until it runs or is refused. *)
Fairness == \A p \in Procs : WF_vars(Prepare(p))

Spec == Init /\ [][Next]_vars /\ Fairness

-----------------------------------------------------------------------------
(***************************************************************************)
(* Properties                                                              *)
(***************************************************************************)
Running == In({"running"})
AtMostOneRuns == \A p, q \in Running : p = q

(* Every variable in its type, and a process that is about to check or     *)
(* remove a lock knows a pid to do it for (try_acquire_lock).              *)
TypeOK ==
  /\ path \in Procs \cup {NoFile} /\ written \subseteq Procs
  /\ pc \in [Procs -> Steps]
  /\ recorded \in [Procs -> Procs \cup {NoFile}]
  /\ \A p \in In({"checking", "removing"}) : recorded[p] \in written
  /\ legacy \in {"none", "running", "dead"}
  /\ legacyFile \in {"absent", "pid", "garbage"}
  /\ stolen \in BOOLEAN /\ overlapped \in BOOLEAN

(* The ways around the single-instance guarantee are all of one kind: two  *)
(* relays run only after a removal unlinked a file other than the one it   *)
(* was decided for (remove_file after the checks, LockGuard::drop).        *)
ExclusiveUnlessStolen == ~stolen => AtMostOneRuns

(* Starts that never overlap keep the guarantee, whatever crashes, failed  *)
(* writes and exits lie between them, and so no lock is ever stolen.       *)
ExclusiveWithoutOverlap == ~overlapped => AtMostOneRuns /\ ~stolen

(* No relay runs beside a pre-rename process (check_legacy_lock).          *)
NeverBesideLegacy == legacy = "running" => Running = {}

(* A lock that names no process, left by a crash or a failed write between *)
(* its creation and the pid, is never cleared: starts fail closed from     *)
(* then on, until an operator removes it.  The exception is a removal      *)
(* decided for an earlier file.                                            *)
AmbiguousLockStays ==
  [][path # NoFile /\ path \notin written /\ ~Alive(path) /\ ~stolen' => path' = path]_vars

(* Every start is decided: the loop over a stale lock ends although a      *)
(* removal may fail every time ("abort instead of spinning").              *)
StartIsDecided == \A p \in Procs : pc[p] \in Preparing ~> pc[p] \notin Preparing

(* README: "Lockfile mechanism prevents multiple relay instances".         *)
LockPreventsMultipleInstances == AtMostOneRuns
===============================================================================
