------------------------------ MODULE RoleLock ------------------------------
(***************************************************************************)
(* The role lock of runtime/operating_system.py: one file with a row for   *)
(* each role, taken for a time, and the daemons that run under it.         *)
(*                                                                         *)
(* Both roles share the file.  Taking and releasing a row read the whole   *)
(* file, write a temporary one, always of the same name, and move it into  *)
(* place.  Times are what is left of a row, so that a tick shortens them   *)
(* wherever a copy of the file is.                                         *)
(***************************************************************************)
EXTENDS Naturals

CONSTANTS
    Ops, Research,  \* processes started for either role
    Renewing,       \* those that run the perpetual loop; the rest the daemon command
    Ttl,            \* ticks a lease is given for
    Nobody,         \* the holder of a row that is not there
    NoFile,         \* the temporary file is not there
    MaxCrashes      \* bound: processes killed

Process == Ops \cup Research
Role == {"ops", "research"}
RoleOf(p) == IF p \in Ops THEN "ops" ELSE "research"

Row == [holder : Process \cup {Nobody}, left : 0..Ttl]
Free == [holder |-> Nobody, left |-> 0]
Table == [Role -> Row]

ASSUME LockAssumption ==
    /\ Ops \cap Research = {}
    /\ Renewing \subseteq Process
    /\ Nobody \notin Process
    /\ NoFile \notin Table
    /\ Ttl \in Nat \ {0}
    /\ MaxCrashes \in Nat

VARIABLES
    locks,      \* server_role_locks.json
    tmp,        \* server_role_locks.tmp, shared by all who write
    seen,       \* what each process is about to write
    pc,         \* where each process stands
    lease,      \* what is left of the lease each process was given
    crashes,    \* processes killed so far
    overlapped  \* two processes have read and written at the same time

vars == <<locks, tmp, seen, pc, lease, crashes, overlapped>>

Storing == {"take_tmp", "take_move", "free_tmp", "free_move"}
Place == Storing \cup {"out", "running", "gone"}

Nothing == [r \in Role |-> Free]
GoTo(p, place) == pc' = [pc EXCEPT ![p] = place]
Forget(p) == seen' = [seen EXCEPT ![p] = Nothing]
MyRow(p) == locks[RoleOf(p)]

\* A process reads the file while another has read it and not yet stored it.
NotesOverlap(p) ==
    overlapped' = (overlapped \/ \E q \in Process \ {p} : pc[q] \in Storing)

-----------------------------------------------------------------------------
(* Mistakes the code could have made, each in place of the definition it is   *)
(* named after.  No action uses them.                                         *)

\* Never lets a row run out.
HeldByOther_Forever(p) == MyRow(p).holder \notin {p, Nobody}

\* Releases the row of its role, whoever holds it.
FreeReads_Any(p) ==
    /\ pc[p] = "running"
    /\ lease' = [lease EXCEPT ![p] = 0]
    /\ seen' = [seen EXCEPT ![p] = [locks EXCEPT ![RoleOf(p)] = Free]]
    /\ GoTo(p, "free_tmp")
    /\ NotesOverlap(p)
    /\ UNCHANGED <<locks, tmp, crashes>>

-----------------------------------------------------------------------------
(* try_acquire_role_lock: first to start, then again before every step of the *)
(* perpetual loop; the daemon command takes the lock once.                    *)

\* The row is another's and has not run out.
HeldByOther(p) == MyRow(p).left > 0 /\ MyRow(p).holder # p

TakeReads(p) ==
    /\ pc[p] = "out" \/ (pc[p] = "running" /\ p \in Renewing)
    /\ ~HeldByOther(p)
    /\ seen' = [seen EXCEPT ![p] = [locks EXCEPT ![RoleOf(p)] = [holder |-> p, left |-> Ttl]]]
    /\ GoTo(p, "take_tmp")
    /\ NotesOverlap(p)
    /\ UNCHANGED <<locks, tmp, lease, crashes>>

\* The perpetual loop finds its role taken and waits; a process that has not
\* started yet does the same, or is started again later.
RenewalRefused(p) ==
    /\ pc[p] = "running" /\ p \in Renewing
    /\ HeldByOther(p)
    /\ GoTo(p, "out")
    /\ lease' = [lease EXCEPT ![p] = 0]
    /\ UNCHANGED <<locks, tmp, seen, crashes, overlapped>>

TakeWritesTmp(p) ==
    /\ pc[p] = "take_tmp"
    /\ tmp' = seen[p]
    /\ GoTo(p, "take_move")
    /\ UNCHANGED <<locks, seen, lease, crashes, overlapped>>

TakeMovesTmp(p) ==
    /\ pc[p] = "take_move"
    /\ tmp # NoFile
    /\ locks' = tmp
    /\ tmp' = NoFile
    /\ lease' = [lease EXCEPT ![p] = seen[p][RoleOf(p)].left]
    /\ GoTo(p, "running") /\ Forget(p)
    /\ UNCHANGED <<crashes, overlapped>>

\* Another has moved the temporary file away: the replace raises and nothing
\* catches it.
MoveFails(p) ==
    /\ pc[p] \in {"take_move", "free_move"}
    /\ tmp = NoFile
    /\ GoTo(p, "out") /\ Forget(p)
    /\ lease' = [lease EXCEPT ![p] = 0]
    /\ UNCHANGED <<locks, tmp, crashes, overlapped>>

-----------------------------------------------------------------------------
(* release_role_lock: after the last cycle, or on a keyboard interrupt *)

FreeReads(p) ==
    /\ pc[p] = "running"
    /\ lease' = [lease EXCEPT ![p] = 0]
    /\ IF MyRow(p).holder = p
       THEN /\ seen' = [seen EXCEPT ![p] = [locks EXCEPT ![RoleOf(p)] = Free]]
            /\ GoTo(p, "free_tmp")
            /\ NotesOverlap(p)
       ELSE GoTo(p, "out") /\ UNCHANGED <<seen, overlapped>>
    /\ UNCHANGED <<locks, tmp, crashes>>

FreeWritesTmp(p) ==
    /\ pc[p] = "free_tmp"
    /\ tmp' = seen[p]
    /\ GoTo(p, "free_move")
    /\ UNCHANGED <<locks, seen, lease, crashes, overlapped>>

FreeMovesTmp(p) ==
    /\ pc[p] = "free_move"
    /\ tmp # NoFile
    /\ locks' = tmp
    /\ tmp' = NoFile
    /\ GoTo(p, "out") /\ Forget(p)
    /\ UNCHANGED <<lease, crashes, overlapped>>

-----------------------------------------------------------------------------

Shorter(n) == IF n = 0 THEN 0 ELSE n - 1
Aged(table) == [r \in Role |-> [table[r] EXCEPT !.left = Shorter(@)]]

\* Time passes for every copy of the file, and for the lease of whoever works.
Tick ==
    /\ \/ \E r \in Role : locks[r].left > 0
       \/ \E p \in Process : lease[p] > 0 \/ pc[p] \in Storing
    /\ locks' = Aged(locks)
    /\ tmp' = IF tmp = NoFile THEN NoFile ELSE Aged(tmp)
    /\ seen' = [p \in Process |-> Aged(seen[p])]
    /\ lease' = [p \in Process |-> Shorter(lease[p])]
    /\ UNCHANGED <<pc, crashes, overlapped>>

\* Killed without the interrupt that would release the row.  Started again it has
\* another pid, and so is another process.
Crash(p) ==
    /\ pc[p] # "gone"
    /\ crashes < MaxCrashes
    /\ crashes' = crashes + 1
    /\ GoTo(p, "gone") /\ Forget(p)
    /\ lease' = [lease EXCEPT ![p] = 0]
    /\ UNCHANGED <<locks, tmp, overlapped>>

Init ==
    /\ locks = Nothing
    /\ tmp = NoFile
    /\ seen = [p \in Process |-> Nothing]
    /\ pc = [p \in Process |-> "out"]
    /\ lease = [p \in Process |-> 0]
    /\ crashes = 0
    /\ overlapped = FALSE

\* What a process does once it has read the file.
Stores(p) ==
    \/ TakeWritesTmp(p) \/ TakeMovesTmp(p)
    \/ FreeWritesTmp(p) \/ FreeMovesTmp(p)
    \/ MoveFails(p)

Next ==
    \/ \E p \in Process :
          TakeReads(p) \/ RenewalRefused(p) \/ FreeReads(p) \/ Stores(p) \/ Crash(p)
    \/ Tick

Spec == Init /\ [][Next]_vars

\* A process that is not running is started again (systemd restarts it, the
\* perpetual loop retries) and stores what it has begun; time passes.
FairSpec ==
    /\ Spec
    /\ \A p \in Process : /\ WF_vars(TakeReads(p) /\ pc[p] = "out")
                          /\ WF_vars(Stores(p))
    /\ WF_vars(Tick)

-----------------------------------------------------------------------------
(* Properties *)

\* Every variable keeps its type; only a process that runs, or that is renewing,
\* has a lease, and what it is about to store is made out to it.
TypeOK ==
    /\ locks \in Table
    /\ tmp \in Table \cup {NoFile}
    /\ seen \in [Process -> Table]
    /\ pc \in [Process -> Place]
    /\ lease \in [Process -> 0..Ttl]
    /\ \A p \in Process :
          /\ lease[p] > 0 => pc[p] \in {"running", "take_tmp", "take_move"}
          /\ pc[p] \in {"take_tmp", "take_move"} => seen[p][RoleOf(p)].holder = p
    /\ crashes \in 0..MaxCrashes
    /\ overlapped \in BOOLEAN

\* Both have been told the lock is theirs and neither lease has run out.
BothHold(p, q) ==
    p # q /\ RoleOf(p) = RoleOf(q) /\ pc[p] = "running" /\ pc[q] = "running"

\* As long as no two processes read and wrote the file at the same time, two
\* daemons of one role never both run on leases that last: not through renewals,
\* releases of the other role in the same file, crashes or restarts.
LeaseExcludes ==
    ~overlapped => \A p, q \in Process : BothHold(p, q) => lease[p] = 0 \/ lease[q] = 0

\* A role is never left without a daemon for good: the row of a killed one runs
\* out and another process takes it, unless all are killed or they move the
\* temporary file away from each other for ever.
RoleIsServed ==
    \A r \in Role : \/ []<>(\E p \in Process : RoleOf(p) = r /\ pc[p] = "running")
                   \/ <>(\A p \in Process : RoleOf(p) = r => pc[p] = "gone")
                   \/ []<><<\E p \in Process : MoveFails(p)>>_vars

-----------------------------------------------------------------------------
(* The leases this file gives *)

Colleagues == [p \in Process |-> {q \in Process \ {p} : RoleOf(q) = RoleOf(p)}]

Leases == INSTANCE Lease WITH
              Client <- Process, Rivals <- Colleagues, Span <- Ttl,
              left <- lease, spoiled <- overlapped

\* Read as leases, what the processes were told of the file never gives one to a
\* daemon while another of its role has one that lasts, nor does a lease last
\* longer than it was given for, as long as no two processes read and wrote the
\* file at once: though the rows are read long before they are moved into place,
\* the other role writes the same file, and processes are killed on the way.
ImplementsLease == Leases!Spec

=============================================================================
