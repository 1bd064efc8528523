------------------------------ MODULE VDServer ------------------------------
(***************************************************************************)
(* What the clients of a mounted image see of vdfuse: files backed by one  *)
(* table of partitions.  The table may only change while no file is open;  *)
(* the first open fixes the view that every later open and transfer is     *)
(* served from, until the last close.  Nothing is said of locks, counts,   *)
(* flags and threads inside callbacks.                                     *)
(***************************************************************************)
EXTENDS Integers

CONSTANTS
    Handles,   \* open file descriptions
    Workers,   \* who may have a transfer in progress
    Files,     \* the files a table describes
    Tables,    \* the tables: file -> [no, offset, size]
    Closed,    \* what a handle is on that is not open
    Nothing,   \* the view while no file is open
    Idle       \* the transfer of a worker that has none

VARIABLES
    held,      \* the file each handle is open on
    view,      \* the table clients are served from
    busy,      \* the transfer of each worker
    disk,      \* the table that sector 0 describes
    good,      \* whether sector 0 could be read the last time
    state      \* "running", "closed" or "exited"

vars == <<held, view, busy, disk, good, state>>

NoneHeld == \A h \in Handles : held[h] = Closed
Quiet    == \A w \in Workers : busy[w] = Idle

Init ==
    /\ held = [h \in Handles |-> Closed]
    /\ view = Nothing
    /\ busy = [w \in Workers |-> Idle]
    /\ disk \in Tables
    /\ good \in BOOLEAN
    /\ state = "running"

\* The first open takes the view from sector 0, or from anything when it could
\* not be read; a later one keeps it.
Open(h, f) ==
    /\ state = "running"
    /\ held[h] = Closed
    /\ held' = [held EXCEPT ![h] = f]
    /\ view' \in IF ~NoneHeld THEN {view} ELSE IF good THEN {disk} ELSE Tables
    /\ UNCHANGED <<busy, disk, good, state>>

Close(h) ==
    /\ state = "running"
    /\ held[h] # Closed
    /\ \A w \in Workers : busy[w].h # h
    /\ held' = [held EXCEPT ![h] = Closed]
    /\ view' = IF \A g \in Handles \ {h} : held[g] = Closed THEN Nothing ELSE view
    /\ UNCHANGED <<busy, disk, good, state>>

\* Units a .. a + n - 1 of the disk lie inside entry p.
Inside(a, n, p) == p.offset <= a /\ a + n <= p.offset + p.size

\* A transfer: through which handle, from which unit, how many, and whether it
\* writes.
Transfer == [h : Handles, start : Nat, len : Nat, wr : BOOLEAN]

\* A transfer x begins: not empty, and inside the file as the view has it.
Begin(w) ==
    LET x == busy'[w]
    IN  /\ state = "running"
        /\ busy[w] = Idle
        /\ x \in Transfer
        /\ held[x.h] # Closed
        /\ view[held[x.h]].no = held[x.h]
        /\ x.len > 0 /\ Inside(x.start, x.len, view[held[x.h]])
        /\ busy' = [busy EXCEPT ![w] = x]
        /\ UNCHANGED <<held, view, disk, good, state>>

\* It ends; only a write that starts at unit 0 changes what sector 0 describes.
Finish(w) ==
    /\ state = "running"
    /\ busy[w] # Idle
    /\ busy' = [busy EXCEPT ![w] = Idle]
    /\ disk' \in IF busy[w].wr /\ busy[w].start = 0 THEN Tables ELSE {disk}
    /\ UNCHANGED <<held, view, good, state>>

\* Sector 0 is read again, well or badly, only while no file is open.
Reread ==
    /\ state = "running"
    /\ NoneHeld
    /\ good' \in BOOLEAN
    /\ UNCHANGED <<held, view, busy, disk, state>>

\* The daemon gives up on a table it does not know only while no file is open,
\* and an unmount waits for the transfers in progress.
Exit ==
    /\ state = "running"
    /\ NoneHeld /\ Quiet
    /\ state' = "exited"
    /\ UNCHANGED <<held, view, busy, disk, good>>

Unmount ==
    /\ state = "running"
    /\ Quiet
    /\ state' = "closed"
    /\ UNCHANGED <<held, view, busy, disk, good>>

Next ==
    \/ \E h \in Handles : (\E f \in Files : Open(h, f)) \/ Close(h)
    \/ \E w \in Workers : Begin(w) \/ Finish(w)
    \/ Reread \/ Exit \/ Unmount

Spec == Init /\ [][Next]_vars
=============================================================================
