------------------------------ MODULE SocketFile ------------------------------
(***************************************************************************)
(* How a daemon comes to own the control socket's file and the panel's     *)
(* serial port, and how it gives them up (socket.rs, protocol.rs and       *)
(* run_daemon in main.rs), when others start, end or die at the same time. *)
(*                                                                         *)
(* The file at the socket's path is known by whose it is: a daemon that    *)
(* has it bound, or "stale" once that one is gone.  A guard remembers the  *)
(* device and inode of one file; "gone" are those of a file that is at the *)
(* path no more.  A bound socket holds on to its inode, so the numbers of  *)
(* a living daemon's file are no one else's.                               *)
(*                                                                         *)
(* A definition whose name ends in _Slip is the next one with a mistake in *)
(* it; see AppState.                                                       *)
(***************************************************************************)
EXTENDS Integers

CONSTANTS Daemons

ASSUME DaemonsAssumption ==
  Daemons \cap {"none", "stale", "gone", "probe"} = {}

VARIABLES
  at,        \* where each daemon is: see Places
  listening, \* those whose socket accepts connections
  file,      \* what is at the socket's path
  guard,     \* SocketGuard's identity, per daemon
  port,      \* who holds the lock of the serial device
  estranged  \* history: those whose start overlapped another's start, or its
             \* removal of a file; those there when a file was removed by hand

sockets == <<at, listening, file, guard, port, estranged>>

Starting == {"probing", "binding", "clearing", "bound", "spawning"}
DaemonPlaces == Starting \cup {"off", "opening", "up", "removing", "closing"}

Moves(d, from, to) == at[d] = from /\ at' = [at EXCEPT ![d] = to]

\* What is at the path is replaced or removed.
Put(f) ==
  /\ file' = f
  /\ guard' = [e \in Daemons |-> IF guard[e] = "stale" THEN "gone" ELSE guard[e]]

\* The process is gone, with its socket and its lock; its file is not.
Gone(d) ==
  /\ at' = [at EXCEPT ![d] = "off"]
  /\ listening' = listening \ {d}
  /\ file' = IF file = d THEN "stale" ELSE file
  /\ guard' = [e \in Daemons |->
       IF e = d THEN "none" ELSE IF guard[e] # d THEN guard[e]
       ELSE IF file = d THEN "stale" ELSE "gone"]
  /\ port' = IF port = d THEN "none" ELSE port
  /\ UNCHANGED estranged

-----------------------------------------------------------------------------
(* A daemon starts. *)

Launches(d) ==
  /\ Moves(d, "off", "probing")
  /\ LET others == {e \in Daemons \ {d} : at[e] \in Starting \cup {"removing"}} IN
     estranged' = (estranged \ {d}) \cup others
                  \cup (IF others = {} THEN {} ELSE {d})
  /\ UNCHANGED <<listening, file, guard, port>>

\* Whoever listens there is not asked for: StaysReachable.
Answered_Slip == FALSE

\* A connection to the path succeeds.
Answered == file \in listening

FindsNobody(d) ==
  /\ ~Answered /\ Moves(d, "probing", "binding")
  /\ UNCHANGED <<listening, file, guard, port, estranged>>

\* AddrInUse: a second instance must not start.
FindsAnother(d) == at[d] = "probing" /\ Answered /\ Gone(d)

\* bind_private: bound in a directory of its own and renamed into place.
BindsPrivately(d) ==
  /\ Moves(d, "binding", "bound") /\ Put(d)
  /\ listening' = listening \cup {d}
  /\ UNCHANGED <<port, estranged>>

\* Any other error: the daemon runs without a socket.
BindFails(d) ==
  /\ at[d] = "binding" /\ Moves(d, "binding", "opening")
  /\ UNCHANGED <<listening, file, guard, port, estranged>>

\* bind_in_place, where the staging path, with the pid in it, is too long.
ClearsPlace(d) ==
  /\ Moves(d, "binding", "clearing") /\ Put("none")
  /\ UNCHANGED <<listening, port, estranged>>

\* Binding fails as soon as there is a file, with AddrInUse as well.
BindsInPlace(d) ==
  /\ at[d] = "clearing"
  /\ \/ file # "none" /\ Gone(d)
     \/ /\ file = "none" /\ UNCHANGED <<port, estranged>>
        /\ \/ /\ Moves(d, "clearing", "bound") /\ Put(d)
              /\ listening' = listening \cup {d}
           \* The mode cannot be set: the file is removed again.
           \/ /\ Moves(d, "clearing", "opening")
              /\ UNCHANGED <<listening, file, guard>>

\* SocketGuard::new, the file being at the path already.
TakesIdentity(d) ==
  /\ Moves(d, "bound", "spawning")
  /\ guard' = [guard EXCEPT ![d] = file]
  /\ UNCHANGED <<listening, file, port, estranged>>

SpawnsAccept(d) ==
  /\ Moves(d, "spawning", "opening")
  /\ UNCHANGED <<listening, file, guard, port, estranged>>

\* The file is removed whoever has put it there since: StaysReachable.
Mine_Slip(d) == guard[d] # "none"

\* SocketGuard::drop asks whether the file is still the one it remembers.
Mine(d) == guard[d] # "none" /\ file = guard[d]

\* The accepting thread cannot start: the guard and the listener are dropped.
SpawnFails(d) ==
  /\ Moves(d, "spawning", "opening")
  /\ listening' = listening \ {d}
  /\ file' = IF Mine(d) THEN "none" ELSE IF file = d THEN "stale" ELSE file
  /\ guard' = [e \in Daemons |->
       IF e = d THEN "none"
       ELSE IF guard[e] = d \/ (Mine(d) /\ guard[e] = file) THEN "gone" ELSE guard[e]]
  /\ UNCHANGED <<port, estranged>>

\* Lcm::open, whose lock keeps a second process off the serial device.
OpensPort(d) ==
  /\ port = "none" /\ Moves(d, "opening", "up") /\ port' = d
  /\ UNCHANGED <<listening, file, guard, estranged>>

\* Busy, or no such device: exit(1) drops no guard.
PortFails(d) == at[d] = "opening" /\ Gone(d)

\* The probe subcommands hold the port while they run.
ProbeOpens ==
  /\ port = "none" /\ port' = "probe"
  /\ UNCHANGED <<at, listening, file, guard, estranged>>
ProbeEnds ==
  /\ port = "probe" /\ port' = "none"
  /\ UNCHANGED <<at, listening, file, guard, estranged>>

-----------------------------------------------------------------------------
(* A daemon ends. *)

\* The event loop has returned, or unwound, and the guard is dropped.
DropsGuard(d) ==
  /\ Moves(d, "up", IF Mine(d) THEN "removing" ELSE "closing")
  /\ estranged' = IF Mine(d) THEN estranged \cup {e \in Daemons : at[e] \in Starting}
                  ELSE estranged
  /\ UNCHANGED <<listening, file, guard, port>>

\* remove_file, whatever is there by now.
RemovesFile(d) ==
  /\ Moves(d, "removing", "closing") /\ Put("none")
  /\ UNCHANGED <<listening, port, estranged>>

\* The fans are handed back and so on; then the process ends.
Exits(d) == at[d] = "closing" /\ Gone(d)

\* It is killed, panics before its loop, or exits as something else fails.
Crashes(d) == at[d] # "off" /\ Gone(d)

\* Someone removes the file.
Unlinks ==
  /\ file # "none" /\ Put("none")
  /\ estranged' = {d \in Daemons : at[d] # "off"}
  /\ UNCHANGED <<at, listening, port>>

-----------------------------------------------------------------------------
SocketsInit ==
  /\ at = [d \in Daemons |-> "off"] /\ listening = {} /\ file \in {"none", "stale"}
  /\ guard = [d \in Daemons |-> "none"] /\ port = "none" /\ estranged = {}

\* The steps in which the process goes on, and those that end it with an error.
GoesOn(d) ==
  \/ FindsNobody(d) \/ BindsPrivately(d) \/ BindFails(d) \/ ClearsPlace(d)
  \/ TakesIdentity(d) \/ SpawnsAccept(d) \/ SpawnFails(d) \/ OpensPort(d)
  \/ DropsGuard(d) \/ RemovesFile(d)

-----------------------------------------------------------------------------
(* Properties. *)

\* A daemon that runs, and has a socket, is the one that clients reach: none
\* that starts, ends or gives up takes its file from it, unless its own start
\* overlapped that, or a file was removed by hand (spawn, SocketGuard).
StaysReachable ==
  \A d \in Daemons :
    at[d] \in {"opening", "up"} /\ d \in listening /\ d \notin estranged => file = d
=============================================================================
