----------------------------- MODULE DurableMap -----------------------------
(***************************************************************************)
(* What a disk namespace promises its callers (StorageAdapter: setDisk,    *)
(* getDisk, deleteDisk, and the import of legacy entries): one call at a   *)
(* time, each call takes effect at one instant or not at all, a call that  *)
(* reports failure changed nothing and met a real I/O failure, and a       *)
(* process that dies leaves the map as it was before or after the call it  *)
(* was in.                                                                 *)
(*                                                                         *)
(* "blind" says that the implementation cannot currently see all of the    *)
(* durable data (a file it could not read, or a directory that vanished);  *)
(* answers given while blind need not reflect the map, but a write is      *)
(* never reported as done unless it is.                                    *)
(***************************************************************************)
EXTENDS Naturals

CONSTANTS Keys, Values,
          None      \* the answer for a key that is not there

VARIABLES map,      \* the durable contents
          blind,    \* some durable data cannot be seen now
          trouble,  \* the call in progress met an I/O failure
          call,     \* the call in progress, NoCall when there is none
          applied,  \* the call in progress has taken effect
          reply,    \* the answer of a call that is about to return
          restarts, \* how often the process died
          wipes     \* how often the platform removed the directory

NoCall == [kind |-> "none"]
Calls == [kind : {"set", "get", "delete", "migrate"}, key : Keys,
          value : Values \cup {None}]
Pending == "pending"

mapVars == <<map, blind, trouble, call, applied, reply, restarts, wipes>>

MapInit ==
  /\ map = [k \in Keys |-> None]
  /\ blind = FALSE
  /\ trouble = FALSE
  /\ call = NoCall
  /\ applied = FALSE
  /\ reply = Pending
  /\ restarts = 0
  /\ wipes = 0

\* The effect of the call in progress, which a get does not have; a migrated
\* entry does not replace a newer one.
Effect ==
  \/ call.kind = "set" /\ map' = [map EXCEPT ![call.key] = call.value]
  \/ /\ call.kind = "migrate" /\ (blind \/ map[call.key] = None)
     /\ map' = [map EXCEPT ![call.key] = call.value]
  \/ call.kind = "delete" /\ map' = [map EXCEPT ![call.key] = None]

Invoke(c) ==
  /\ call = NoCall
  /\ call' = c
  /\ UNCHANGED <<map, applied, reply, restarts, wipes>>

\* The instant at which a writing call takes effect; it may be about to
\* return at once.
Apply ==
  /\ call # NoCall /\ ~applied /\ reply = Pending
  /\ Effect
  /\ applied' = TRUE
  /\ reply' \in {Pending, "ok"}
  /\ UNCHANGED <<call, restarts, wipes>>

\* What each kind of call may answer: success means applied, or nothing to
\* do; failure means not applied, and that something did go wrong.
MayAnswer(answer, failed) ==
  \/ answer = "threw" /\ ~applied /\ failed
  \/ answer = "ok" /\ applied
  \/ answer = "ok" /\ call.kind = "delete" /\ (blind \/ map[call.key] = None)
  \/ answer = "ok" /\ call.kind = "migrate" /\ (blind \/ map[call.key] # None)
  \/ answer = None /\ call.kind = "get" /\ failed
  \/ /\ answer \in Values \cup {None} /\ call.kind = "get"
     /\ blind \/ map[call.key] = answer

Respond(answer) ==
  /\ call # NoCall /\ reply = Pending
  /\ MayAnswer(answer, trouble')
  /\ reply' = answer
  /\ UNCHANGED <<map, call, applied, restarts, wipes>>

Return ==
  /\ call # NoCall /\ reply # Pending
  /\ call' = NoCall
  /\ applied' = FALSE
  /\ reply' = Pending
  /\ UNCHANGED <<map, restarts, wipes>>

\* The process dies and the store is opened again; the call it was in may
\* have reached the disk.
Crash ==
  /\ UNCHANGED map \/ (call # NoCall /\ ~applied /\ Effect)
  /\ call' = NoCall
  /\ applied' = FALSE
  /\ reply' = Pending
  /\ restarts' = restarts + 1
  /\ UNCHANGED wipes

\* The platform removes the storage directory.
Wipe ==
  /\ map' = [k \in Keys |-> None]
  /\ wipes' = wipes + 1
  /\ UNCHANGED <<call, applied, reply, restarts>>

\* Everything else an implementation does leaves the contract's state alone:
\* blind and trouble may change, the contents may not.
Internal == UNCHANGED <<map, call, applied, reply, restarts, wipes>>

MapNext ==
  /\ blind' \in BOOLEAN /\ trouble' \in BOOLEAN
  /\ \/ \E c \in Calls : Invoke(c)
     \/ Apply
     \/ \E answer \in Values \cup {None, "ok", "threw"} : Respond(answer)
     \/ Return
     \/ Crash
     \/ Wipe
     \/ Internal

MapSpec == MapInit /\ [][MapNext]_mapVars
=============================================================================
