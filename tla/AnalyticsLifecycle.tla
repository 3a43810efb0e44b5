-------------------------- MODULE AnalyticsLifecycle --------------------------
(***************************************************************************)
(* init() and shutdown() of analytics clients that share an instance name, *)
(* and so a connector (analytics/react-native-client.ts).                  *)
(*                                                                         *)
(* JavaScript runs one callback at a time; a step is what runs between two *)
(* awaits that something else can come between.  init() of a client joins  *)
(* one that runs; shutdown() may be called at any time, flushes what the   *)
(* client holds and then tears it down, whatever init() is doing.  On the  *)
(* web, init() tracks a campaign event and waits until it is answered; on  *)
(* a device it tracks none.  The classes of @amplitude/analytics-core are  *)
(* modelled by how this code uses them: a client that is not ready keeps   *)
(* events and plugins back, a destination answers its events when they are *)
(* flushed.                                                                *)
(***************************************************************************)
EXTENDS Integers, FiniteSets

CONSTANTS
  Clients,       \* AmplitudeReactNative objects with one instanceName
  MaxInits,      \* bound: init() calls
  MaxShutdowns,  \* bound: shutdown() calls per client
  MaxFailures,   \* bound: configurations and plugins that cannot be set up
  MaxSwitches    \* bound: changes of setNetworkEnabled

LifecycleAssumption ==
  /\ Clients # {}
  /\ {MaxInits, MaxShutdowns, MaxFailures, MaxSwitches} \subseteq Nat

Nobody == "nobody"
Shutdowns == 1..MaxShutdowns
NoShutdown == 0

VARIABLES
  client,     \* each client's fields
  shut,       \* its shutdowns: "unused", "flushing" or "done", in calling order
  receiver,   \* who gets the events of the experiment client
  identity,   \* whose identity the connector gives out
  owner,      \* activeConnectorOwnerIds of the instance name
  online,     \* getNetworkEnabled
  campaign,   \* where the campaign event of the client's init is
  inits, failures, switches,
  last,       \* the client's last call
  undisturbed,\* no shutdown was called since the init that runs or ran last began
  latest      \* the client whose init ended last, unless it was shut down since
              \* that init began

connector == <<receiver, identity, owner>>
bounds == <<inits, failures, switches>>
ghosts == <<last, undisturbed, latest>>
vars == <<client, shut, connector, online, campaign, bounds, ghosts>>

(* The fields: pc, how far _init is; awaits, the shutdown it awaits first;  *)
(* shutdownPromise; ready, isReady, which implies that config is set;       *)
(* plugins, the timeline has its destination; listener,                     *)
(* appStateChangeHandler; result of the last init().                        *)
NewClient == [pc |-> "none", awaits |-> NoShutdown, shutdownPromise |-> NoShutdown,
  ready |-> FALSE, plugins |-> FALSE, listener |-> FALSE,
  result |-> "none"]

Init ==
  /\ client = [c \in Clients |-> NewClient]
  /\ shut = [c \in Clients |-> [s \in Shutdowns |-> "unused"]]
  /\ receiver = Nobody /\ identity = Nobody /\ owner = Nobody
  /\ online = TRUE
  /\ campaign = [c \in Clients |-> "none"]
  /\ inits = 0 /\ failures = 0 /\ switches = 0
  /\ last = [c \in Clients |-> "none"]
  /\ undisturbed = [c \in Clients |-> TRUE] /\ latest = Nobody

-----------------------------------------------------------------------------
(* init(): a call while _init runs returns the promise of that one.         *)
init(c) ==
  /\ inits < MaxInits /\ inits' = inits + 1
  /\ last' = [last EXCEPT ![c] = "init"]
  /\ IF client[c].pc # "none"
       THEN UNCHANGED <<client, undisturbed>>
       ELSE /\ client' = [client EXCEPT ![c].pc = "waits", ![c].result = "none",
                                        ![c].awaits = client[c].shutdownPromise]
            /\ undisturbed' = [undisturbed EXCEPT ![c] = TRUE]
  /\ UNCHANGED <<shut, connector, online, campaign, failures, switches, latest>>

AwaitsShutdown(c) ==
  /\ client[c].pc = "waits"
  /\ client[c].awaits # NoShutdown => shut[c][client[c].awaits] = "done"
  /\ client' = [client EXCEPT ![c].pc = "reads"]
  /\ UNCHANGED <<shut, connector, online, campaign, bounds, ghosts>>

(* The configuration is read and set; the timeline forgets its plugins.     *)
useReactNativeConfig(c) ==
  /\ client[c].pc = "reads"
  /\ client' = [client EXCEPT ![c].pc = "readies", ![c].plugins = FALSE]
  /\ UNCHANGED <<shut, connector, online, campaign, bounds, ghosts>>

(* It becomes ready.  That comes long after it was read: a shutdown whose   *)
(* flush finds the client torn down by an earlier one has nothing to send   *)
(* and ends within a few callbacks, before this.                            *)
Emptied(c) == ~client[c].ready /\ \E s \in Shutdowns : shut[c][s] = "flushing"
Readies_Later(c) ==
  /\ client[c].pc = "readies" /\ ~Emptied(c)
  /\ client' = [client EXCEPT ![c].pc = "adds"]
  /\ identity' = c
  /\ UNCHANGED <<shut, receiver, owner, online, campaign, bounds, ghosts>>
Readies(c) ==
  /\ client[c].pc = "readies" /\ ~Emptied(c)
  /\ client' = [client EXCEPT ![c].pc = "adds", ![c].ready = TRUE]
  /\ identity' = c
  /\ UNCHANGED <<shut, receiver, owner, online, campaign, bounds, ghosts>>

(* The plugins are added, which a client that is not ready only notes down, *)
(* the session starts, and the app-state listener is installed.             *)
AddsPlugins(c) ==
  /\ client[c].pc = "adds"
  /\ client' = [client EXCEPT ![c].plugins = client[c].ready, ![c].listener = TRUE,
                              ![c].pc = "attributes"]
  /\ UNCHANGED <<shut, connector, online, campaign, bounds, ghosts>>

(* runAttributionStrategy awaits the answer to the campaign event; it sends *)
(* none on a device, for a campaign that is not new, or when the stored one *)
(* cannot be read.                                                          *)
SendsCampaign(c) ==
  /\ client[c].pc = "attributes"
  /\ client' = [client EXCEPT ![c].pc = "awaits"]
  /\ campaign' = [campaign EXCEPT ![c] =
       IF ~client[c].ready THEN "waiting"
       ELSE IF client[c].plugins THEN "held" ELSE "answered"]
  /\ UNCHANGED <<shut, connector, online, bounds, ghosts>>
SkipsCampaign(c) ==
  /\ client[c].pc = "attributes"
  /\ client' = [client EXCEPT ![c].pc = "runs"]
  /\ UNCHANGED <<shut, connector, online, campaign, bounds, ghosts>>
CampaignAnswered(c) ==
  /\ client[c].pc = "awaits" /\ campaign[c] = "answered"
  /\ client' = [client EXCEPT ![c].pc = "runs"]
  /\ campaign' = [campaign EXCEPT ![c] = "none"]
  /\ UNCHANGED <<shut, connector, online, bounds, ghosts>>

(* The functions that waited are run and the connector is taken over.       *)
RunsQueued(c) ==
  /\ client[c].pc = "runs"
  /\ client' = [client EXCEPT ![c].pc = "none", ![c].result = "ok"]
  /\ receiver' = c /\ owner' = c /\ latest' = IF undisturbed[c] THEN c ELSE Nobody
  /\ UNCHANGED <<shut, identity, online, campaign, bounds, last, undisturbed>>

InitFails(c) ==
  /\ client[c].pc \in {"reads", "adds"}
  /\ failures < MaxFailures /\ failures' = failures + 1
  /\ client' = [client EXCEPT ![c].pc = "none", ![c].result = "failed"]
  /\ UNCHANGED <<shut, connector, online, campaign, inits, switches, ghosts>>

-----------------------------------------------------------------------------
(* teardown(): an event that is held or waits is never answered; the        *)
(* connector is given up by the client that has it.                         *)
Owns_Whoever(c) == TRUE
Owns(c) == owner = c
TornDown(fields) ==
  [fields EXCEPT !.listener = FALSE, !.plugins = FALSE, !.ready = FALSE]
Abandoned(c) == campaign' =
  [campaign EXCEPT ![c] = IF @ \in {"held", "waiting"} THEN "lost" ELSE @]
Disconnected(c) ==
  /\ receiver' = IF Owns(c) THEN Nobody ELSE receiver
  /\ identity' = IF Owns(c) THEN Nobody ELSE identity
  /\ owner' = IF Owns(c) THEN Nobody ELSE owner

(* shutdown() of a client that is ready flushes first; the flushes of a     *)
(* client run one after the other.                                          *)
shutdown(c) == \E s \in Shutdowns :
  /\ shut[c][s] = "unused" /\ (s > 1 => shut[c][s - 1] # "unused")
  /\ last' = [last EXCEPT ![c] = "shutdown"]
  /\ undisturbed' = [undisturbed EXCEPT ![c] = FALSE]
  /\ latest' = IF latest = c THEN Nobody ELSE latest
  /\ IF client[c].ready
       THEN /\ shut' = [shut EXCEPT ![c][s] = "flushing"]
            /\ client' = [client EXCEPT ![c].shutdownPromise = s]
            /\ UNCHANGED <<connector, campaign>>
       ELSE /\ shut' = [shut EXCEPT ![c][s] = "done"]
            /\ client' = [client EXCEPT ![c] =
                 [TornDown(@) EXCEPT !.shutdownPromise = NoShutdown]]
            /\ Disconnected(c)
            /\ Abandoned(c)
  /\ UNCHANGED <<online, bounds>>

IsNext(c, s) == shut[c][s] = "flushing" /\ \A r \in 1..s - 1 : shut[c][r] # "flushing"

(* The final flush answers what is held, unless the network is switched     *)
(* off; that it ended is heard by teardown before anything else runs.       *)
shutdownAndFlush(c, s) ==
  /\ IsNext(c, s)
  /\ shut' = [shut EXCEPT ![c][s] = "done"]
  /\ LET promise == client[c].shutdownPromise IN client' = [client EXCEPT ![c] =
       [TornDown(@) EXCEPT !.shutdownPromise = IF promise = s THEN NoShutdown ELSE promise]]
  /\ Disconnected(c)
  /\ IF online /\ campaign[c] = "held"
       THEN campaign' = [campaign EXCEPT ![c] = "answered"] ELSE Abandoned(c)
  /\ UNCHANGED <<online, bounds, ghosts>>

-----------------------------------------------------------------------------
(* The destination's timer sends what it holds; the network is switched on  *)
(* or off.                                                                  *)
Flush(c) ==
  /\ online /\ campaign[c] = "held"
  /\ campaign' = [campaign EXCEPT ![c] = "answered"]
  /\ UNCHANGED <<client, shut, connector, online, bounds, ghosts>>
setNetworkEnabled ==
  /\ switches < MaxSwitches /\ switches' = switches + 1
  /\ online' = ~online
  /\ UNCHANGED <<client, shut, connector, campaign, inits, failures, ghosts>>

InitStep(c) ==
  \/ AwaitsShutdown(c) \/ useReactNativeConfig(c) \/ Readies(c) \/ AddsPlugins(c)
  \/ SendsCampaign(c) \/ SkipsCampaign(c) \/ CampaignAnswered(c) \/ RunsQueued(c)
Next ==
  \/ \E c \in Clients :
       \/ init(c) \/ InitStep(c) \/ InitFails(c)
       \/ shutdown(c) \/ Flush(c)
       \/ \E s \in Shutdowns : shutdownAndFlush(c, s)
  \/ setNetworkEnabled

Spec == Init /\ [][Next]_vars
Fairness == \A c \in Clients :
  /\ WF_vars(InitStep(c)) /\ WF_vars(Flush(c))
  /\ \A s \in Shutdowns : WF_vars(shutdownAndFlush(c, s))
FairSpec == Spec /\ Fairness

-----------------------------------------------------------------------------
(* The client whose init() ended last, and that was not shut down since,    *)
(* owns the connector and gets the experiment's events, whatever the other  *)
(* clients of the instance name do: an old client's teardown does not cut   *)
(* off the new one.                                                         *)
LatestIsConnected ==
  latest # Nobody => owner = latest /\ receiver = latest

(* An init() that ended, and during and after which nobody called           *)
(* shutdown(), leaves a client that is up, also when an earlier shutdown    *)
(* was still flushing when it was called.                                   *)
Up(c) == client[c].ready /\ client[c].plugins /\ client[c].listener
OwnInitHolds == \A c \in Clients :
  client[c].pc = "none" /\ client[c].result = "ok" /\ undisturbed[c] => Up(c)

(* What init() promises whoever calls it last: when it is over, and was     *)
(* not followed by a shutdown(), the client is up.                          *)
InitHolds == \A c \in Clients :
  client[c].pc = "none" /\ client[c].result = "ok" /\ last[c] = "init" => Up(c)

(* An init() that is not disturbed by a shutdown() ends, also when it has   *)
(* to await the flush of an earlier one or the answer to its campaign event *)
(* while the network is on.                                                 *)
InitEnds == \A c \in Clients :
  client[c].pc # "none" ~> client[c].pc = "none" \/ ~undisturbed[c] \/ ~online
=============================================================================
