----------------------------- MODULE PartsProofs -----------------------------
(* What TLAPS proves of the components that MCParts composes, for any values *)
(* of their constants: each component's own invariant, and that a behaviour  *)
(* of the composition is a behaviour of every component, so that what the    *)
(* run of MCParts checks holds of them all.                                  *)
EXTENDS MCParts, FiniteSetTheorems, WellFoundedInduction, TLAPS

-----------------------------------------------------------------------------
(* The composition.                                                         *)

\* A step of the composition is a step of one component, and the others stutter.
LEMMA EachPartRuns ==
  Spec => /\ Transport!Spec /\ Lifecycle!Spec /\ Flags!Spec /\ Reads!Spec /\ Browser!Spec
          /\ Release!Spec /\ Replay!Spec /\ Lab!Spec /\ Fixture!Spec /\ Migration!Spec
<1>1. Init => /\ Transport!Init /\ Lifecycle!Init /\ Flags!Init /\ Reads!Init /\ Browser!Init
              /\ Release!Init /\ Replay!Init /\ Lab!Init /\ Fixture!Init /\ Migration!Init
  BY DEF Init
<1>2. /\ UNCHANGED sending => UNCHANGED Transport!vars
      /\ UNCHANGED living => UNCHANGED Lifecycle!vars
      /\ UNCHANGED polling => UNCHANGED Flags!vars
      /\ UNCHANGED reading => UNCHANGED Reads!vars
      /\ UNCHANGED browsing => UNCHANGED Browser!vars
      /\ UNCHANGED releasing => UNCHANGED Release!vars
      /\ UNCHANGED replaying => UNCHANGED Replay!vars
      /\ UNCHANGED pressing => UNCHANGED Lab!vars
      /\ UNCHANGED serving => UNCHANGED Fixture!vars
      /\ UNCHANGED importing => UNCHANGED Migration!vars
  <2>1. UNCHANGED sending => UNCHANGED Transport!vars
    BY DEF sending, Transport!vars
  <2>2. UNCHANGED living => UNCHANGED Lifecycle!vars
    BY DEF living, Lifecycle!vars, Lifecycle!connector, Lifecycle!bounds, Lifecycle!ghosts
  <2>3. UNCHANGED polling => UNCHANGED Flags!vars
    BY DEF polling, Flags!vars, Flags!client, Flags!cache
  <2>4. UNCHANGED reading => UNCHANGED Reads!vars
    BY DEF reading, Reads!vars
  <2>5. UNCHANGED browsing => UNCHANGED Browser!vars
    BY DEF browsing, Browser!vars, Browser!maps
  <2>6. UNCHANGED releasing => UNCHANGED Release!vars
    BY DEF releasing, Release!vars
  <2>7. UNCHANGED replaying => UNCHANGED Replay!vars
    BY DEF replaying, Replay!vars
  <2>8. UNCHANGED pressing => UNCHANGED Lab!vars
    BY DEF pressing, Lab!vars
  <2>9. UNCHANGED serving => UNCHANGED Fixture!vars
    BY DEF serving, Fixture!vars
  <2>10. UNCHANGED importing => UNCHANGED Migration!vars
    BY DEF importing, Migration!vars, Migration!prefs, Migration!flags, Migration!run
  <2> QED BY <2>1, <2>2, <2>3, <2>4, <2>5, <2>6, <2>7, <2>8, <2>9, <2>10
<1>3. [Next]_vars =>
        /\ [Transport!Next]_Transport!vars
        /\ [Lifecycle!Next]_Lifecycle!vars
        /\ [Flags!Next]_Flags!vars
        /\ [Reads!Next]_Reads!vars
        /\ [Browser!Next]_Browser!vars
        /\ [Release!Next]_Release!vars
        /\ [Replay!Next]_Replay!vars
        /\ [Lab!Next]_Lab!vars
        /\ [Fixture!Next]_Fixture!vars
        /\ [Migration!Next]_Migration!vars
  <2> SUFFICES ASSUME [Next]_vars PROVE
        /\ [Transport!Next]_Transport!vars
        /\ [Lifecycle!Next]_Lifecycle!vars
        /\ [Flags!Next]_Flags!vars
        /\ [Reads!Next]_Reads!vars
        /\ [Browser!Next]_Browser!vars
        /\ [Release!Next]_Release!vars
        /\ [Replay!Next]_Replay!vars
        /\ [Lab!Next]_Lab!vars
        /\ [Fixture!Next]_Fixture!vars
        /\ [Migration!Next]_Migration!vars
    OBVIOUS
  <2>1. CASE TransportStep
    BY <1>2, <2>1 DEF TransportStep
  <2>2. CASE LifecycleStep
    BY <1>2, <2>2 DEF LifecycleStep
  <2>3. CASE FlagsStep
    BY <1>2, <2>3 DEF FlagsStep
  <2>4. CASE ReadStep
    BY <1>2, <2>4 DEF ReadStep
  <2>5. CASE BrowserStep
    BY <1>2, <2>5 DEF BrowserStep
  <2>6. CASE ReleaseStep
    BY <1>2, <2>6 DEF ReleaseStep
  <2>7. CASE ReplayStep
    BY <1>2, <2>7 DEF ReplayStep
  <2>8. CASE LabStep
    BY <1>2, <2>8 DEF LabStep
  <2>9. CASE FixtureStep
    BY <1>2, <2>9 DEF FixtureStep
  <2>10. CASE MigrationStep
    BY <1>2, <2>10 DEF MigrationStep
  <2>11. CASE UNCHANGED vars
    BY <1>2, <2>11 DEF vars
  <2> QED BY <2>1, <2>2, <2>3, <2>4, <2>5, <2>6, <2>7, <2>8, <2>9, <2>10, <2>11 DEF Next
<1> QED BY <1>1, <1>3, PTL DEF Spec, Transport!Spec, Lifecycle!Spec, Flags!Spec, Reads!Spec,
               Browser!Spec, Release!Spec, Replay!Spec, Lab!Spec, Fixture!Spec, Migration!Spec

-----------------------------------------------------------------------------
(* AnalyticsLifecycle: the inductive invariant.                             *)

InitPlaces == {"none", "waits", "reads", "readies", "adds", "attributes", "awaits", "runs"}
ClientFields == [pc : InitPlaces, awaits : Lifecycle!Shutdowns \cup {Lifecycle!NoShutdown},
                 shutdownPromise : Lifecycle!Shutdowns \cup {Lifecycle!NoShutdown},
                 ready : BOOLEAN, plugins : BOOLEAN, listener : BOOLEAN, result : {"none", "ok", "failed"}]

LifecycleTypes ==
  /\ client \in [Clients -> ClientFields]
  /\ shut \in [Clients -> [Lifecycle!Shutdowns -> {"unused", "flushing", "done"}]]
  /\ undisturbed \in [Clients -> BOOLEAN]
  /\ latest \in Clients \cup {Lifecycle!Nobody}

\* No shutdown of the client is under way; and none after its shutdown s.
Quiet(c) == \A s \in Lifecycle!Shutdowns : shut[c][s] # "flushing"
QuietAfter(c, s) == \A t \in Lifecycle!Shutdowns : shut[c][t] = "flushing" => t <= s

\* Shutdowns are called in order.
OrderInv(c) == \A s, t \in Lifecycle!Shutdowns :
  s < t /\ shut[c][s] = "unused" => shut[c][t] = "unused"

\* The shutdown a new init() would wait for is the last one that flushes.  When
\* there is none although one flushes, that one finds the client torn down.
PromiseInv(c) ==
  LET p == client[c].shutdownPromise IN
  /\ p # Lifecycle!NoShutdown => shut[c][p] = "flushing" /\ QuietAfter(c, p)
  /\ p = Lifecycle!NoShutdown /\ client[c].ready => Quiet(c)

\* What an init() that no shutdown() disturbed has achieved so far.
InitInv(c) == undisturbed[c] =>
  LET here == client[c].pc  s == client[c].awaits IN
  /\ here = "waits" /\ s = Lifecycle!NoShutdown /\ client[c].ready => Quiet(c)
  /\ here = "waits" /\ s # Lifecycle!NoShutdown =>
       QuietAfter(c, s) /\ (shut[c][s] = "done" => Quiet(c))
  /\ here \in {"reads", "readies"} /\ client[c].ready => Quiet(c)
  /\ here \in {"adds", "attributes", "awaits", "runs"} => Quiet(c) /\ client[c].ready
  /\ here \in {"attributes", "awaits", "runs"} => Lifecycle!Up(c)
  /\ here = "none" /\ client[c].result = "ok" => Quiet(c) /\ Lifecycle!Up(c)

\* The connected client is not about to be torn down.
LatestInv == latest # Lifecycle!Nobody => Quiet(latest) /\ owner = latest /\ receiver = latest

ClientInv(c) == OrderInv(c) /\ PromiseInv(c) /\ InitInv(c)
LifecycleInv == LifecycleTypes /\ (\A c \in Clients : ClientInv(c)) /\ LatestInv

-----------------------------------------------------------------------------
(* AnalyticsLifecycle: the steps.                                           *)

\* A step of one client leaves the others as they are.
LEMMA OthersStay ==
  ASSUME NEW c \in Clients, NEW d \in Clients, ClientInv(d),
         client'[d] = client[d], shut'[d] = shut[d], undisturbed'[d] = undisturbed[d]
  PROVE  ClientInv(d)'
BY DEF ClientInv, OrderInv, PromiseInv, InitInv, Quiet, QuietAfter, Lifecycle!Up

\* The fields of a client after a step of its init() are fields of a client.
LEMMA NextFields ==
  ASSUME NEW f \in ClientFields
  PROVE  /\ \A p \in InitPlaces : [f EXCEPT !.pc = p] \in ClientFields
         /\ [f EXCEPT !.pc = "readies", !.plugins = FALSE] \in ClientFields
         /\ [f EXCEPT !.pc = "adds", !.ready = TRUE] \in ClientFields
         /\ [f EXCEPT !.plugins = f.ready, !.listener = TRUE, !.pc = "attributes"] \in ClientFields
         /\ \A r \in {"ok", "failed"} :
              [f EXCEPT !.pc = "none", !.result = r] \in ClientFields
BY DEF ClientFields, InitPlaces

\* An init() is called.
LEMMA InitIsCalled == ASSUME LifecycleInv, NEW c \in Clients, Lifecycle!init(c) PROVE LifecycleInv'
<1>1. LifecycleTypes'
  <2>1. client' \in [Clients -> ClientFields]
    <3>1. CASE client[c].pc # "none"
      BY <3>1 DEF Lifecycle!init, LifecycleInv, LifecycleTypes
    <3>2. CASE client[c].pc = "none"
      <4>1. PICK new : new = [client[c] EXCEPT !.pc = "waits", !.result = "none",
                                               !.awaits = client[c].shutdownPromise]
        OBVIOUS
      <4>2. new \in ClientFields
        BY <4>1 DEF LifecycleInv, LifecycleTypes, ClientFields, InitPlaces
      <4>3. client' = [client EXCEPT ![c] = new]
        BY <3>2, <4>1 DEF Lifecycle!init
      <4> QED BY <4>2, <4>3 DEF LifecycleInv, LifecycleTypes
    <3> QED BY <3>1, <3>2
  <2> QED BY <2>1 DEF Lifecycle!init, LifecycleInv, LifecycleTypes
<1>2. ClientInv(c)'
  <2>1. CASE client[c].pc # "none"
    BY <2>1 DEF Lifecycle!init, LifecycleInv, ClientInv, OrderInv, PromiseInv, InitInv, Quiet,
           QuietAfter, Lifecycle!Up
  <2>2. CASE client[c].pc = "none"
    <3>1. /\ client'[c].pc = "waits" /\ client'[c].awaits = client[c].shutdownPromise
          /\ client'[c].shutdownPromise = client[c].shutdownPromise
          /\ client'[c].ready = client[c].ready /\ shut' = shut
      BY <2>2 DEF Lifecycle!init, LifecycleInv, LifecycleTypes, ClientFields
    <3>2. client[c].shutdownPromise # Lifecycle!NoShutdown
          => shut[c][client[c].shutdownPromise] = "flushing"
      BY DEF LifecycleInv, ClientInv, PromiseInv
    <3> QED BY <3>1, <3>2 DEF LifecycleInv, ClientInv, OrderInv, PromiseInv, InitInv, Quiet,
                   QuietAfter
  <2> QED BY <2>1, <2>2
<1>3. ASSUME NEW d \in Clients \ {c} PROVE ClientInv(d)'
  BY OthersStay DEF Lifecycle!init, LifecycleInv, LifecycleTypes
<1>4. LatestInv'
  BY DEF Lifecycle!init, LifecycleInv, LatestInv, Quiet, Lifecycle!connector
<1> QED BY <1>1, <1>2, <1>3, <1>4 DEF LifecycleInv

\* A running init() goes on, up to the connector.
LEMMA InitGoesOn ==
  ASSUME LifecycleInv, NEW c \in Clients,
         \/ Lifecycle!AwaitsShutdown(c) \/ Lifecycle!useReactNativeConfig(c)
         \/ Lifecycle!Readies(c) \/ Lifecycle!AddsPlugins(c)
         \/ Lifecycle!SendsCampaign(c) \/ Lifecycle!SkipsCampaign(c)
         \/ Lifecycle!CampaignAnswered(c) \/ Lifecycle!InitFails(c)
  PROVE  LifecycleInv'
<1>1. /\ UNCHANGED <<shut, owner, receiver, undisturbed, latest>>
      /\ client' \in [Clients -> ClientFields]
      /\ \A d \in Clients \ {c} : client'[d] = client[d]
  <2>1. UNCHANGED <<shut, owner, receiver, undisturbed, latest>>
    BY DEF Lifecycle!AwaitsShutdown, Lifecycle!useReactNativeConfig, Lifecycle!Readies,
           Lifecycle!AddsPlugins, Lifecycle!SendsCampaign, Lifecycle!SkipsCampaign,
           Lifecycle!CampaignAnswered, Lifecycle!InitFails, Lifecycle!connector, Lifecycle!ghosts
  <2>2. client' = [client EXCEPT ![c] = client'[c]] /\ client'[c] \in ClientFields
    <3>1. CASE Lifecycle!AwaitsShutdown(c)
      BY <3>1, NextFields DEF Lifecycle!AwaitsShutdown, LifecycleInv, LifecycleTypes, InitPlaces
    <3>2. CASE Lifecycle!useReactNativeConfig(c)
      BY <3>2, NextFields DEF Lifecycle!useReactNativeConfig, LifecycleInv, LifecycleTypes
    <3>3. CASE Lifecycle!Readies(c)
      BY <3>3, NextFields DEF Lifecycle!Readies, LifecycleInv, LifecycleTypes
    <3>4. CASE Lifecycle!AddsPlugins(c)
      BY <3>4, NextFields DEF Lifecycle!AddsPlugins, LifecycleInv, LifecycleTypes
    <3>5. CASE Lifecycle!SendsCampaign(c) \/ Lifecycle!SkipsCampaign(c) \/ Lifecycle!CampaignAnswered(c)
      <4>1. PICK p \in InitPlaces : client' = [client EXCEPT ![c].pc = p]
        BY <3>5 DEF Lifecycle!SendsCampaign, Lifecycle!SkipsCampaign, Lifecycle!CampaignAnswered,
               InitPlaces
      <4> QED BY <4>1, NextFields DEF LifecycleInv, LifecycleTypes
    <3>6. CASE Lifecycle!InitFails(c)
      BY <3>6, NextFields DEF Lifecycle!InitFails, LifecycleInv, LifecycleTypes
    <3> QED BY <3>1, <3>2, <3>3, <3>4, <3>5, <3>6
  <2> QED BY <2>1, <2>2 DEF LifecycleInv, LifecycleTypes
<1>2. client'[c].shutdownPromise = client[c].shutdownPromise
  BY DEF Lifecycle!AwaitsShutdown, Lifecycle!useReactNativeConfig, Lifecycle!Readies,
         Lifecycle!AddsPlugins, Lifecycle!SendsCampaign, Lifecycle!SkipsCampaign,
         Lifecycle!CampaignAnswered, Lifecycle!InitFails, LifecycleInv, LifecycleTypes, ClientFields
<1>3. client'[c].ready => client[c].ready \/ Quiet(c)
  BY DEF Lifecycle!AwaitsShutdown, Lifecycle!useReactNativeConfig, Lifecycle!Readies,
         Lifecycle!AddsPlugins, Lifecycle!SendsCampaign, Lifecycle!SkipsCampaign,
         Lifecycle!CampaignAnswered, Lifecycle!InitFails, LifecycleInv, LifecycleTypes,
         ClientFields, Lifecycle!Emptied, Quiet
<1>4. OrderInv(c)' /\ PromiseInv(c)'
  BY <1>1, <1>2, <1>3 DEF LifecycleInv, ClientInv, OrderInv, PromiseInv, Quiet, QuietAfter
<1>5. InitInv(c)'
  <2> SUFFICES ASSUME undisturbed[c] PROVE InitInv(c)'
    BY <1>1 DEF InitInv
  <2>1. CASE Lifecycle!AwaitsShutdown(c)
    <3>1. client'[c].pc = "reads" /\ client'[c].ready = client[c].ready /\ client[c].pc = "waits"
          /\ (client[c].awaits # Lifecycle!NoShutdown => shut[c][client[c].awaits] = "done")
      BY <2>1 DEF Lifecycle!AwaitsShutdown, LifecycleInv, LifecycleTypes, ClientFields
    <3> QED BY <1>1, <3>1 DEF LifecycleInv, ClientInv, InitInv, Quiet
  <2>2. CASE Lifecycle!useReactNativeConfig(c)
    <3>1. client'[c].pc = "readies" /\ client'[c].ready = client[c].ready /\ client[c].pc = "reads"
      BY <2>2 DEF Lifecycle!useReactNativeConfig, LifecycleInv, LifecycleTypes, ClientFields
    <3> QED BY <1>1, <3>1 DEF LifecycleInv, ClientInv, InitInv, Quiet
  <2>3. CASE Lifecycle!Readies(c)
    <3>1. client'[c].pc = "adds" /\ client'[c].ready /\ client[c].pc = "readies" /\ ~Lifecycle!Emptied(c)
      BY <2>3 DEF Lifecycle!Readies, LifecycleInv, LifecycleTypes, ClientFields
    <3> QED BY <1>1, <3>1 DEF LifecycleInv, ClientInv, InitInv, Quiet, Lifecycle!Emptied
  <2>4. CASE Lifecycle!AddsPlugins(c)
    <3>1. client'[c].pc = "attributes" /\ client'[c].ready = client[c].ready
          /\ client[c].pc = "adds" /\ client'[c].listener /\ client'[c].plugins = client[c].ready
      BY <2>4 DEF Lifecycle!AddsPlugins, LifecycleInv, LifecycleTypes, ClientFields
    <3> QED BY <1>1, <3>1 DEF LifecycleInv, ClientInv, InitInv, Quiet, Lifecycle!Up
  <2>5. CASE Lifecycle!SendsCampaign(c) \/ Lifecycle!SkipsCampaign(c) \/ Lifecycle!CampaignAnswered(c)
    <3>1. client'[c].pc \in {"awaits", "runs"} /\ client'[c].ready = client[c].ready
          /\ client[c].pc \in {"attributes", "awaits"}
          /\ client'[c].listener = client[c].listener /\ client'[c].plugins = client[c].plugins
      BY <2>5 DEF Lifecycle!SendsCampaign, Lifecycle!SkipsCampaign, Lifecycle!CampaignAnswered,
             LifecycleInv, LifecycleTypes, ClientFields
    <3> QED BY <1>1, <3>1 DEF LifecycleInv, ClientInv, InitInv, Quiet, Lifecycle!Up
  <2>6. CASE Lifecycle!InitFails(c)
    <3>1. client'[c].pc = "none" /\ client'[c].result = "failed"
      BY <2>6 DEF Lifecycle!InitFails, LifecycleInv, LifecycleTypes, ClientFields
    <3> QED BY <3>1 DEF InitInv
  <2> QED BY <2>1, <2>2, <2>3, <2>4, <2>5, <2>6
<1>6. ASSUME NEW d \in Clients \ {c} PROVE ClientInv(d)'
  BY <1>1, OthersStay DEF LifecycleInv
<1> QED BY <1>1, <1>4, <1>5, <1>6 DEF LifecycleInv, LifecycleTypes, ClientInv, LatestInv, Quiet

\* An init() ends and takes over the connector.
LEMMA InitConnects == ASSUME LifecycleInv, NEW c \in Clients, Lifecycle!RunsQueued(c) PROVE LifecycleInv'
<1>1. /\ UNCHANGED <<shut, undisturbed>> /\ client[c].pc = "runs"
      /\ client' \in [Clients -> ClientFields]
      /\ \A d \in Clients \ {c} : client'[d] = client[d]
      /\ client'[c].shutdownPromise = client[c].shutdownPromise
      /\ client'[c].pc = "none" /\ client'[c].ready = client[c].ready
      /\ client'[c].listener = client[c].listener /\ client'[c].plugins = client[c].plugins
      /\ owner' = c /\ receiver' = c /\ latest' = IF undisturbed[c] THEN c ELSE Lifecycle!Nobody
  <2>1. client' = [client EXCEPT ![c] = client'[c]] /\ client'[c] \in ClientFields
    BY NextFields DEF Lifecycle!RunsQueued, LifecycleInv, LifecycleTypes
  <2>2. /\ client'[c].shutdownPromise = client[c].shutdownPromise
        /\ client'[c].pc = "none" /\ client'[c].ready = client[c].ready
        /\ client'[c].listener = client[c].listener /\ client'[c].plugins = client[c].plugins
    BY DEF Lifecycle!RunsQueued, LifecycleInv, LifecycleTypes, ClientFields
  <2> QED BY <2>1, <2>2 DEF Lifecycle!RunsQueued, LifecycleInv, LifecycleTypes
<1>2. ClientInv(c)'
  BY <1>1 DEF LifecycleInv, ClientInv, OrderInv, PromiseInv, InitInv, Quiet, QuietAfter,
         Lifecycle!Up
<1>3. ASSUME NEW d \in Clients \ {c} PROVE ClientInv(d)'
  BY <1>1, OthersStay DEF LifecycleInv
<1>4. LatestInv'
  BY <1>1 DEF LifecycleInv, ClientInv, InitInv, LatestInv, Quiet
<1> QED BY <1>1, <1>2, <1>3, <1>4 DEF LifecycleInv, LifecycleTypes

\* teardown() leaves fields of a client.
LEMMA TornDownFields ==
  ASSUME NEW f \in ClientFields, NEW p \in Lifecycle!Shutdowns \cup {Lifecycle!NoShutdown}
  PROVE  /\ [Lifecycle!TornDown(f) EXCEPT !.shutdownPromise = p] \in ClientFields
         /\ [Lifecycle!TornDown(f) EXCEPT !.shutdownPromise = p].ready = FALSE
         /\ [Lifecycle!TornDown(f) EXCEPT !.shutdownPromise = p].shutdownPromise = p
BY DEF Lifecycle!TornDown, ClientFields

\* A shutdown() is called: it flushes, or tears down at once.
LEMMA ShutdownIsCalled ==
  ASSUME Lifecycle!LifecycleAssumption, LifecycleInv, NEW c \in Clients, Lifecycle!shutdown(c)
  PROVE  LifecycleInv'
<1>1. PICK s \in Lifecycle!Shutdowns :
        /\ shut[c][s] = "unused" /\ (s > 1 => shut[c][s - 1] # "unused")
        /\ undisturbed' = [undisturbed EXCEPT ![c] = FALSE]
        /\ latest' = IF latest = c THEN Lifecycle!Nobody ELSE latest
        /\ \/ /\ client[c].ready
              /\ shut' = [shut EXCEPT ![c][s] = "flushing"]
              /\ client' = [client EXCEPT ![c].shutdownPromise = s]
              /\ UNCHANGED Lifecycle!connector
           \/ /\ ~client[c].ready
              /\ shut' = [shut EXCEPT ![c][s] = "done"]
              /\ client' = [client EXCEPT ![c] =
                             [Lifecycle!TornDown(@) EXCEPT !.shutdownPromise = Lifecycle!NoShutdown]]
              /\ Lifecycle!Disconnected(c)
  BY DEF Lifecycle!shutdown
<1>2. PICK phase \in {"flushing", "done"} :
        /\ shut' = [shut EXCEPT ![c][s] = phase]
        /\ phase = "flushing" => /\ client[c].ready /\ UNCHANGED Lifecycle!connector
                                 /\ client' = [client EXCEPT ![c].shutdownPromise = s]
        /\ phase = "done" => /\ Lifecycle!Disconnected(c)
                             /\ client' = [client EXCEPT ![c] =
                                  [Lifecycle!TornDown(@) EXCEPT !.shutdownPromise = Lifecycle!NoShutdown]]
  BY <1>1
<1>3. /\ client' = [client EXCEPT ![c] = client'[c]] /\ client'[c] \in ClientFields
      /\ phase = "flushing" => client'[c].shutdownPromise = s
      /\ phase = "done" => client'[c].shutdownPromise = Lifecycle!NoShutdown /\ ~client'[c].ready
  <2>1. CASE phase = "flushing"
    <3>1. PICK new : new = [client[c] EXCEPT !.shutdownPromise = s]
      OBVIOUS
    <3>2. new \in ClientFields /\ new.shutdownPromise = s
      BY <3>1 DEF LifecycleInv, LifecycleTypes, ClientFields
    <3>3. client' = [client EXCEPT ![c] = new]
      BY <1>2, <2>1, <3>1
    <3> QED BY <2>1, <3>2, <3>3 DEF LifecycleInv, LifecycleTypes
  <2>2. CASE phase = "done"
    <3>1. PICK new : new = [Lifecycle!TornDown(client[c]) EXCEPT !.shutdownPromise = Lifecycle!NoShutdown]
      OBVIOUS
    <3>2. new \in ClientFields /\ new.shutdownPromise = Lifecycle!NoShutdown /\ new.ready = FALSE
      BY <3>1, TornDownFields DEF LifecycleInv, LifecycleTypes
    <3>3. client' = [client EXCEPT ![c] = new]
      BY <1>2, <2>2, <3>1
    <3> QED BY <2>2, <3>2, <3>3 DEF LifecycleInv, LifecycleTypes
  <2> QED BY <2>1, <2>2
<1>4. /\ shut'[c] = [shut[c] EXCEPT ![s] = phase]
      /\ shut' \in [Clients -> [Lifecycle!Shutdowns -> {"unused", "flushing", "done"}]]
      /\ \A d \in Clients \ {c} : shut'[d] = shut[d]
  BY <1>2 DEF LifecycleInv, LifecycleTypes
<1>5. LifecycleTypes'
  BY <1>1, <1>3, <1>4 DEF LifecycleInv, LifecycleTypes
<1>6. ClientInv(c)'
  <2>1. \A t \in Lifecycle!Shutdowns : t < s => shut[c][t] # "unused"
    <3> SUFFICES ASSUME NEW t \in Lifecycle!Shutdowns, t < s, shut[c][t] = "unused" PROVE FALSE
      OBVIOUS
    <3>1. s - 1 \in Lifecycle!Shutdowns /\ s > 1 /\ (t = s - 1 \/ t < s - 1)
      BY DEF Lifecycle!Shutdowns, Lifecycle!LifecycleAssumption
    <3> QED BY <1>1, <3>1 DEF LifecycleInv, ClientInv, OrderInv
  <2>2. \A t \in Lifecycle!Shutdowns : t > s => shut[c][t] = "unused"
    BY <1>1 DEF LifecycleInv, ClientInv, OrderInv, Lifecycle!Shutdowns
  <2>3. \A t \in Lifecycle!Shutdowns : shut'[c][t] = IF t = s THEN phase ELSE shut[c][t]
    BY <1>4 DEF LifecycleInv, LifecycleTypes
  <2>4. OrderInv(c)'
    BY <2>1, <2>3 DEF OrderInv, LifecycleInv, ClientInv, Lifecycle!Shutdowns
  <2>5. PromiseInv(c)'
    BY <1>3, <2>2, <2>3 DEF PromiseInv, QuietAfter, Lifecycle!Shutdowns, Lifecycle!NoShutdown
  <2>6. ~undisturbed'[c]
    BY <1>1 DEF LifecycleInv, LifecycleTypes
  <2> QED BY <2>4, <2>5, <2>6 DEF ClientInv, InitInv
<1>7. ASSUME NEW d \in Clients \ {c} PROVE ClientInv(d)'
  BY <1>1, <1>3, <1>4, OthersStay DEF LifecycleInv, LifecycleTypes
<1>8. LatestInv'
  <2> SUFFICES ASSUME latest' # Lifecycle!Nobody PROVE LatestInv'
    BY DEF LatestInv
  <2>1. latest' = latest /\ latest \in Clients \ {c}
    BY <1>1 DEF LifecycleInv, LifecycleTypes
  <2>2. Quiet(latest) /\ owner = latest /\ receiver = latest
    BY <2>1 DEF LifecycleInv, LatestInv
  <2>3. owner' = owner /\ receiver' = receiver
    BY <1>2, <2>1, <2>2 DEF Lifecycle!Disconnected, Lifecycle!Owns, Lifecycle!connector
  <2> QED BY <1>4, <2>1, <2>2, <2>3 DEF LatestInv, Quiet
<1> QED BY <1>5, <1>6, <1>7, <1>8 DEF LifecycleInv

\* The flush of a shutdown ends and the client is torn down.
LEMMA ShutdownEnds ==
  ASSUME LifecycleInv, NEW c \in Clients, NEW s \in Lifecycle!Shutdowns, Lifecycle!shutdownAndFlush(c, s)
  PROVE  LifecycleInv'
<1>1. /\ shut[c][s] = "flushing" /\ \A r \in 1 .. s - 1 : shut[c][r] # "flushing"
      /\ shut' = [shut EXCEPT ![c][s] = "done"] /\ Lifecycle!Disconnected(c)
      /\ UNCHANGED <<undisturbed, latest>>
  BY DEF Lifecycle!shutdownAndFlush, Lifecycle!IsNext, Lifecycle!ghosts
<1>2. /\ client' = [client EXCEPT ![c] = client'[c]] /\ client'[c] \in ClientFields
      /\ ~client'[c].ready
      /\ client'[c].shutdownPromise = IF client[c].shutdownPromise = s THEN Lifecycle!NoShutdown
                                      ELSE client[c].shutdownPromise
      /\ client'[c].pc = client[c].pc /\ client'[c].awaits = client[c].awaits
      /\ client'[c].result = client[c].result
  <2>1. PICK p : p = IF client[c].shutdownPromise = s THEN Lifecycle!NoShutdown
                     ELSE client[c].shutdownPromise
    OBVIOUS
  <2>2. PICK new : new = [Lifecycle!TornDown(client[c]) EXCEPT !.shutdownPromise = p]
    OBVIOUS
  <2>3. client[c] \in ClientFields /\ p \in Lifecycle!Shutdowns \cup {Lifecycle!NoShutdown}
    BY <2>1 DEF LifecycleInv, LifecycleTypes, ClientFields
  <2>4. /\ new \in ClientFields /\ new.shutdownPromise = p /\ new.ready = FALSE
        /\ new.pc = client[c].pc /\ new.awaits = client[c].awaits
        /\ new.result = client[c].result
    BY <2>2, <2>3, TornDownFields DEF Lifecycle!TornDown, ClientFields
  <2>5. client' = [client EXCEPT ![c] = new]
    BY <2>1, <2>2 DEF Lifecycle!shutdownAndFlush
  <2> QED BY <2>1, <2>4, <2>5 DEF LifecycleInv, LifecycleTypes
<1>3. /\ shut'[c] = [shut[c] EXCEPT ![s] = "done"]
      /\ shut' \in [Clients -> [Lifecycle!Shutdowns -> {"unused", "flushing", "done"}]]
      /\ \A d \in Clients \ {c} : shut'[d] = shut[d]
  BY <1>1 DEF LifecycleInv, LifecycleTypes
<1>4. LifecycleTypes'
  BY <1>1, <1>2, <1>3 DEF LifecycleInv, LifecycleTypes
<1>5. ClientInv(c)'
  <2>1. \A t \in Lifecycle!Shutdowns : shut'[c][t] = IF t = s THEN "done" ELSE shut[c][t]
    BY <1>3 DEF LifecycleInv, LifecycleTypes
  <2>2. OrderInv(c)'
    BY <1>1, <2>1 DEF OrderInv, LifecycleInv, ClientInv
  <2>3. PromiseInv(c)'
    <3>1. CASE client[c].shutdownPromise \in {s, Lifecycle!NoShutdown}
      BY <1>2, <3>1 DEF PromiseInv
    <3>2. CASE client[c].shutdownPromise \notin {s, Lifecycle!NoShutdown}
      <4>1. PICK p \in Lifecycle!Shutdowns \ {s} : p = client[c].shutdownPromise
        BY <3>2 DEF LifecycleInv, LifecycleTypes, ClientFields
      <4>2. shut[c][p] = "flushing" /\ QuietAfter(c, p)
        BY <3>2, <4>1 DEF LifecycleInv, ClientInv, PromiseInv
      <4>3. shut'[c][p] = "flushing" /\ QuietAfter(c, p)'
        BY <2>1, <4>1, <4>2 DEF QuietAfter
      <4> QED BY <1>2, <3>2, <4>1, <4>3 DEF PromiseInv, QuietAfter
    <3> QED BY <3>1, <3>2
  <2>4. ~Quiet(c)
    BY <1>1 DEF Quiet
  <2>5. InitInv(c)'
    <3> SUFFICES ASSUME undisturbed[c] PROVE InitInv(c)'
      BY <1>1 DEF InitInv
    <3>1. client[c].awaits # Lifecycle!NoShutdown /\ client[c].pc = "waits" =>
            QuietAfter(c, client[c].awaits)' /\ (shut'[c][client[c].awaits] = "done" => Quiet(c)')
      <4> SUFFICES ASSUME client[c].awaits # Lifecycle!NoShutdown, client[c].pc = "waits"
                   PROVE  QuietAfter(c, client[c].awaits)'
                          /\ (shut'[c][client[c].awaits] = "done" => Quiet(c)')
        OBVIOUS
      <4>1. PICK a \in Lifecycle!Shutdowns : a = client[c].awaits
        BY DEF LifecycleInv, LifecycleTypes, ClientFields
      <4>2. QuietAfter(c, a) /\ shut[c][a] # "done"
        BY <2>4, <4>1 DEF LifecycleInv, ClientInv, InitInv
      <4>3. shut'[c][a] = "done" => a = s
        BY <2>1, <4>1, <4>2
      <4>4. a = s => Quiet(c)'
        BY <1>1, <2>1, <4>2 DEF Quiet, QuietAfter, Lifecycle!Shutdowns
      <4> QED BY <1>2, <2>1, <4>1, <4>2, <4>3, <4>4 DEF QuietAfter
    <3> QED BY <1>2, <2>4, <3>1 DEF LifecycleInv, ClientInv, InitInv
  <2> QED BY <2>2, <2>3, <2>5 DEF ClientInv
<1>6. ASSUME NEW d \in Clients \ {c} PROVE ClientInv(d)'
  BY <1>1, <1>2, <1>3, OthersStay DEF LifecycleInv, LifecycleTypes
<1>7. LatestInv'
  BY <1>1, <1>3 DEF LifecycleInv, LifecycleTypes, LatestInv, Quiet, Lifecycle!Disconnected,
         Lifecycle!Owns
<1> QED BY <1>4, <1>5, <1>6, <1>7 DEF LifecycleInv

-----------------------------------------------------------------------------
(* AnalyticsLifecycle: the theorems.                                        *)

\* Every reachable state satisfies the invariant.
LEMMA LifecycleInductive == ASSUME Lifecycle!LifecycleAssumption PROVE Lifecycle!Spec => []LifecycleInv
<1>1. Lifecycle!Init => LifecycleInv
  BY DEF Lifecycle!Init, Lifecycle!NewClient, LifecycleInv, LifecycleTypes, ClientFields,
         InitPlaces, ClientInv, OrderInv, PromiseInv, InitInv, LatestInv, Quiet, QuietAfter,
         Lifecycle!NoShutdown
<1>2. LifecycleInv /\ [Lifecycle!Next]_Lifecycle!vars => LifecycleInv'
  <2> SUFFICES ASSUME LifecycleInv, [Lifecycle!Next]_Lifecycle!vars PROVE LifecycleInv'
    OBVIOUS
  <2>1. CASE UNCHANGED Lifecycle!vars \/ Lifecycle!setNetworkEnabled \/ \E c \in Clients : Lifecycle!Flush(c)
    <3>1. UNCHANGED <<client, shut, owner, receiver, undisturbed, latest>>
      BY <2>1 DEF Lifecycle!vars, Lifecycle!connector, Lifecycle!ghosts,
             Lifecycle!setNetworkEnabled, Lifecycle!Flush
    <3> QED BY <3>1 DEF LifecycleInv, LifecycleTypes, ClientInv, OrderInv, PromiseInv, InitInv,
                   LatestInv, Quiet, QuietAfter, Lifecycle!Up
  <2>2. ASSUME NEW c \in Clients, Lifecycle!init(c) \/ Lifecycle!InitStep(c) \/ Lifecycle!InitFails(c) PROVE LifecycleInv'
    BY <2>2, InitIsCalled, InitGoesOn, InitConnects DEF Lifecycle!InitStep
  <2>3. ASSUME NEW c \in Clients, Lifecycle!shutdown(c) \/ \E s \in Lifecycle!Shutdowns : Lifecycle!shutdownAndFlush(c, s)
        PROVE  LifecycleInv'
    BY <2>3, ShutdownIsCalled, ShutdownEnds
  <2> QED BY <2>1, <2>2, <2>3 DEF Lifecycle!Next
<1> QED BY <1>1, <1>2, PTL DEF Lifecycle!Spec

\* The client whose init() ended last has the connector and the experiment's
\* events until it is itself shut down, however many clients share the instance
\* name: no teardown of another client, however late, takes them away.
LEMMA ConnectionsLast ==
  ASSUME Lifecycle!LifecycleAssumption
  PROVE  Lifecycle!Spec => []Lifecycle!LatestIsConnected
<1>1. LifecycleInv => Lifecycle!LatestIsConnected
  BY DEF LifecycleInv, LatestInv, Lifecycle!LatestIsConnected
<1> QED BY <1>1, LifecycleInductive, PTL

\* An init() that ended, and that no shutdown() has followed, leaves its client
\* up, whatever shutdowns were under way when it was called.
LEMMA InitsLast ==
  ASSUME Lifecycle!LifecycleAssumption
  PROVE  Lifecycle!Spec => []Lifecycle!OwnInitHolds
<1>1. LifecycleInv => Lifecycle!OwnInitHolds
  BY DEF LifecycleInv, ClientInv, InitInv, Lifecycle!OwnInitHolds
<1> QED BY <1>1, LifecycleInductive, PTL

\* The newest client that is up has the connector and the experiment's events,
\* and an undisturbed init() that ended leaves its client up: of any number of
\* clients, calls of init() and shutdown(), and failures.
THEOREM TheNewestClientIsUp == Spec => []LifecycleHolds
<1>1. Lifecycle!LatestIsConnected /\ Lifecycle!OwnInitHolds => LifecycleHolds
  BY DEF LifecycleHolds
<1>2. Lifecycle!LifecycleAssumption
  BY PartsAssumption
<1> QED BY <1>1, <1>2, EachPartRuns, ConnectionsLast, InitsLast, PTL

-----------------------------------------------------------------------------
(* LegacyMigration: the inductive invariant.                                *)

Domains == DOMAIN store = LegacyKeys /\ DOMAIN wanted = LegacyKeys

\* The key of the call that runs; what a delete has done before it forgets.
CallInv ==
  /\ op # None => op.key \in LegacyKeys
  /\ Migration!At("after") /\ op.kind = "delete" => store[op.key] = None

\* While entries are imported, each one in the preferences has been handled or
\* has not been looked at; what was handled is in the store unless it was
\* rejected.  A completed import has left no entry.
ImportInv ==
  /\ Migration!At("import") => legacy = entries \cup handled
  /\ Migration!At("import") \/ Migration!At("handled") => \A k \in handled \ Rejected : store[k] # None
  /\ migrated => legacy = {}

\* A deleted key can only come back through the preferences.
GoneInv == \A k \in LegacyKeys : wanted[k] = "deleted" /\ k \notin back => k \notin legacy

\* What the application has not touched it has not written.
OldInv == \A k \in LegacyKeys : wanted[k] = "old" => store[k] \in {None, "legacy"}

MigrationInv == Domains /\ CallInv /\ ImportInv /\ GoneInv /\ OldInv /\ Migration!MigrationHolds

-----------------------------------------------------------------------------
(* LegacyMigration: the steps.                                              *)

\* A call is made, and ensureMigrated decides what to do.
LEMMA CallStep ==
  ASSUME MigrationInv, \/ \E k \in LegacyKeys, how \in {"set", "get", "delete"} : Migration!Call(how, k)
              \/ Migration!Idle \/ Migration!ReadEntries \/ Migration!ReadFails
              \/ Migration!getDisk \/ Migration!rearmAfterWrite
  PROVE  MigrationInv'
<1>1. UNCHANGED <<store, legacy, settled, migrated, wanted, back>>
  BY DEF Migration!Call, Migration!Idle, Migration!ReadEntries, Migration!ReadFails,
         Migration!getDisk, Migration!rearmAfterWrite, Migration!prefs, Migration!flags
<1>2. Migration!MigrationHolds' /\ Domains' /\ GoneInv' /\ OldInv'
  BY <1>1 DEF MigrationInv, Migration!MigrationHolds, Migration!WrittenStays,
         Migration!DeletedStays, Migration!NothingLost, Domains, GoneInv, OldInv
<1>3. CallInv'
  BY <1>1 DEF MigrationInv, CallInv, Migration!At, Migration!Goes, Migration!Returns,
         Migration!Call, Migration!Idle, Migration!ReadEntries, Migration!ReadFails,
         Migration!getDisk, Migration!rearmAfterWrite
<1>4. ImportInv'
  BY <1>1 DEF MigrationInv, ImportInv, Migration!At, Migration!Goes, Migration!Returns,
         Migration!Call, Migration!Idle, Migration!ReadEntries, Migration!ReadFails,
         Migration!getDisk, Migration!rearmAfterWrite
<1> QED BY <1>2, <1>3, <1>4 DEF MigrationInv

\* An entry is looked at: the store has it afterwards, unless it rejected it.
LEMMA ImportStep ==
  ASSUME Migration!LegacyMigrationAssumption, MigrationInv, NEW k \in LegacyKeys, Migration!Import(k)
  PROVE  MigrationInv'
<1>1. /\ store' = [store EXCEPT ![k] = Migration!Imported(k)] /\ k \in entries /\ Migration!At("import")
      /\ entries' = entries \ {k} /\ handled' = handled \cup {k}
      /\ UNCHANGED <<legacy, settled, migrated, armed, op, importStep, wanted, back>>
  BY DEF Migration!Import, Migration!prefs, Migration!flags
<1>2. /\ \A j \in LegacyKeys \ {k} : store'[j] = store[j]
      /\ store'[k] = Migration!Imported(k)
      /\ store[k] # None => store'[k] = store[k]
      /\ k \notin Rejected => store'[k] # None
      /\ store'[k] \in {store[k], "legacy"}
  BY <1>1 DEF Migration!Imported, MigrationInv, Domains, Migration!LegacyMigrationAssumption
<1>3. k \in legacy
  BY <1>1 DEF MigrationInv, ImportInv
<1>4. Migration!WrittenStays' /\ Migration!DeletedStays' /\ Migration!NothingLost' /\ OldInv'
  <2>1. Migration!WrittenStays'
    BY <1>1, <1>2 DEF MigrationInv, Migration!MigrationHolds, Migration!WrittenStays,
           Migration!LegacyMigrationAssumption
  <2>2. Migration!DeletedStays'
    BY <1>1, <1>2, <1>3 DEF MigrationInv, Migration!MigrationHolds, Migration!DeletedStays, GoneInv
  <2>3. Migration!NothingLost'
    BY <1>1, <1>2 DEF MigrationInv, Migration!MigrationHolds, Migration!NothingLost
  <2>4. OldInv'
    BY <1>1, <1>2 DEF MigrationInv, OldInv
  <2> QED BY <2>1, <2>2, <2>3, <2>4
<1>5. Domains' /\ GoneInv' /\ CallInv'
  BY <1>1 DEF MigrationInv, Domains, GoneInv, CallInv, Migration!At
<1>6. ImportInv'
  <2>1. \A j \in handled' \ Rejected : store'[j] # None
    <3>1. \A j \in handled \ Rejected : store[j] # None
      BY <1>1 DEF MigrationInv, ImportInv
    <3>2. \A j : store[j] # None => store'[j] # None
      BY <1>1 DEF Migration!Imported, Migration!LegacyMigrationAssumption
    <3> QED BY <1>1, <1>2, <3>1, <3>2
  <2> QED BY <1>1, <2>1 DEF MigrationInv, ImportInv, Migration!At
<1> QED BY <1>4, <1>5, <1>6 DEF MigrationInv, Migration!MigrationHolds

\* Keys go from the preferences, or stay there and are noted: what is handled
\* is in the store, and forget has deleted its key.
LEMMA RemovesStep ==
  ASSUME MigrationInv, NEW keys, Migration!Removes(keys)
  PROVE  /\ legacy' \in {legacy, legacy \ keys} /\ back \subseteq back'
         /\ \A k \in keys : k \notin back' => k \notin legacy'
BY DEF Migration!Removes

\* The import stops or completes, and its entries are removed.
LEMMA HandledStep ==
  ASSUME Migration!LegacyMigrationAssumption, MigrationInv,
         (\E k \in LegacyKeys : Migration!ImportFails(k)) \/ Migration!RemoveHandled \/ Migration!Completes
  PROVE  MigrationInv'
<1>1. CASE \E k \in LegacyKeys : Migration!ImportFails(k)
  <2>1. UNCHANGED <<store, legacy, settled, migrated, wanted, back, op, handled>>
        /\ Migration!At("import") /\ importStep' = "handled"
    BY <1>1 DEF Migration!ImportFails, Migration!AfterFailure, Migration!Goes, Migration!prefs,
           Migration!flags
  <2> QED BY <2>1 DEF MigrationInv, Migration!MigrationHolds, Migration!WrittenStays,
                 Migration!DeletedStays, Migration!NothingLost, Domains, GoneInv, OldInv, CallInv,
                 ImportInv, Migration!At
<1>2. CASE Migration!RemoveHandled \/ Migration!Completes
  <2>1. UNCHANGED <<store, settled, wanted, op>> /\ importStep' = "store" /\ back \subseteq back'
    BY <1>2 DEF Migration!RemoveHandled, Migration!Completes, Migration!Removes, Migration!Goes
  <2>2. legacy' \subseteq legacy /\ \A k \in (legacy \ legacy') \ Rejected : store[k] # None
    <3>1. CASE Migration!RemoveHandled
      <4>1. legacy' \subseteq legacy /\ legacy \ legacy' \subseteq handled
        BY <3>1, RemovesStep DEF Migration!RemoveHandled
      <4> QED BY <3>1, <4>1 DEF Migration!RemoveHandled, MigrationInv, ImportInv
    <3>2. CASE Migration!Completes
      <4>1. legacy' \subseteq legacy /\ legacy = handled /\ Migration!At("import")
        BY <3>2 DEF Migration!Completes, MigrationInv, ImportInv
      <4> QED BY <4>1 DEF MigrationInv, ImportInv
    <3> QED BY <1>2, <3>1, <3>2
  <2>3. Migration!WrittenStays' /\ Migration!DeletedStays' /\ GoneInv' /\ OldInv' /\ Domains'
    BY <2>1, <2>2 DEF MigrationInv, Migration!MigrationHolds, Migration!WrittenStays,
           Migration!DeletedStays, GoneInv, OldInv, Domains
  <2>4. Migration!NothingLost'
    <3> SUFFICES ASSUME NEW k \in LegacyKeys \ Rejected, wanted[k] = "old"
                 PROVE  store[k] = "legacy" \/ k \in legacy' \cap settled
      BY <2>1 DEF Migration!NothingLost
    <3>1. store[k] = "legacy" \/ k \in legacy \cap settled
      BY DEF MigrationInv, Migration!MigrationHolds, Migration!NothingLost
    <3>2. store[k] \in {None, "legacy"}
      BY DEF MigrationInv, OldInv
    <3> QED BY <2>2, <3>1, <3>2
  <2>5. migrated' => legacy' = {}
    BY <1>2, <2>2 DEF Migration!RemoveHandled, Migration!Completes, MigrationInv, ImportInv,
           Migration!flags
  <2>6. CallInv' /\ ImportInv'
    BY <2>1, <2>5 DEF MigrationInv, CallInv, ImportInv, Migration!At
  <2> QED BY <2>3, <2>4, <2>6 DEF MigrationInv, Migration!MigrationHolds
<1> QED BY <1>1, <1>2

\* The store is written or deleted from, or fails.
LEMMA StoreStep ==
  ASSUME Migration!LegacyMigrationAssumption, MigrationInv, Migration!setDisk \/ Migration!deleteDisk
  PROVE  MigrationInv'
<1>1. /\ Migration!At("store") /\ op.key \in LegacyKeys
      /\ UNCHANGED <<legacy, settled, migrated, entries, handled, back>>
  BY DEF Migration!setDisk, Migration!deleteDisk, Migration!prefs, Migration!flags, MigrationInv,
         CallInv, Migration!At
<1>2. CASE UNCHANGED <<store, wanted>> /\ Migration!Returns
  BY <1>1, <1>2 DEF Migration!Returns, MigrationInv, Migration!MigrationHolds,
         Migration!WrittenStays, Migration!DeletedStays, Migration!NothingLost, Domains, GoneInv,
         OldInv, CallInv, ImportInv, Migration!At
<1>3. CASE /\ op' = op /\ importStep' = "after"
           /\ \/ /\ store' = [store EXCEPT ![op.key] = "app"] /\ op.kind = "set"
                 /\ wanted' = [wanted EXCEPT ![op.key] = "written"]
              \/ /\ store' = [store EXCEPT ![op.key] = None] /\ op.kind = "delete"
                 /\ wanted' = [wanted EXCEPT ![op.key] = "unsure"]
  <2>1. /\ \A k \in LegacyKeys \ {op.key} : store'[k] = store[k] /\ wanted'[k] = wanted[k]
        /\ \/ store'[op.key] = "app" /\ wanted'[op.key] = "written" /\ op.kind = "set"
           \/ store'[op.key] = None /\ wanted'[op.key] = "unsure" /\ op.kind = "delete"
    BY <1>1, <1>3 DEF MigrationInv, Domains
  <2>2. Domains'
    BY <1>3 DEF MigrationInv, Domains
  <2>3. Migration!WrittenStays' /\ Migration!DeletedStays' /\ Migration!NothingLost' /\ GoneInv' /\ OldInv'
    BY <1>1, <2>1 DEF MigrationInv, Migration!MigrationHolds, Migration!WrittenStays,
           Migration!DeletedStays, Migration!NothingLost, GoneInv, OldInv
  <2>4. CallInv' /\ ImportInv'
    BY <1>1, <1>3, <2>1 DEF MigrationInv, CallInv, ImportInv, Migration!At
  <2> QED BY <2>2, <2>3, <2>4 DEF MigrationInv, Migration!MigrationHolds
<1> QED BY <1>2, <1>3 DEF Migration!setDisk, Migration!deleteDisk, Migration!Goes

\* The legacy entry of a deleted key is removed, if any can be left.
LEMMA ForgetStep == ASSUME MigrationInv, Migration!forget PROVE MigrationInv'
<1>1. /\ Migration!At("after") /\ op.kind = "delete" /\ op.key \in LegacyKeys /\ store[op.key] = None
      /\ wanted' = [wanted EXCEPT ![op.key] = "deleted"] /\ op' = None
      /\ UNCHANGED <<store, settled, migrated>>
  BY DEF Migration!forget, Migration!Returns, MigrationInv, CallInv, Migration!At, Migration!flags
<1>2. /\ legacy' \subseteq legacy /\ legacy \ legacy' \subseteq {op.key} /\ back \subseteq back'
      /\ op.key \notin back' => op.key \notin legacy'
  BY RemovesStep DEF Migration!forget, Migration!MustForget, MigrationInv, ImportInv
<1>3. /\ \A k \in LegacyKeys \ {op.key} : wanted'[k] = wanted[k]
      /\ wanted'[op.key] = "deleted" /\ DOMAIN wanted' = LegacyKeys
  BY <1>1 DEF MigrationInv, Domains
<1>4. Migration!WrittenStays' /\ Migration!DeletedStays' /\ Migration!NothingLost' /\ GoneInv' /\ OldInv'
  BY <1>1, <1>2, <1>3 DEF MigrationInv, Migration!MigrationHolds, Migration!WrittenStays,
         Migration!DeletedStays, Migration!NothingLost, GoneInv, OldInv
<1>5. Domains' /\ CallInv' /\ ImportInv'
  BY <1>1, <1>2, <1>3 DEF MigrationInv, Domains, CallInv, ImportInv, Migration!At
<1> QED BY <1>4, <1>5 DEF MigrationInv, Migration!MigrationHolds

\* The platform writes the preferences, or the process dies and finds them as
\* they were last written.
LEMMA PlatformStep == ASSUME MigrationInv, Migration!Settle \/ Migration!Die PROVE MigrationInv'
<1>1. CASE Migration!Settle
  <2>1. UNCHANGED <<store, legacy, migrated, wanted, back, op, importStep, entries, handled>>
        /\ settled' = legacy
    BY <1>1 DEF Migration!Settle, Migration!flags, Migration!run
  <2> QED BY <2>1 DEF MigrationInv, Migration!MigrationHolds, Migration!WrittenStays,
                 Migration!DeletedStays, Migration!NothingLost, Domains, GoneInv, OldInv, CallInv,
                 ImportInv, Migration!At
<1>2. CASE Migration!Die
  <2>1. /\ UNCHANGED <<store, settled, wanted>> /\ op' = None /\ migrated' = FALSE
        /\ legacy' = settled /\ back' = back \cup (settled \ legacy)
    BY <1>2 DEF Migration!Die, Migration!Returns
  <2>2. Migration!WrittenStays' /\ Migration!DeletedStays' /\ Migration!NothingLost' /\ GoneInv' /\ OldInv' /\ Domains'
    BY <2>1 DEF MigrationInv, Migration!MigrationHolds, Migration!WrittenStays,
           Migration!DeletedStays, Migration!NothingLost, GoneInv, OldInv, Domains
  <2> QED BY <2>1, <2>2 DEF MigrationInv, Migration!MigrationHolds, CallInv, ImportInv, Migration!At
<1> QED BY <1>1, <1>2

-----------------------------------------------------------------------------
(* Whatever is called, fails or dies in whatever order: a value that the    *)
(* application wrote is never replaced by an imported one, a key that it    *)
(* deleted does not come back unless the platform kept its legacy entry,    *)
(* and no entry that it has not touched is lost.                            *)
LEMMA MigrationIsSafe ==
  ASSUME Migration!LegacyMigrationAssumption
  PROVE  Migration!Spec => []Migration!MigrationHolds
<1>1. Migration!Init => MigrationInv
  BY DEF Migration!Init, MigrationInv, Migration!MigrationHolds, Migration!WrittenStays,
         Migration!DeletedStays, Migration!NothingLost, Domains, GoneInv, OldInv, CallInv,
         ImportInv, Migration!At
<1>2. MigrationInv /\ [Migration!Next]_Migration!vars => MigrationInv'
  <2> SUFFICES ASSUME MigrationInv, [Migration!Next]_Migration!vars PROVE MigrationInv'
    OBVIOUS
  <2>1. CASE UNCHANGED Migration!vars
    BY <2>1 DEF Migration!vars, Migration!prefs, Migration!flags, Migration!run, MigrationInv,
           Migration!MigrationHolds, Migration!WrittenStays, Migration!DeletedStays,
           Migration!NothingLost, Domains, GoneInv, OldInv, CallInv, ImportInv, Migration!At
  <2> QED BY <2>1, CallStep, ImportStep, HandledStep, StoreStep, ForgetStep, PlatformStep
             DEF Migration!Next
<1>3. MigrationInv => Migration!MigrationHolds
  BY DEF MigrationInv
<1> QED BY <1>1, <1>2, <1>3, PTL DEF Migration!Spec

\* No import replaces, revives or loses an entry, in any order of calls, of
\* failures and of deaths of the process.
THEOREM NoEntryIsLost == Spec => []MigrationHolds
<1>1. Migration!MigrationHolds => MigrationHolds
  BY DEF MigrationHolds
<1>2. Migration!LegacyMigrationAssumption
  BY PartsAssumption
<1> QED BY <1>1, <1>2, EachPartRuns, MigrationIsSafe, PTL


-----------------------------------------------------------------------------
(* ReplayFixture                                                            *)

\* How many answers a request has had, by where it is.
FixtureAnswered(r) ==
  /\ at[r] = "none" => size[r] = 0
  /\ at[r] \in {"none", "delayed"} => answers[r] = 0
  /\ at[r] = "body" => answers[r] = IF Fixture!IsTooLarge(r) THEN 1 ELSE 0
  /\ at[r] = "answered" => answers[r] = 1
  /\ at[r] = "gone" => answers[r] <= 1
  /\ at[r] = "delayed" <=> r \in timers /\ at[r] \notin {"answered", "gone"}

\* A server that is not listening has neither requests nor timers.
FixtureInv ==
  /\ at \in [Connections -> {"none", "body", "delayed", "answered", "gone"}]
  /\ size \in [Connections -> Nat] /\ answers \in [Connections -> Nat]
  /\ timers \subseteq Connections
  /\ \A r \in Connections : FixtureAnswered(r)
  /\ server # "listening" =>
       timers = {} /\ \A r \in Connections : at[r] \notin {"body", "delayed"}

\* The server starts, fails to start, or is closed.
LEMMA ServerStep ==
  ASSUME FixtureInv, Fixture!listen \/ Fixture!onListening \/ Fixture!onError \/ Fixture!close
  PROVE  FixtureInv'
<1>1. CASE Fixture!listen \/ Fixture!onListening \/ Fixture!onError
  BY <1>1 DEF FixtureInv, FixtureAnswered, Fixture!listen, Fixture!onListening, Fixture!onError,
              Fixture!IsTooLarge
<1>2. CASE Fixture!close
  <2>1. UNCHANGED <<size, answers>> /\ timers' = {}
    BY <1>2 DEF Fixture!close, Fixture!KeptTimers
  <2>2. CASE server = "listening"
    BY <1>2, <2>1, <2>2 DEF FixtureInv, FixtureAnswered, Fixture!close, Fixture!IsTooLarge
  <2>3. CASE server # "listening"
    BY <1>2, <2>1, <2>3 DEF FixtureInv, FixtureAnswered, Fixture!close, Fixture!IsTooLarge
  <2> QED BY <2>2, <2>3
<1> QED BY <1>1, <1>2

\* A request arrives, ends, is answered or breaks off.
LEMMA RequestStep ==
  ASSUME FixtureInv, MaxBody \in Nat, NEW r \in Connections,
         \/ Fixture!Connect(r) \/ Fixture!onData(r) \/ Fixture!onEnd(r)
         \/ Fixture!onEndTooLarge(r) \/ Fixture!Delay(r) \/ Fixture!Destroy(r)
  PROVE  FixtureInv'
<1>1. \A c \in Connections \ {r} :
        /\ at'[c] = at[c] /\ size'[c] = size[c] /\ answers'[c] = answers[c]
        /\ c \in timers' <=> c \in timers
  BY DEF FixtureInv, Fixture!Connect, Fixture!onData, Fixture!onEnd, Fixture!onEndTooLarge,
         Fixture!Delay, Fixture!Destroy, Fixture!Moves, Fixture!json
<1>2. \A c \in Connections \ {r} : FixtureAnswered(c)'
  BY <1>1 DEF FixtureInv, FixtureAnswered, Fixture!IsTooLarge
<1>3. /\ at' \in [Connections -> {"none", "body", "delayed", "answered", "gone"}]
      /\ size' \in [Connections -> Nat] /\ answers' \in [Connections -> Nat]
      /\ timers' \subseteq Connections /\ server' = server
  BY DEF FixtureInv, Fixture!Connect, Fixture!onData, Fixture!onEnd, Fixture!onEndTooLarge,
         Fixture!Delay, Fixture!Destroy, Fixture!Moves, Fixture!json
<1>4. FixtureAnswered(r)' /\ (server # "listening" => timers' = {} /\ at'[r] \notin {"body", "delayed"})
  <2> USE DEF FixtureInv, FixtureAnswered, Fixture!IsTooLarge
  <2>1. CASE Fixture!Connect(r)
    BY <2>1 DEF Fixture!Connect, Fixture!Moves
  <2>2. CASE Fixture!onData(r)
    BY <2>2 DEF Fixture!onData, Fixture!json
  <2>3. CASE Fixture!onEnd(r)
    BY <2>3 DEF Fixture!onEnd, Fixture!EndsUnanswered, Fixture!Moves, Fixture!json
  <2>4. CASE Fixture!onEndTooLarge(r)
    BY <2>4 DEF Fixture!onEndTooLarge, Fixture!Moves
  <2>5. CASE Fixture!Delay(r)
    BY <2>5 DEF Fixture!Delay, Fixture!Moves, Fixture!json
  <2>6. CASE Fixture!Destroy(r)
    BY <2>6 DEF Fixture!Destroy, Fixture!Moves
  <2> QED BY <2>1, <2>2, <2>3, <2>4, <2>5, <2>6
<1>5. server' # "listening" => \A c \in Connections \ {r} : at'[c] \notin {"body", "delayed"}
  BY <1>1, <1>3 DEF FixtureInv
<1> QED BY <1>2, <1>3, <1>4, <1>5 DEF FixtureInv

\* The fixture answers each request once and holds nothing when it is off.
LEMMA FixtureIsSafe == Fixture!Spec => [](Fixture!AnsweredOnce /\ Fixture!OffIsQuiet)
<1>1. Fixture!Init => FixtureInv
  BY DEF Fixture!Init, FixtureInv, FixtureAnswered
<1>2. FixtureInv /\ [Fixture!Next]_Fixture!vars => FixtureInv'
  <2> SUFFICES ASSUME FixtureInv, [Fixture!Next]_Fixture!vars PROVE FixtureInv'
    OBVIOUS
  <2>1. CASE UNCHANGED Fixture!vars
    BY <2>1 DEF Fixture!vars, FixtureInv, FixtureAnswered, Fixture!IsTooLarge
  <2>2. MaxBody \in Nat
    BY PartsAssumption DEF Fixture!ReplayFixtureAssumption
  <2> QED BY <2>1, <2>2, ServerStep, RequestStep DEF Fixture!Next
<1>3. FixtureInv => Fixture!AnsweredOnce /\ Fixture!OffIsQuiet
  BY DEF FixtureInv, FixtureAnswered, Fixture!AnsweredOnce, Fixture!OffIsQuiet, Fixture!IsTooLarge
<1> QED BY <1>1, <1>2, <1>3, PTL DEF Fixture!Spec


-----------------------------------------------------------------------------
(* Publish                                                                  *)

\* The commands of a run by what lies behind it.
Late == {"prepare", "command", "prepack", "pack", "postpack", "upload"}
AfterArtifacts == {"preview", "previewPostpack", "confirm"} \cup Late
AfterQuality ==
  {"coverage", "artifacts", "checkPack", "checkPackCleanup", "checkPackFailed"} \cup AfterArtifacts
AfterAuth == {"quality"} \cup AfterQuality

\* A gate that lies behind the run has been passed, unless an option spares it.
\* A run that skips the quality gate is a dry run.
PassedInv ==
  /\ pc \in {"registry", "tree", "auth"} \cup AfterAuth => "releaseDocs" \in passed
  /\ pc \in AfterArtifacts => "artifacts" \in passed
  /\ pc # "idle" /\ "skipQuality" \in options => Release!DryRun
  /\ ~Release!DryRun =>
       /\ pc \in AfterQuality => "quality" \in passed
       /\ pc \in Late => "confirmed" \in passed
       /\ "skipChecks" \notin options =>
            /\ pc \in {"tree", "auth"} \cup AfterAuth => "unpublished" \in passed
            /\ pc \in {"auth"} \cup AfterAuth => "tree" \in passed
            /\ pc \in AfterAuth => "auth" \in passed

\* What is packed is prepared, or an edit has been made that stops the upload.
PackedInv ==
  /\ pc = "pack" => docs = "prepared"
  /\ pc = "postpack" => packed = "prepared" \/ (packed = "edited" /\ edited = TRUE)
  /\ pc = "upload" => packed = "prepared" /\ ~Release!DryRun

\* A run publishes with its last command, and numbers of runs do not come again.
RunInv ==
  /\ runs \in Nat /\ registry \in Int /\ registry <= runs /\ edited \in BOOLEAN
  /\ pc \notin {"idle", "cleanupDone", "cleanupFailed"} => ~Release!Published
  /\ pc = "cleanupDone" => Release!DryRun \/ Release!Published
  /\ pc # "idle" => exit = "none" /\ runs > 0

ReleaseInv == PassedInv /\ PackedInv /\ RunInv /\ ReleaseHolds

\* The definitions that say what a gate of the run does.
LEMMA PreflightStep == ASSUME ReleaseInv, Release!Preflight PROVE ReleaseInv'
<1> USE DEF ReleaseInv, PassedInv, PackedInv, RunInv, ReleaseHolds, Release!DryRun,
            Release!Published, Release!UploadedIsCanonical, Release!SuccessIsComplete,
            Release!GatesHeld, Release!Required, Late, AfterArtifacts, AfterQuality, AfterAuth,
            Release!Exit, Release!Goto, Release!Pass, Release!Refuse, Release!run, Release!tree,
            Release!Restored, Release!Prepared, Release!LifecycleFails
<1>1. CASE Release!Recover
  BY <1>1 DEF Release!Recover
<1>2. CASE Release!assertReleaseDocs
  BY <1>2 DEF Release!assertReleaseDocs
<1>3. CASE Release!isPackageVersionPublished
  BY <1>3 DEF Release!isPackageVersionPublished
<1>4. CASE Release!TreeCheck
  BY <1>4 DEF Release!TreeCheck, Release!confirmOrExit
<1>5. CASE Release!AuthCheck
  BY <1>5 DEF Release!AuthCheck
<1>6. CASE Release!QualityGate
  BY <1>6 DEF Release!QualityGate
<1>7. CASE Release!CoverageGate
  BY <1>7 DEF Release!CoverageGate
<1>8. CASE Release!Artifacts
  BY <1>8 DEF Release!Artifacts
<1>9. CASE Release!CheckPackPrepares
  BY <1>9 DEF Release!CheckPackPrepares
<1>10. CASE Release!CheckPackCleansUp
  BY <1>10 DEF Release!CheckPackCleansUp
<1>11. CASE Release!PreviewPrepack
  BY <1>11 DEF Release!PreviewPrepack
<1>12. CASE Release!getPackSummary
  BY <1>12 DEF Release!getPackSummary
<1>13. CASE Release!Confirm
  BY <1>13 DEF Release!Confirm, Release!confirmOrExit
<1> QED BY <1>1, <1>2, <1>3, <1>4, <1>5, <1>6, <1>7, <1>8, <1>9, <1>10, <1>11, <1>12, <1>13
        DEF Release!Preflight

\* What is packed is what the documents are.
LEMMA PacksWhatIsThere ==
  ASSUME edited \in BOOLEAN, Release!Pack
  PROVE  packed' = docs \/ (packed' = "edited" /\ edited' = TRUE)
<1>1. CASE edited = TRUE
  BY <1>1 DEF Release!Pack, Release!tree
<1>2. CASE edited = FALSE
  <2>1. packed' = IF edited THEN "edited" ELSE docs
    BY DEF Release!Pack
  <2>2. ~edited
    BY <1>2
  <2>3. packed' = docs
    BY <2>1, <2>2, Zenon
  <2> QED BY <2>3
<1> QED BY <1>1, <1>2

\* The command that packs and uploads, between prepare and cleanup.
LEMMA PackageStep == ASSUME ReleaseInv, Release!PackageCommand PROVE ReleaseInv'
<1> USE DEF ReleaseInv, PassedInv, PackedInv, RunInv, ReleaseHolds, Release!DryRun,
            Release!Published, Release!UploadedIsCanonical, Release!SuccessIsComplete,
            Release!GatesHeld, Release!Required, Late, AfterArtifacts, AfterQuality, AfterAuth,
            Release!Exit, Release!Goto, Release!run, Release!tree, Release!Nobody,
            Release!Restorable, Release!Restored, Release!Prepared, Release!LifecycleFails
<1>1. CASE Release!preparePackageDocs
  BY <1>1 DEF Release!preparePackageDocs
<1>2. CASE Release!CommandStarts
  BY <1>2 DEF Release!CommandStarts, Release!RunsScripts
<1>3. CASE Release!Prepack
  BY <1>3 DEF Release!Prepack
<1>4. CASE Release!Pack
  <2>1. /\ pc = "pack" /\ pc' = "postpack" /\ docs = "prepared" /\ ~Release!Published
        /\ packed' = "prepared" \/ (packed' = "edited" /\ edited' = TRUE)
        /\ UNCHANGED <<options, passed, docs, edited, registry, runs, exit>>
    <3>1. /\ pc = "pack" /\ pc' = "postpack" /\ docs = "prepared" /\ ~Release!Published
          /\ UNCHANGED <<options, passed, docs, edited, registry, runs, exit>>
      BY <1>4 DEF Release!Pack
    <3>2. packed' = docs \/ (packed' = "edited" /\ edited' = TRUE)
      <4>1. edited \in BOOLEAN
        OBVIOUS
      <4> HIDE DEF ReleaseInv
      <4> QED BY <1>4, <4>1, PacksWhatIsThere
    <3> HIDE DEF ReleaseInv
    <3> QED BY <3>1, <3>2
  <2>2. PassedInv'
    BY <2>1
  <2>3. PackedInv'
    BY <2>1
  <2>4. RunInv' /\ ~Release!Published'
    BY <2>1
  <2> QED BY <2>1, <2>2, <2>3, <2>4
<1>5. CASE Release!Postpack
  BY <1>5 DEF Release!Postpack
<1>6. CASE Release!Upload
  <2>1. /\ pc = "upload" /\ pc' \in {"cleanupDone", "cleanupFailed"} /\ exit' = "none"
        /\ packed = "prepared" /\ ~Release!DryRun /\ registry' \in {registry, runs}
        /\ pc' = "cleanupDone" => registry = 0 /\ registry' = runs
        /\ UNCHANGED <<options, passed, packed, docs, edited, runs>>
    BY <1>6 DEF Release!Upload
  <2>2. Release!Required \subseteq passed
    BY <2>1
  <2>3. PassedInv' /\ PackedInv'
    BY <2>1
  <2>4. RunInv'
    BY <2>1
  <2> QED BY <2>1, <2>2, <2>3, <2>4
<1>7. CASE Release!cleanupPackageDocs
  BY <1>7 DEF Release!cleanupPackageDocs
<1> QED BY <1>1, <1>2, <1>3, <1>4, <1>5, <1>6, <1>7 DEF Release!PackageCommand

\* A run begins; and what happens around it: edits, another release, a kill.
LEMMA AroundTheRun ==
  ASSUME ReleaseInv,
         Release!Start \/ Release!Edit \/ Release!TakeBack \/ Release!OtherPublishes \/ Release!Kill
  PROVE  ReleaseInv'
<1> USE DEF ReleaseInv, PassedInv, PackedInv, RunInv, ReleaseHolds, Release!DryRun,
            Release!Published, Release!UploadedIsCanonical, Release!SuccessIsComplete,
            Release!GatesHeld, Release!Required, Late, AfterArtifacts, AfterQuality, AfterAuth,
            Release!Running, Release!Exit, Release!run, Release!tree
<1>1. CASE Release!Start
  BY <1>1 DEF Release!Start
<1>2. CASE Release!Edit
  BY <1>2 DEF Release!Edit
<1>3. CASE Release!TakeBack
  BY <1>3 DEF Release!TakeBack
<1>4. CASE Release!OtherPublishes
  BY <1>4 DEF Release!OtherPublishes, Release!Nobody, Release!Other
<1>5. CASE Release!Kill
  BY <1>5 DEF Release!Kill
<1> QED BY <1>1, <1>2, <1>3, <1>4, <1>5

\* Whatever options a run is given, whatever fails, whoever edits a document or
\* kills the run: what is uploaded was packed with the repository's documents
\* and passed the gates of that run, and a run that ends well is complete.
THEOREM ReleasesAreSound == Spec => []ReleaseHolds
<1>1. Release!Init => ReleaseInv
  <2> SUFFICES ASSUME Release!Init PROVE ReleaseInv
    OBVIOUS
  <2>1. pc = "idle" /\ exit = "none" /\ runs = 0 /\ registry = 0 /\ edited \in BOOLEAN
    BY DEF Release!Init, Release!Nobody
  <2>2. PassedInv
    BY <2>1 DEF PassedInv, Late, AfterArtifacts, AfterQuality, AfterAuth
  <2>3. PackedInv /\ RunInv
    BY <2>1 DEF PackedInv, RunInv
  <2>4. ReleaseHolds
    BY <2>1 DEF ReleaseHolds, Release!UploadedIsCanonical, Release!SuccessIsComplete,
                Release!GatesHeld, Release!Published
  <2> QED BY <2>2, <2>3, <2>4 DEF ReleaseInv
<1>2. ReleaseInv /\ [Release!Next]_Release!vars => ReleaseInv'
  <2> SUFFICES ASSUME ReleaseInv, [Release!Next]_Release!vars PROVE ReleaseInv'
    OBVIOUS
  <2>1. CASE UNCHANGED Release!vars
    BY <2>1 DEF Release!vars, ReleaseInv, PassedInv, PackedInv, RunInv, ReleaseHolds,
                Release!DryRun, Release!Published, Release!UploadedIsCanonical,
                Release!SuccessIsComplete, Release!GatesHeld, Release!Required
  <2> QED BY <2>1, PreflightStep, PackageStep, AroundTheRun DEF Release!Next
<1>3. ReleaseInv => ReleaseHolds
  BY DEF ReleaseInv
<1> QED BY <1>1, <1>2, <1>3, EachPartRuns, PTL DEF Release!Spec

-----------------------------------------------------------------------------
(* The lock of the device replays.                                          *)

Untouched(f) == f \notin changed
Reading == {"list", "suites", "hash", "refresh", "check"}
Hashable == {"app", "library", "generated"}

\* A lock, and that it records the given contents of the watched files: of the
\* library also that it is absent, and nothing that git ignores unless git failed.
IsLock(l) ==
  /\ l = [of |-> "lock", suites |-> l.suites, suiteFiles |-> l.suiteFiles,
          runtime |-> l.runtime, manifest |-> l.manifest]
  /\ l.runtime = [f \in DOMAIN l.runtime |-> l.runtime[f]]
  /\ DOMAIN l.runtime \subseteq Hashable
Records(l, contents) ==
  /\ contents["manifest"] = l.manifest /\ contents["suite"] = l.suiteFiles
  /\ "app" \in DOMAIN l.runtime /\ contents["app"] = l.runtime["app"]
  /\ "library" \in DOMAIN l.runtime =>
       contents["library"] = l.runtime["library"] /\ contents["library"] # Replay!Absent
  /\ "library" \notin DOMAIN l.runtime => contents["library"] = Replay!Absent
  /\ gitFaults = 0 => "generated" \notin DOMAIN l.runtime

\* What a command has read is what the files are that nobody changed since.
ReadInv ==
  /\ (step \in Reading \cup {"run"} /\ Untouched("app") /\ Untouched("suite") /\ Untouched("manifest"))
       => Replay!IsCovered(tree["manifest"])
  /\ step \in Reading /\ Untouched("manifest") => found.suites = tree["manifest"].features
  /\ step = "hash" => hashed["suite"] = found.suiteFiles
  /\ step = "hash" /\ Untouched("suite") => hashed["suite"] = tree["suite"]
ListedInv == step \in {"suites", "hash"} =>
  /\ found.files \subseteq Hashable /\ "app" \in found.files
  /\ gitFaults = 0 => "generated" \notin found.files
  /\ Untouched("library") =>
       ("library" \in found.files <=> tree["library"] # Replay!Absent)
FoundInv == step \in {"refresh", "check"} =>
  /\ IsLock(found) /\ Records(found, hashed)
  /\ \A f \in Replay!Watched : Untouched(f) => hashed[f] = tree[f]
LockInv == lock # Replay!NoLock => IsLock(lock) /\ Records(lock, reviewed)

ReplayInv ==
  /\ DOMAIN tree = Replay!Files /\ tree = [f \in Replay!Files |-> tree[f]]
  /\ DOMAIN hashed = Replay!Files /\ gitFaults \in Nat
  /\ step \in {"list", "suites", "hash"} => kind \in {"refresh", "check"}
  /\ step = "read" => kind \in {"refresh", "check", "replay"}
  /\ step \in Reading \cup {"run", "read"} => answer = "none"
  /\ ReadInv /\ ListedInv /\ FoundInv /\ LockInv
  /\ ReplayHolds

LEMMA WatchedFiles == /\ Replay!Watched = {"app", "library", "suite", "manifest"}
                      /\ Replay!Files = {"app", "library", "generated", "tests", "suite", "manifest"}
  BY DEF Replay!Watched, Replay!Files, Replay!Sources, Replay!GitIgnored

\* A file that is edited is no longer untouched, and no other file changes.
LEMMA ReplayEditStep ==
  ASSUME ReplayInv, NEW f \in Replay!Files, Replay!Edit(f) PROVE ReplayInv'
<1>1. PICK v \in Replay!Contents(f) \ {tree[f]} :
        /\ tree' = [tree EXCEPT ![f] = v] /\ changed' = changed \cup {f}
        /\ UNCHANGED <<lock, kind, step, found, answer, commands, gitFaults, hashed, reviewed>>
  BY DEF Replay!Edit
<1>2. \A g \in Replay!Files : Untouched(g)' => Untouched(g) /\ tree'[g] = tree[g]
  BY <1>1 DEF Untouched, ReplayInv
<1>3. DOMAIN tree' = Replay!Files /\ tree' = [g \in Replay!Files |-> tree'[g]]
  BY <1>1 DEF ReplayInv
<1>4. ReadInv'
  BY <1>1, <1>2, WatchedFiles DEF ReplayInv, ReadInv, Replay!IsCovered, Replay!IsListed,
     Replay!IsAsserted, Replay!sourceDeclaresTestId
<1>5. ListedInv'
  BY <1>1, <1>2, WatchedFiles DEF ReplayInv, ListedInv
<1>6. FoundInv' /\ LockInv'
  BY <1>1, <1>2, WatchedFiles DEF ReplayInv, FoundInv, LockInv, IsLock, Records
<1>7. Replay!FreshIsReviewed'
  BY <1>1, <1>2, WatchedFiles DEF ReplayInv, ReplayHolds, Replay!FreshIsReviewed, Untouched
<1>8. Replay!FreshIsCovered'
  BY <1>1, <1>2, WatchedFiles DEF ReplayInv, ReplayHolds, Replay!FreshIsCovered, Untouched
<1>9. Replay!NoFalseAlarm'
  <2> SUFFICES ASSUME answer = "stale", gitFaults = 0, lock.suites = lock.manifest.features
               PROVE  \E g \in Replay!Watched : g \in changed' \/ tree'[g] # reviewed[g]
    BY <1>1 DEF Replay!NoFalseAlarm
  <2>1. PICK g \in Replay!Watched : g \in changed \/ tree[g] # reviewed[g]
    BY DEF ReplayInv, ReplayHolds, Replay!NoFalseAlarm
  <2> QED BY <1>1, <1>2, <2>1, WatchedFiles DEF Untouched
<1> QED BY <1>1, <1>3, <1>4, <1>5, <1>6, <1>7, <1>8, <1>9 DEF ReplayInv, ReplayHolds

\* The steps that read: what they find is there, and nothing was answered yet.
LEMMA ReadManifestStep == ASSUME ReplayInv, Replay!ReadManifest PROVE ReplayInv'
<1>1. CASE step' = "idle"
  <2>1. /\ answer' = "failed"
        /\ UNCHANGED <<tree, lock, kind, gitFaults, hashed, reviewed, changed>>
    BY <1>1 DEF Replay!ReadManifest, Replay!Throws, Replay!Answered, Replay!Reads, Replay!bounds
  <2> QED BY <1>1, <2>1 DEF ReplayInv, ReadInv, ListedInv, FoundInv, LockInv, Reading, Records, IsLock,
       Untouched, ReplayHolds, Replay!FreshIsReviewed, Replay!FreshIsCovered, Replay!NoFalseAlarm
<1>2. CASE step' # "idle"
  <2>1. /\ Replay!IsCovered(tree["manifest"]) /\ step = "read"
        /\ step' = IF kind = "replay" THEN "run" ELSE "list"
        /\ found'.suites = tree["manifest"].features
        /\ UNCHANGED <<tree, lock, kind, answer, gitFaults, hashed, reviewed, changed>>
    BY <1>2 DEF Replay!ReadManifest, Replay!Throws, Replay!Answered, Replay!Reads
  <2>2. answer' = "none" /\ step' \in {"run", "list"} /\ (step' = "list" => kind' \in {"refresh", "check"})
    BY <2>1 DEF ReplayInv
  <2>3. ReadInv'
    BY <2>1, <2>2 DEF ReadInv, Reading, Replay!IsCovered, Replay!IsListed, Replay!IsAsserted,
       Replay!sourceDeclaresTestId
  <2>4. ListedInv' /\ FoundInv' /\ LockInv'
    BY <2>1, <2>2 DEF ReplayInv, ListedInv, FoundInv, LockInv, Records, IsLock
  <2>5. ReplayHolds'
    BY <2>2 DEF ReplayHolds, Replay!FreshIsReviewed, Replay!FreshIsCovered, Replay!NoFalseAlarm
  <2> QED BY <2>1, <2>2, <2>3, <2>4, <2>5 DEF ReplayInv
<1> QED BY <1>1, <1>2

LEMMA CollectStep == ASSUME ReplayInv, Replay!collectRuntimeFiles PROVE ReplayInv'
<1>1. PICK files \in {Replay!collectDirectoryFiles,
                      Replay!withoutGitIgnored(Replay!collectDirectoryFiles)} :
        /\ step = "list" /\ step' = "suites"
        /\ found' = [of |-> "found", suites |-> found.suites, files |-> files]
        /\ IF files = Replay!withoutGitIgnored(Replay!collectDirectoryFiles)
             THEN UNCHANGED gitFaults ELSE gitFaults' = gitFaults + 1
        /\ UNCHANGED <<tree, lock, kind, answer, hashed, reviewed, changed>>
  BY DEF Replay!collectRuntimeFiles, Replay!Reads
<1>2. /\ files \subseteq Hashable /\ "app" \in files
      /\ "library" \in files <=> tree["library"] # Replay!Absent
  BY DEF Replay!collectDirectoryFiles, Replay!withoutGitIgnored, Replay!GitIgnored, Hashable,
     Replay!IsRuntimeFile, Replay!IsPresent, Replay!Sources
<1>3. gitFaults' \in Nat /\ (gitFaults' = 0 => gitFaults = 0 /\ "generated" \notin files)
  BY <1>1 DEF ReplayInv, Replay!withoutGitIgnored, Replay!GitIgnored
<1>4. answer' = "none" /\ kind' \in {"refresh", "check"}
  BY <1>1 DEF ReplayInv, Reading
<1>5. ReadInv'
  BY <1>1 DEF ReplayInv, ReadInv, Reading, Untouched, Replay!IsCovered, Replay!IsListed,
     Replay!IsAsserted, Replay!sourceDeclaresTestId
<1>6. ListedInv' /\ FoundInv'
  BY <1>1, <1>2, <1>3 DEF ListedInv, FoundInv
<1>7. LockInv'
  BY <1>1, <1>3 DEF ReplayInv, LockInv, IsLock, Records
<1>8. ReplayHolds'
  BY <1>4 DEF ReplayHolds, Replay!FreshIsReviewed, Replay!FreshIsCovered, Replay!NoFalseAlarm
<1> QED BY <1>1, <1>3, <1>4, <1>5, <1>6, <1>7, <1>8 DEF ReplayInv, Reading

LEMMA HashSuitesStep == ASSUME ReplayInv, Replay!hashSuites PROVE ReplayInv'
<1>1. /\ step = "suites" /\ step' = "hash"
      /\ found' = [of |-> "found", suites |-> found.suites, files |-> found.files,
                   suiteFiles |-> tree["suite"]]
      /\ hashed' = [hashed EXCEPT !["suite"] = tree["suite"]]
      /\ UNCHANGED <<tree, lock, kind, answer, gitFaults, reviewed, changed>>
  BY DEF Replay!hashSuites, Replay!Reads
<1>2. answer' = "none" /\ kind' \in {"refresh", "check"}
  BY <1>1 DEF ReplayInv, Reading
<1>3. DOMAIN hashed' = Replay!Files /\ hashed'["suite"] = tree["suite"]
  BY <1>1, WatchedFiles DEF ReplayInv
<1>4. ReadInv'
  BY <1>1, <1>3 DEF ReplayInv, ReadInv, Reading, Untouched, Replay!IsCovered, Replay!IsListed,
     Replay!IsAsserted, Replay!sourceDeclaresTestId
<1>5. ListedInv' /\ FoundInv' /\ LockInv'
  BY <1>1 DEF ReplayInv, ListedInv, FoundInv, LockInv, IsLock, Records, Untouched
<1>6. ReplayHolds'
  BY <1>2 DEF ReplayHolds, Replay!FreshIsReviewed, Replay!FreshIsCovered, Replay!NoFalseAlarm
<1> QED BY <1>1, <1>2, <1>3, <1>4, <1>5, <1>6 DEF ReplayInv, Reading


\* What was listed is hashed: the files are as they were listed, or changed since.
LEMMA HashRuntimeStep == ASSUME ReplayInv, Replay!HashRuntime PROVE ReplayInv'
<1>1. CASE step' = "idle"
  <2>1. /\ answer' = "failed"
        /\ UNCHANGED <<tree, lock, kind, gitFaults, hashed, reviewed, changed>>
    BY <1>1 DEF Replay!HashRuntime, Replay!Throws, Replay!Answered, Replay!Reads, Replay!bounds,
       ReplayInv
  <2> QED BY <1>1, <2>1 DEF ReplayInv, ReadInv, ListedInv, FoundInv, LockInv, Reading, Records, IsLock,
       Untouched, ReplayHolds, Replay!FreshIsReviewed, Replay!FreshIsCovered, Replay!NoFalseAlarm
<1>2. CASE step' # "idle"
  <2>1. /\ step = "hash" /\ step' = kind /\ kind \in {"refresh", "check"}
        /\ \A f \in found.files : Replay!IsPresent(f)
        /\ found' = [of |-> "lock", suites |-> found.suites, suiteFiles |-> found.suiteFiles,
                     runtime |-> Replay!hashFiles(found.files), manifest |-> tree["manifest"]]
        /\ hashed' = [f \in Replay!Files |-> IF f = "suite" THEN hashed[f]
                       ELSE IF f \in Replay!Sources \ found.files THEN Replay!Absent ELSE tree[f]]
        /\ UNCHANGED <<tree, lock, kind, answer, gitFaults, reviewed, changed>>
    BY <1>2 DEF Replay!HashRuntime, Replay!Throws, Replay!Answered, Replay!Reads, ReplayInv
  <2>2. answer' = "none" /\ step' \in {"refresh", "check"}
    BY <2>1 DEF ReplayInv, Reading
  <2>3. /\ found'.suites = found.suites /\ found'.suiteFiles = found.suiteFiles
        /\ found'.manifest = tree["manifest"]
        /\ found'.runtime = [f \in found.files |-> tree[f]]
        /\ found' = [of |-> "lock", suites |-> found'.suites, suiteFiles |-> found'.suiteFiles,
                     runtime |-> found'.runtime, manifest |-> found'.manifest]
    BY <2>1 DEF Replay!hashFiles
  <2>4. /\ DOMAIN found'.runtime = found.files
        /\ \A f \in found.files : found'.runtime[f] = tree[f]
        /\ found'.runtime = [f \in DOMAIN found'.runtime |-> found'.runtime[f]]
    BY <2>3
  <2>5. /\ found.files \subseteq Hashable /\ "app" \in found.files
        /\ gitFaults = 0 => "generated" \notin found.files
        /\ Untouched("library") =>
             ("library" \in found.files <=> tree["library"] # Replay!Absent)
    BY <2>1 DEF ReplayInv, ListedInv
  <2>6. /\ hashed'["suite"] = hashed["suite"] /\ hashed'["manifest"] = tree["manifest"]
        /\ hashed'["app"] = tree["app"]
        /\ "library" \in found.files => hashed'["library"] = tree["library"]
        /\ "library" \notin found.files => hashed'["library"] = Replay!Absent
        /\ DOMAIN hashed' = Replay!Files
    BY <2>1, <2>5, WatchedFiles DEF Replay!Sources
  <2>7. "library" \in found.files => tree["library"] # Replay!Absent
    BY <2>1 DEF Replay!IsPresent
  <2>8. IsLock(found')
    BY <2>3, <2>4, <2>5 DEF IsLock
  <2>9. hashed["suite"] = found.suiteFiles /\ (Untouched("suite") => hashed["suite"] = tree["suite"])
    BY <2>1 DEF ReplayInv, ReadInv
  <2>10. Records(found, hashed)'
    BY <2>1, <2>3, <2>4, <2>5, <2>6, <2>7, <2>9 DEF Records
  <2>11. \A f \in Replay!Watched : Untouched(f) => hashed'[f] = tree[f]
    BY <2>5, <2>6, <2>9, WatchedFiles
  <2>12. FoundInv'
    BY <2>1, <2>8, <2>10, <2>11 DEF FoundInv, Untouched, IsLock
  <2>13. ReadInv'
    BY <2>1, <2>2, <2>3 DEF ReplayInv, ReadInv, Reading, Untouched, Replay!IsCovered, Replay!IsListed,
       Replay!IsAsserted, Replay!sourceDeclaresTestId
  <2>14. ListedInv' /\ LockInv'
    BY <2>1, <2>2 DEF ReplayInv, ListedInv, LockInv, IsLock, Records
  <2>15. ReplayHolds'
    BY <2>2 DEF ReplayHolds, Replay!FreshIsReviewed, Replay!FreshIsCovered, Replay!NoFalseAlarm
  <2> QED BY <2>1, <2>2, <2>6, <2>12, <2>13, <2>14, <2>15 DEF ReplayInv, Reading
<1> QED BY <1>1, <1>2

LEMMA RefreshStep == ASSUME ReplayInv, Replay!refreshReplayLock PROVE ReplayInv'
<1>1. /\ step = "refresh" /\ step' = "idle" /\ lock' = found /\ reviewed' = hashed
      /\ answer' = "refreshed"
      /\ UNCHANGED <<tree, kind, gitFaults, hashed, changed>>
  BY DEF Replay!refreshReplayLock, Replay!Answered, Replay!bounds
<1>2. IsLock(found) /\ Records(found, hashed)
  BY <1>1 DEF ReplayInv, FoundInv
<1>3. LockInv'
  BY <1>1, <1>2 DEF LockInv, IsLock, Records
<1> QED BY <1>1, <1>3 DEF ReplayInv, ReadInv, ListedInv, FoundInv, Reading,
       ReplayHolds, Replay!FreshIsReviewed, Replay!FreshIsCovered, Replay!NoFalseAlarm

\* Two locks that record the same contents of the watched files, and no file that
\* git ignores, are the same lock.
LEMMA SameContentsSameLock ==
  ASSUME NEW l, NEW m, NEW before, NEW after, IsLock(l), IsLock(m), Records(l, before),
         Records(m, after), gitFaults = 0, l.suites = m.suites,
         \A f \in Replay!Watched : before[f] = after[f]
  PROVE  l = m
<1>1. /\ l.manifest = m.manifest /\ l.suiteFiles = m.suiteFiles
      /\ l.runtime["app"] = m.runtime["app"]
      /\ "library" \in DOMAIN l.runtime <=> "library" \in DOMAIN m.runtime
      /\ "library" \in DOMAIN l.runtime => l.runtime["library"] = m.runtime["library"]
  BY WatchedFiles DEF Records
<1>2. DOMAIN l.runtime = DOMAIN m.runtime
  BY <1>1 DEF IsLock, Records, Hashable
<1>3. \A f \in DOMAIN l.runtime : l.runtime[f] = m.runtime[f]
  BY <1>1, <1>2 DEF IsLock, Records, Hashable
<1>4. l.runtime = m.runtime
  BY <1>2, <1>3 DEF IsLock
<1> QED BY <1>1, <1>4 DEF IsLock

LEMMA CheckStep == ASSUME ReplayInv, Replay!checkReplayFreshness PROVE ReplayInv'
<1>1. /\ step = "check" /\ step' = "idle"
      /\ answer' = IF lock = Replay!NoLock THEN "missing" ELSE IF lock = found THEN "fresh" ELSE "stale"
      /\ UNCHANGED <<tree, lock, kind, gitFaults, hashed, reviewed, changed>>
  BY DEF Replay!checkReplayFreshness, Replay!Answered, Replay!bounds, Replay!IsFresh
<1>2. /\ IsLock(found) /\ Records(found, hashed)
      /\ \A f \in Replay!Watched : Untouched(f) => hashed[f] = tree[f]
  BY <1>1 DEF ReplayInv, FoundInv
<1>3. lock # Replay!NoLock => IsLock(lock) /\ Records(lock, reviewed)
  BY DEF ReplayInv, LockInv
<1>4. Replay!FreshIsReviewed'
  <2> SUFFICES ASSUME lock = found, lock # Replay!NoLock,
                      NEW f \in Replay!Watched, Untouched(f)
               PROVE  tree[f] = reviewed[f]
    BY <1>1 DEF Replay!FreshIsReviewed, Untouched
  <2>1. hashed[f] = reviewed[f]
    BY <1>2, <1>3, WatchedFiles DEF Records
  <2> QED BY <1>2, <2>1
<1>5. Replay!FreshIsCovered'
  BY <1>1, WatchedFiles DEF ReplayInv, ReadInv, Reading, Untouched, Replay!FreshIsCovered,
     Replay!IsCovered, Replay!IsListed, Replay!IsAsserted, Replay!sourceDeclaresTestId
<1>6. Replay!NoFalseAlarm'
  <2> SUFFICES ASSUME lock # found, lock # Replay!NoLock, gitFaults = 0,
                      lock.suites = lock.manifest.features,
                      \A f \in Replay!Watched : Untouched(f) /\ tree[f] = reviewed[f]
               PROVE  FALSE
    BY <1>1 DEF Replay!NoFalseAlarm, Untouched
  <2>1. \A f \in Replay!Watched : hashed[f] = reviewed[f]
    BY <1>2
  <2>2. found.suites = tree["manifest"].features
    BY <1>1, WatchedFiles DEF ReplayInv, ReadInv, Reading
  <2>3. lock.manifest = tree["manifest"]
    BY <1>3, WatchedFiles DEF Records
  <2> QED BY <1>2, <1>3, <2>1, <2>2, <2>3, SameContentsSameLock
<1> QED BY <1>1, <1>4, <1>5, <1>6 DEF ReplayInv, ReadInv, ListedInv, FoundInv, LockInv, Reading,
       IsLock, Records, ReplayHolds

LEMMA ReplayRunStep == ASSUME ReplayInv, Replay!runExampleReplay PROVE ReplayInv'
<1>1. /\ step = "run" /\ step' = "idle" /\ answer' \in {"passed", "failed"}
      /\ UNCHANGED <<tree, lock, kind, gitFaults, hashed, reviewed, changed>>
  BY DEF Replay!runExampleReplay, Replay!Answered, Replay!bounds
<1>2. Replay!FreshIsCovered'
  BY <1>1, WatchedFiles DEF ReplayInv, ReadInv, Untouched, Replay!FreshIsCovered,
     Replay!IsCovered, Replay!IsListed, Replay!IsAsserted, Replay!sourceDeclaresTestId
<1> QED BY <1>1, <1>2 DEF ReplayInv, ReadInv, ListedInv, FoundInv, LockInv, Reading, IsLock, Records,
       ReplayHolds, Replay!FreshIsReviewed, Replay!NoFalseAlarm

LEMMA ReplayStartStep ==
  ASSUME ReplayInv, NEW how \in {"refresh", "check", "replay"}, Replay!Start(how) PROVE ReplayInv'
<1>1. /\ step = "idle" /\ kind' = how
      /\ UNCHANGED <<tree, lock, gitFaults, hashed, reviewed>>
  BY DEF Replay!Start
<1>2. \E o \in Replay!Options :
        IF how = "replay" /\ ~Replay!parseArgs(o) THEN step' = "idle" /\ answer' = "failed"
        ELSE step' = "read" /\ answer' = "none"
  BY DEF Replay!Start
<1>3. (step' = "idle" /\ answer' = "failed") \/ (step' = "read" /\ answer' = "none")
  BY <1>2
<1> QED BY <1>1, <1>3 DEF ReplayInv, ReadInv, ListedInv, FoundInv, LockInv, Reading, IsLock, Records,
       ReplayHolds, Replay!FreshIsReviewed, Replay!FreshIsCovered, Replay!NoFalseAlarm

\* However refreshes, checks, replays and changes of the files overlap, and
\* whichever calls of git fail: a lock called fresh is the one that was reviewed,
\* a lock called fresh and replays that pass cover the manifest, and only a
\* watched file makes a lock stale.
THEOREM LocksAreReviewed == Spec => []ReplayHolds
<1>1. Replay!Init => ReplayInv
  <2> SUFFICES ASSUME Replay!Init PROVE ReplayInv
    OBVIOUS
  <2>1. /\ DOMAIN tree = Replay!Files /\ tree = [f \in Replay!Files |-> tree[f]]
        /\ DOMAIN hashed = Replay!Files /\ gitFaults = 0
    BY DEF Replay!Init
  <2>2. step = "idle" /\ answer = "none" /\ lock = Replay!NoLock
    BY DEF Replay!Init
  <2> QED BY <2>1, <2>2 DEF ReplayInv, ReadInv, ListedInv, FoundInv, LockInv, Reading,
       ReplayHolds, Replay!FreshIsReviewed, Replay!FreshIsCovered, Replay!NoFalseAlarm
<1>2. ReplayInv /\ [Replay!Next]_Replay!vars => ReplayInv'
  <2> SUFFICES ASSUME ReplayInv, [Replay!Next]_Replay!vars PROVE ReplayInv'
    OBVIOUS
  <2>1. CASE UNCHANGED Replay!vars
    BY <2>1 DEF Replay!vars, Replay!bounds, ReplayInv, ReadInv, ListedInv, FoundInv, LockInv,
       IsLock, Records, Untouched, ReplayHolds, Replay!FreshIsReviewed, Replay!FreshIsCovered,
       Replay!NoFalseAlarm, Replay!IsCovered, Replay!IsListed, Replay!IsAsserted,
       Replay!sourceDeclaresTestId
  <2>2. CASE \E how \in {"refresh", "check", "replay"} : Replay!Start(how)
    BY <2>2, ReplayStartStep
  <2>3. CASE \E f \in Replay!Files : Replay!Edit(f)
    BY <2>3, ReplayEditStep
  <2> QED BY <2>1, <2>2, <2>3, ReadManifestStep, CollectStep, HashSuitesStep, HashRuntimeStep,
       RefreshStep, CheckStep, ReplayRunStep DEF Replay!Next
<1>3. ReplayInv => ReplayHolds
  BY DEF ReplayInv
<1> QED BY <1>1, <1>2, <1>3, EachPartRuns, PTL DEF Replay!Spec

-----------------------------------------------------------------------------
(* What an app reads of an experiment client.                               *)

ReadsType ==
  /\ config \in [source : {"localStorage", "initialVariants"},
                 initial : {None, "initial"}, fallback : {None, "fallback"}]
  /\ variants \in [FlagKeys -> Reads!Assigned \cup {None}]
  /\ flags \in [FlagKeys -> Reads!FlagValues \cup {None}]

\* What First returns of a tuple: the first element that is there.
LEMMA FirstIs ==
  ASSUME NEW c, DOMAIN c \subseteq Int, NEW i \in DOMAIN c, c[i] # None,
         \A j \in DOMAIN c : j < i => c[j] = None
  PROVE  Reads!First(c) = c[i]
<1> DEFINE Present == {j \in DOMAIN c : c[j] # None}
           Least == CHOOSE j \in Present : \A m \in Present : j <= m
<1>1. i \in Present /\ \A m \in Present : i <= m
  OBVIOUS
<1>2. Least \in Present /\ \A m \in Present : Least <= m
  BY <1>1
<1>3. Present \subseteq Int /\ Least <= i /\ i <= Least
  BY <1>1, <1>2
<1> HIDE DEF Least
<1>5. Least = i
  BY <1>2, <1>3
<1>4. Reads!First(c) = c[Least]
  BY <1>1 DEF Reads!First, Least
<1> QED BY <1>4, <1>5 DEF Least

LEMMA FirstIsNone ==
  ASSUME NEW c, \A i \in DOMAIN c : c[i] = None PROVE Reads!First(c) = None
  BY DEF Reads!First

LEMMA FirstOf3 ==
  ASSUME NEW c1, NEW c2, NEW c3
  PROVE  Reads!First(<<c1, c2, c3>>) =
           IF c1 # None THEN c1 ELSE IF c2 # None THEN c2 ELSE c3
<1> DEFINE c == <<c1, c2, c3>>
<1> DOMAIN c = 1..3 /\ c[1] = c1 /\ c[2] = c2 /\ c[3] = c3
  OBVIOUS
<1> HIDE DEF c
<1>1. CASE c1 # None
  <2>1. Reads!First(c) = c[1]
    BY <1>1, FirstIs
  <2> QED BY <1>1, <2>1 DEF c
<1>2. CASE c1 = None /\ c2 # None
  <2>1. Reads!First(c) = c[2]
    BY <1>2, FirstIs
  <2> QED BY <1>2, <2>1 DEF c
<1>3. CASE c1 = None /\ c2 = None /\ c3 # None
  <2>1. Reads!First(c) = c[3]
    BY <1>3, FirstIs
  <2> QED BY <1>3, <2>1 DEF c
<1>4. CASE c1 = None /\ c2 = None /\ c3 = None
  <2>1. Reads!First(c) = None
    BY <1>4, FirstIsNone
  <2> QED BY <1>4, <2>1 DEF c
<1> QED BY <1>1, <1>2, <1>3, <1>4

LEMMA FirstOf5 ==
  ASSUME NEW c1, NEW c2, NEW c3, NEW c4, NEW c5
  PROVE  Reads!First(<<c1, c2, c3, c4, c5>>) =
           IF c1 # None THEN c1 ELSE IF c2 # None THEN c2 ELSE IF c3 # None THEN c3 ELSE IF c4 # None THEN c4 ELSE c5
<1> DEFINE c == <<c1, c2, c3, c4, c5>>
<1> DOMAIN c = 1..5 /\ c[1] = c1 /\ c[2] = c2 /\ c[3] = c3 /\ c[4] = c4 /\ c[5] = c5
  OBVIOUS
<1> HIDE DEF c
<1>1. CASE c1 # None
  <2>1. Reads!First(c) = c[1]
    BY <1>1, FirstIs
  <2> QED BY <1>1, <2>1 DEF c
<1>2. CASE c1 = None /\ c2 # None
  <2>1. Reads!First(c) = c[2]
    BY <1>2, FirstIs
  <2> QED BY <1>2, <2>1 DEF c
<1>3. CASE c1 = None /\ c2 = None /\ c3 # None
  <2>1. Reads!First(c) = c[3]
    BY <1>3, FirstIs
  <2> QED BY <1>3, <2>1 DEF c
<1>4. CASE c1 = None /\ c2 = None /\ c3 = None /\ c4 # None
  <2>1. Reads!First(c) = c[4]
    BY <1>4, FirstIs
  <2> QED BY <1>4, <2>1 DEF c
<1>5. CASE c1 = None /\ c2 = None /\ c3 = None /\ c4 = None /\ c5 # None
  <2>1. Reads!First(c) = c[5]
    BY <1>5, FirstIs
  <2> QED BY <1>5, <2>1 DEF c
<1>6. CASE c1 = None /\ c2 = None /\ c3 = None /\ c4 = None /\ c5 = None
  <2>1. Reads!First(c) = None
    BY <1>6, FirstIsNone
  <2> QED BY <1>6, <2>1 DEF c
<1> QED BY <1>1, <1>2, <1>3, <1>4, <1>5, <1>6

LEMMA FirstOf6 ==
  ASSUME NEW c1, NEW c2, NEW c3, NEW c4, NEW c5, NEW c6
  PROVE  Reads!First(<<c1, c2, c3, c4, c5, c6>>) =
           IF c1 # None THEN c1 ELSE IF c2 # None THEN c2 ELSE IF c3 # None THEN c3 ELSE IF c4 # None THEN c4 ELSE IF c5 # None THEN c5 ELSE c6
<1> DEFINE c == <<c1, c2, c3, c4, c5, c6>>
<1> DOMAIN c = 1..6 /\ c[1] = c1 /\ c[2] = c2 /\ c[3] = c3 /\ c[4] = c4 /\ c[5] = c5 /\ c[6] = c6
  OBVIOUS
<1> HIDE DEF c
<1>1. CASE c1 # None
  <2>1. Reads!First(c) = c[1]
    BY <1>1, FirstIs
  <2> QED BY <1>1, <2>1 DEF c
<1>2. CASE c1 = None /\ c2 # None
  <2>1. Reads!First(c) = c[2]
    BY <1>2, FirstIs
  <2> QED BY <1>2, <2>1 DEF c
<1>3. CASE c1 = None /\ c2 = None /\ c3 # None
  <2>1. Reads!First(c) = c[3]
    BY <1>3, FirstIs
  <2> QED BY <1>3, <2>1 DEF c
<1>4. CASE c1 = None /\ c2 = None /\ c3 = None /\ c4 # None
  <2>1. Reads!First(c) = c[4]
    BY <1>4, FirstIs
  <2> QED BY <1>4, <2>1 DEF c
<1>5. CASE c1 = None /\ c2 = None /\ c3 = None /\ c4 = None /\ c5 # None
  <2>1. Reads!First(c) = c[5]
    BY <1>5, FirstIs
  <2> QED BY <1>5, <2>1 DEF c
<1>6. CASE c1 = None /\ c2 = None /\ c3 = None /\ c4 = None /\ c5 = None /\ c6 # None
  <2>1. Reads!First(c) = c[6]
    BY <1>6, FirstIs
  <2> QED BY <1>6, <2>1 DEF c
<1>7. CASE c1 = None /\ c2 = None /\ c3 = None /\ c4 = None /\ c5 = None /\ c6 = None
  <2>1. Reads!First(c) = None
    BY <1>7, FirstIsNone
  <2> QED BY <1>7, <2>1 DEF c
<1> QED BY <1>1, <1>2, <1>3, <1>4, <1>5, <1>6, <1>7


\* What there may be at each place that is asked for a key.
LEMMA PlacesOfKey ==
  ASSUME ReadsType, NEW k \in FlagKeys
  PROVE  /\ variants[k] \in Reads!Assigned \cup {None}
         /\ flags[k] # None =>
              /\ flags[k].mode = "local" => flags[k].evaluates \in Reads!Assigned \cup {None}
              /\ flags[k].mode # "local" => flags[k].evaluates \in Reads!Assigned
                                            /\ Reads!NonDefault(flags[k].evaluates) = flags[k].evaluates
         /\ config.source \in {"localStorage", "initialVariants"}
         /\ config.initial \in {None, "initial"} /\ config.fallback \in {None, "fallback"}
  BY DEF ReadsType, Reads!FlagValues, Reads!NonDefault

\* What the operators say of a variant that is there: whether it is the default.
LEMMA VariantsThere ==
  /\ \A v \in Reads!Assigned : v # None
  /\ Reads!NonDefault(None) = None
  /\ \A v \in Reads!Assigned :
       \/ v.default = TRUE /\ Reads!NonDefault(v) = None
       \/ v.default = FALSE /\ Reads!NonDefault(v) = v
  /\ \A name \in {"inline", "initial", "fallback"} :
       /\ name # None /\ Reads!Configured(name) # None
       /\ Reads!Named(name) = Reads!Configured(name)
  /\ Reads!Named(None) = None
  BY PartsAssumption DEF Reads!VariantReadsAssumption, Reads!Assigned, Reads!NonDefault,
     Reads!Configured, Reads!Named


Inlines == {None, "inline"}

\* What each source answers, as the order in which its places are asked.
LEMMA ChainOrder ==
  ASSUME ReadsType, NEW k \in FlagKeys, NEW inline \in Inlines, NEW default, NEW withInitial \in BOOLEAN
  PROVE  Reads!fallbackChain(k, inline, default, withInitial).variant =
           IF Reads!Named(inline) # None THEN Reads!Named(inline)
           ELSE IF withInitial /\ Reads!Named(config.initial) # None THEN Reads!Named(config.initial)
           ELSE IF Reads!Named(config.fallback) # None THEN Reads!Named(config.fallback)
           ELSE default.variant
<1>1. /\ config.initial \in {None, "initial"} /\ config.fallback \in {None, "fallback"}
  BY PlacesOfKey
<1>2. CASE inline # None
  BY <1>2, VariantsThere DEF Inlines, Reads!fallbackChain, Reads!Found
<1>3. CASE inline = None /\ withInitial /\ config.initial # None
  BY <1>1, <1>3, VariantsThere DEF Inlines, Reads!fallbackChain, Reads!Found, Reads!initialVariant
<1>4. CASE inline = None /\ ~(withInitial /\ config.initial # None) /\ config.fallback # None
  BY <1>1, <1>4, VariantsThere DEF Inlines, Reads!fallbackChain, Reads!Found, Reads!initialVariant
<1>5. CASE inline = None /\ ~(withInitial /\ config.initial # None) /\ config.fallback = None
  BY <1>1, <1>5, VariantsThere DEF Inlines, Reads!fallbackChain, Reads!Found, Reads!initialVariant
<1> QED BY <1>2, <1>3, <1>4, <1>5

LEMMA StorageOrder ==
  ASSUME ReadsType, NEW k \in FlagKeys, NEW inline \in Inlines, NEW withInitial \in BOOLEAN
  PROVE  Reads!fromStorage(k, inline, withInitial).variant =
           IF Reads!NonDefault(variants[k]) # None THEN Reads!NonDefault(variants[k])
           ELSE IF Reads!Named(inline) # None THEN Reads!Named(inline)
           ELSE IF withInitial /\ Reads!Named(config.initial) # None THEN Reads!Named(config.initial)
           ELSE IF Reads!Named(config.fallback) # None THEN Reads!Named(config.fallback)
           ELSE variants[k]
<1> DEFINE cached == Reads!storedVariant(k)
<1>1. variants[k] \in Reads!Assigned \cup {None}
  BY PlacesOfKey
<1>2. cached.variant = variants[k]
  BY DEF Reads!storedVariant, Reads!Nothing, Reads!Found
<1>3. CASE Reads!NonDefault(variants[k]) # None
  <2>1. variants[k] \in Reads!Assigned /\ variants[k].default = FALSE /\ variants[k] # None
        /\ Reads!NonDefault(variants[k]) = variants[k]
    BY <1>1, <1>3, VariantsThere
  <2>2. cached.hasDefaultVariant = FALSE
    BY <2>1 DEF Reads!storedVariant, Reads!Found
  <2>3. Reads!fromStorage(k, inline, withInitial) = cached
    BY <1>2, <2>1, <2>2 DEF Reads!fromStorage
  <2> QED BY <1>2, <1>3, <2>1, <2>3
<1>4. CASE Reads!NonDefault(variants[k]) = None
  <2>1. variants[k] = None \/ variants[k].default = TRUE
    BY <1>1, <1>4, VariantsThere
  <2>2. variants[k] = None \/ cached.hasDefaultVariant = TRUE
    BY <2>1 DEF Reads!storedVariant, Reads!Found
  <2>3. Reads!fromStorage(k, inline, withInitial) = Reads!fallbackChain(k, inline, cached, withInitial)
    BY <1>2, <2>2 DEF Reads!fromStorage
  <2> HIDE DEF cached
  <2> QED BY <1>2, <1>4, <2>3, ChainOrder
<1> QED BY <1>3, <1>4


LEMMA EvaluationOrder ==
  ASSUME ReadsType, NEW k \in FlagKeys, NEW inline \in Inlines, flags[k] # None
  PROVE  LET evaluated == flags[k].evaluates IN
         Reads!fromEvaluation(k, inline).variant =
           IF Reads!NonDefault(evaluated) # None THEN Reads!NonDefault(evaluated)
           ELSE IF Reads!Named(inline) # None THEN Reads!Named(inline)
           ELSE IF Reads!Named(config.initial) # None THEN Reads!Named(config.initial)
           ELSE IF Reads!Named(config.fallback) # None THEN Reads!Named(config.fallback)
           ELSE evaluated
<1> DEFINE evaluated == flags[k].evaluates
           answer0 == Reads!Found(evaluated, "local-evaluation", evaluated # None /\ evaluated.default)
           default == IF evaluated = None THEN Reads!Nothing ELSE answer0
<1>1. evaluated \in Reads!Assigned \cup {None}
  BY PlacesOfKey
<1>2. answer0.variant = evaluated /\ default.variant = evaluated
  BY DEF Reads!Nothing, Reads!Found
<1>3. CASE Reads!NonDefault(evaluated) # None
  <2>1. evaluated # None /\ evaluated.default = FALSE /\ Reads!NonDefault(evaluated) = evaluated
    BY <1>1, <1>3, VariantsThere
  <2>2. Reads!fromEvaluation(k, inline) = answer0
    BY <2>1 DEF Reads!fromEvaluation
  <2> QED BY <1>2, <1>3, <2>1, <2>2
<1>4. CASE Reads!NonDefault(evaluated) = None
  <2>1. evaluated = None \/ evaluated.default = TRUE
    BY <1>1, <1>4, VariantsThere
  <2>2. Reads!fromEvaluation(k, inline) = Reads!fallbackChain(k, inline, default, TRUE)
    BY <2>1 DEF Reads!fromEvaluation
  <2>3. default.variant = evaluated
    BY <1>2
  <2> HIDE DEF default
  <2>4. Reads!fallbackChain(k, inline, default, TRUE).variant =
           IF Reads!Named(inline) # None THEN Reads!Named(inline)
           ELSE IF Reads!Named(config.initial) # None THEN Reads!Named(config.initial)
           ELSE IF Reads!Named(config.fallback) # None THEN Reads!Named(config.fallback)
           ELSE default.variant
    BY ChainOrder
  <2> QED BY <1>4, <2>2, <2>3, <2>4
<1> QED BY <1>3, <1>4

\* What variant() returns is what its comments say.
LEMMA TheOrderIsDocumented == ASSUME ReadsType PROVE Reads!OrderIsDocumented
<1> SUFFICES ASSUME NEW k \in FlagKeys, NEW inline \in Inlines
             PROVE  Reads!variantAndSource(k, inline).variant = Reads!Documented(k, inline)
  BY DEF Reads!OrderIsDocumented, Inlines
<1> DEFINE cached == variants[k]
           evaluated == IF flags[k] = None THEN None ELSE flags[k].evaluates
           initial == Reads!Named(config.initial)
           fallback == Reads!Named(config.fallback)
<1>1. CASE Reads!isLocal(k)
  <2>1. Reads!variantAndSource(k, inline) = Reads!fromEvaluation(k, inline) /\ flags[k] # None
    BY <1>1 DEF Reads!variantAndSource, Reads!Evaluates, Reads!isLocal
  <2>2. Reads!Documented(k, inline) =
          Reads!First(<<Reads!NonDefault(evaluated), Reads!Named(inline), initial, fallback, evaluated>>)
    BY <1>1 DEF Reads!Documented, Reads!initialVariant
  <2> HIDE DEF initial, fallback
  <2>3. evaluated = flags[k].evaluates
    BY <2>1
  <2> HIDE DEF evaluated
  <2>4. Reads!fromEvaluation(k, inline).variant =
           IF Reads!NonDefault(evaluated) # None THEN Reads!NonDefault(evaluated)
           ELSE IF Reads!Named(inline) # None THEN Reads!Named(inline)
           ELSE IF initial # None THEN initial ELSE IF fallback # None THEN fallback
           ELSE evaluated
    BY <2>1, <2>3, EvaluationOrder DEF initial, fallback
  <2> QED BY <2>1, <2>2, <2>4, FirstOf5
<1>2. CASE ~Reads!isLocal(k)
  <2> DEFINE read == IF config.source = "initialVariants" THEN Reads!fromInitial(k, inline)
                     ELSE Reads!fromStorage(k, inline, TRUE)
  <2>1. Reads!variantAndSource(k, inline) =
          IF flags[k] # None /\ read.variant = None THEN Reads!fromEvaluation(k, inline) ELSE read
    BY <1>2 DEF Reads!variantAndSource, Reads!Evaluates
  <2>2. flags[k] # None => Reads!NonDefault(evaluated) = evaluated /\ evaluated # None
    BY <1>2, PlacesOfKey, VariantsThere DEF Reads!isLocal
  <2>3. flags[k] # None => Reads!fromEvaluation(k, inline).variant = evaluated
    <3> SUFFICES ASSUME flags[k] # None PROVE Reads!fromEvaluation(k, inline).variant = evaluated
      OBVIOUS
    <3>1. evaluated = flags[k].evaluates
      OBVIOUS
    <3> HIDE DEF evaluated
    <3> QED BY <2>2, <3>1, EvaluationOrder
  <2>4. Reads!variantAndSource(k, inline).variant =
          IF read.variant # None THEN read.variant ELSE evaluated
    BY <2>1, <2>3
  <2> HIDE DEF evaluated
  <2>5. CASE config.source = "localStorage"
    <3>1. read = Reads!fromStorage(k, inline, TRUE)
      BY <2>5
    <3> HIDE DEF read
    <3>2. read.variant = IF Reads!NonDefault(cached) # None THEN Reads!NonDefault(cached)
            ELSE IF Reads!Named(inline) # None THEN Reads!Named(inline)
            ELSE IF initial # None THEN initial ELSE IF fallback # None THEN fallback ELSE cached
      BY <3>1, StorageOrder
    <3>3. Reads!Documented(k, inline) =
            Reads!First(<<Reads!NonDefault(cached), Reads!Named(inline), initial, fallback, cached,
                          evaluated>>)
      BY <1>2, <2>5 DEF Reads!Documented, Reads!initialVariant, evaluated
    <3> HIDE DEF cached, initial, fallback, read
    <3> QED BY <2>4, <3>2, <3>3, FirstOf6
  <2>6. CASE config.source = "initialVariants"
    <3>1. read = Reads!fromInitial(k, inline)
      BY <2>6
    <3>2. read.variant = IF initial # None THEN initial
            ELSE IF Reads!NonDefault(cached) # None THEN Reads!NonDefault(cached)
            ELSE IF Reads!Named(inline) # None THEN Reads!Named(inline)
            ELSE IF fallback # None THEN fallback ELSE cached
      <4>1. CASE config.initial # None
        <5>1. config.initial = "initial"
          BY <4>1, PlacesOfKey
        <5>2. read = Reads!Found(Reads!Configured("initial"), "initial", FALSE)
          BY <3>1, <4>1, <5>1 DEF Reads!fromInitial, Reads!initialVariant
        <5> HIDE DEF read
        <5>3. read.variant = Reads!Configured("initial")
          BY <5>2 DEF Reads!Found
        <5>4. initial = Reads!Configured("initial") /\ initial # None
          BY <5>1, VariantsThere
        <5> QED BY <5>3, <5>4
      <4>2. CASE config.initial = None
        <5>1. read = Reads!fromStorage(k, inline, FALSE)
          BY <3>1, <4>2 DEF Reads!fromInitial, Reads!initialVariant
        <5>2. initial = None
          BY <4>2, VariantsThere
        <5> HIDE DEF read
        <5> QED BY <5>1, <5>2, StorageOrder
      <4> QED BY <4>1, <4>2
    <3>3. Reads!Documented(k, inline) =
            Reads!First(<<initial, Reads!NonDefault(cached), Reads!Named(inline), fallback, cached,
                          evaluated>>)
      BY <1>2, <2>6 DEF Reads!Documented, Reads!initialVariant, evaluated
    <3> HIDE DEF cached, initial, fallback, read
    <3> QED BY <2>4, <3>2, <3>3, FirstOf6
  <2> QED BY <2>5, <2>6, PlacesOfKey
<1> QED BY <1>1, <1>2


\* The sources by whether they are fallbacks.
LEMMA Sources ==
  /\ \A source \in {"storage", "initial", "local-evaluation"} : ~Reads!isFallback(source)
  /\ \A source \in {None, "fallback-inline", "fallback-config", "secondary-initial"} :
       Reads!isFallback(source)
  BY PartsAssumption DEF Reads!VariantReadsAssumption, Reads!isFallback

\* An answer that is no fallback is the evaluated, the cached or the initial variant.
LEMMA ChainIsAFallback ==
  ASSUME NEW k, NEW inline, NEW default, NEW withInitial \in BOOLEAN,
         ~Reads!isFallback(Reads!fallbackChain(k, inline, default, withInitial).source)
  PROVE  Reads!fallbackChain(k, inline, default, withInitial) = default
<1>1. CASE inline # None
  BY <1>1, Sources DEF Reads!fallbackChain, Reads!Found
<1>2. CASE inline = None /\ withInitial /\ config.initial # None
  BY <1>2, Sources DEF Reads!fallbackChain, Reads!Found, Reads!initialVariant
<1>3. CASE inline = None /\ ~(withInitial /\ config.initial # None) /\ config.fallback # None
  BY <1>3, Sources DEF Reads!fallbackChain, Reads!Found, Reads!initialVariant
<1>4. CASE inline = None /\ ~(withInitial /\ config.initial # None) /\ config.fallback = None
  BY <1>4 DEF Reads!fallbackChain, Reads!initialVariant
<1> QED BY <1>1, <1>2, <1>3, <1>4

LEMMA StoredAnswer ==
  ASSUME ReadsType, NEW k \in FlagKeys, NEW inline, NEW withInitial \in BOOLEAN,
         ~Reads!isFallback(Reads!fromStorage(k, inline, withInitial).source)
  PROVE  /\ Reads!fromStorage(k, inline, withInitial).source = "storage"
         /\ Reads!fromStorage(k, inline, withInitial).variant = variants[k]
         /\ variants[k] \in Reads!Assigned
<1>1. Reads!fromStorage(k, inline, withInitial) = Reads!storedVariant(k)
  <2>1. Reads!fromStorage(k, inline, withInitial) \in
          {Reads!storedVariant(k),
           Reads!fallbackChain(k, inline, Reads!storedVariant(k), withInitial)}
    BY DEF Reads!fromStorage
  <2> QED BY <2>1, ChainIsAFallback
<1>2. CASE variants[k] = None
  <2>1. Reads!storedVariant(k).source = None
    BY <1>2 DEF Reads!storedVariant, Reads!Nothing, Reads!Found
  <2> QED BY <1>1, <2>1, Sources
<1>3. CASE variants[k] # None
  <2>1. Reads!storedVariant(k).source = "storage" /\ Reads!storedVariant(k).variant = variants[k]
    BY <1>3 DEF Reads!storedVariant, Reads!Found
  <2> QED BY <1>1, <1>3, <2>1, PlacesOfKey
<1> QED BY <1>2, <1>3

LEMMA EvaluatedAnswer ==
  ASSUME ReadsType, NEW k \in FlagKeys, NEW inline, flags[k] # None,
         ~Reads!isFallback(Reads!fromEvaluation(k, inline).source)
  PROVE  /\ Reads!fromEvaluation(k, inline).source = "local-evaluation"
         /\ Reads!fromEvaluation(k, inline).variant = flags[k].evaluates
         /\ flags[k].evaluates \in Reads!Assigned
<1> DEFINE evaluated == flags[k].evaluates
           answer0 == Reads!Found(evaluated, "local-evaluation", evaluated # None /\ evaluated.default)
           default == IF evaluated = None THEN Reads!Nothing ELSE answer0
<1>1. \/ Reads!fromEvaluation(k, inline) = answer0 /\ evaluated # None
      \/ Reads!fromEvaluation(k, inline) = Reads!fallbackChain(k, inline, default, TRUE)
  BY DEF Reads!fromEvaluation
<1>2. answer0.source = "local-evaluation" /\ answer0.variant = evaluated /\ Reads!Nothing.source = None
  BY DEF Reads!Found, Reads!Nothing
<1>3. (default = answer0 /\ evaluated # None) \/ default = Reads!Nothing
  OBVIOUS
<1> HIDE DEF default, answer0
<1>4. Reads!fromEvaluation(k, inline) = answer0 /\ evaluated # None
  BY <1>1, <1>2, <1>3, ChainIsAFallback, Sources
<1> QED BY <1>2, <1>4, PlacesOfKey

LEMMA AnswersThatCount ==
  ASSUME ReadsType, NEW k \in FlagKeys, NEW inline,
         ~Reads!isFallback(Reads!variantAndSource(k, inline).source)
  PROVE  LET read == Reads!variantAndSource(k, inline) IN
         \/ /\ read.source = "local-evaluation" /\ flags[k] # None
            /\ read.variant = flags[k].evaluates /\ read.variant \in Reads!Assigned
         \/ /\ read.source = "storage" /\ ~Reads!isLocal(k)
            /\ read.variant = variants[k] /\ read.variant \in Reads!Assigned
            /\ config.source = "localStorage" \/ config.initial = None
         \/ /\ read.source = "initial" /\ ~Reads!isLocal(k)
            /\ config.source = "initialVariants" /\ config.initial = "initial"
            /\ read.variant = Reads!Configured("initial")
<1> DEFINE read == Reads!variantAndSource(k, inline)
<1>1. CASE flags[k] # None /\ read = Reads!fromEvaluation(k, inline)
  BY <1>1, EvaluatedAnswer
<1>2. CASE ~Reads!isLocal(k) /\ config.source = "localStorage" /\ read = Reads!fromStorage(k, inline, TRUE)
  BY <1>2, StoredAnswer
<1>3. CASE ~Reads!isLocal(k) /\ config.source = "initialVariants" /\ read = Reads!fromInitial(k, inline)
  <2>1. CASE config.initial = None
    <3>1. read = Reads!fromStorage(k, inline, FALSE)
      BY <1>3, <2>1 DEF Reads!fromInitial, Reads!initialVariant
    <3> QED BY <1>3, <2>1, <3>1, StoredAnswer
  <2>2. CASE config.initial # None
    <3>1. config.initial = "initial"
      BY <2>2, PlacesOfKey
    <3>2. read = Reads!Found(Reads!Configured("initial"), "initial", FALSE)
      BY <1>3, <2>2, <3>1 DEF Reads!fromInitial, Reads!initialVariant
    <3>3. read.source = "initial" /\ read.variant = Reads!Configured("initial")
      BY <3>2 DEF Reads!Found
    <3> QED BY <1>3, <3>1, <3>3
  <2> QED BY <2>1, <2>2
<1>4. \/ flags[k] # None /\ read = Reads!fromEvaluation(k, inline)
      \/ /\ ~Reads!isLocal(k)
         /\ \/ config.source = "localStorage" /\ read = Reads!fromStorage(k, inline, TRUE)
            \/ config.source = "initialVariants" /\ read = Reads!fromInitial(k, inline)
  BY PlacesOfKey DEF Reads!variantAndSource, Reads!Evaluates, Reads!isLocal
<1> QED BY <1>1, <1>2, <1>3, <1>4

\* all() has the variant that variant() answers.
LEMMA BothReadsAgree == ASSUME ReadsType PROVE Reads!AllAgrees
<1> SUFFICES ASSUME NEW k \in FlagKeys,
                    ~Reads!isFallback(Reads!variantAndSource(k, None).source),
                    Reads!variantAndSource(k, None).source = "local-evaluation" => Reads!isLocal(k)
             PROVE  Reads!all(k) = Reads!variantAndSource(k, None).variant
  BY DEF Reads!AllAgrees
<1> DEFINE read == Reads!variantAndSource(k, None)
           evaluated == IF Reads!isLocal(k) THEN flags[k].evaluates ELSE None
           initial == IF config.initial = None THEN None ELSE Reads!Configured(config.initial)
           cached == variants[k]
<1>1. Reads!all(k) = Reads!First(IF config.source = "initialVariants" THEN <<evaluated, initial, cached>>
                                 ELSE <<evaluated, cached, initial>>)
  BY DEF Reads!all, Reads!Kept, Reads!initialVariant
<1>2. CASE read.source = "local-evaluation"
  <2>1. evaluated = read.variant /\ evaluated # None
    BY <1>2, AnswersThatCount, VariantsThere
  <2> HIDE DEF evaluated, initial, cached, read
  <2> QED BY <1>1, <2>1, FirstOf3 DEF read
<1>3. CASE read.source = "storage"
  <2>1. /\ evaluated = None /\ cached = read.variant /\ cached # None
        /\ config.source # "initialVariants" \/ initial = None
    BY <1>3, AnswersThatCount, VariantsThere
  <2> HIDE DEF evaluated, initial, cached, read
  <2> QED BY <1>1, <2>1, FirstOf3 DEF read
<1>4. CASE read.source = "initial"
  <2>1. evaluated = None /\ initial = read.variant /\ initial # None /\ config.source = "initialVariants"
    BY <1>4, AnswersThatCount, VariantsThere
  <2> HIDE DEF evaluated, initial, cached, read
  <2> QED BY <1>1, <2>1, FirstOf3 DEF read
<1> QED BY <1>2, <1>3, <1>4, AnswersThatCount


\* The tracker has, per key, the variant of the last exposure of its identity.
TrackerInv ==
  /\ sent = [k \in FlagKeys |-> sent[k]] /\ DOMAIN tracker.tracked = FlagKeys
  /\ \A k \in FlagKeys :
       tracker.tracked[k] # None => sent[k] = <<tracker.identity, tracker.tracked[k]>>
  /\ Reads!ExposureIsCurrent

LEMMA ExposedIsNamed ==
  ASSUME ReadsType, NEW k \in FlagKeys, NEW inline
  PROVE  Reads!ExposedVariant(Reads!variantAndSource(k, inline)) # None
<1> DEFINE answered == Reads!variantAndSource(k, inline)
<1>1. CASE Reads!isFallback(answered.source)
  BY <1>1, PartsAssumption DEF Reads!VariantReadsAssumption, Reads!ExposedVariant
<1>2. CASE ~Reads!isFallback(answered.source)
  <2>1. answered.variant \in Reads!Assigned \cup {Reads!Configured("initial")}
    BY <1>2, AnswersThatCount
  <2>2. answered.variant.name # None
    BY <2>1, PartsAssumption DEF Reads!VariantReadsAssumption, Reads!Assigned, Reads!Configured
  <2>3. Reads!ExposedVariant(answered) \in {"absent", answered.variant.name}
    BY DEF Reads!ExposedVariant
  <2> QED BY <2>2, <2>3, PartsAssumption DEF Reads!VariantReadsAssumption
<1> QED BY <1>1, <1>2

LEMMA ExposureStep ==
  ASSUME ReadsType, TrackerInv, NEW k \in FlagKeys, NEW inline, Reads!Read(k, inline)
  PROVE  TrackerInv'
<1> DEFINE variant == Reads!ExposedVariant(Reads!variantAndSource(k, inline))
           session == Reads!Session
<1>1. /\ tracker' = [identity |-> identity, tracked |-> [session EXCEPT ![k] = variant]]
      /\ shown' = [shown EXCEPT ![k] = <<identity, variant>>]
      /\ sent' = IF session[k] = variant THEN sent ELSE [sent EXCEPT ![k] = <<identity, variant>>]
  BY DEF Reads!Read, Reads!Repeats
<1>2. variant # None
  BY ExposedIsNamed
<1>3. /\ DOMAIN session = FlagKeys
      /\ \A f \in FlagKeys : session[f] # None => sent[f] = <<identity, session[f]>>
  BY DEF TrackerInv, Reads!Session, Reads!Untracked
<1> HIDE DEF variant, session
<1>4. /\ tracker'.identity = identity /\ tracker'.tracked = [session EXCEPT ![k] = variant]
  BY <1>1
<1>5. sent = shown /\ DOMAIN sent = FlagKeys /\ sent = [f \in FlagKeys |-> sent[f]]
  BY DEF TrackerInv, Reads!ExposureIsCurrent
<1>6. CASE session[k] = variant
  <2>1. sent[k] = <<identity, variant>>
    BY <1>2, <1>3, <1>6
  <2>2. sent' = sent /\ shown' = shown
    <3>1. sent' = sent
      BY <1>1, <1>6
    <3>2. [sent EXCEPT ![k] = sent[k]] = sent
      BY <1>5
    <3> QED BY <1>1, <1>5, <2>1, <3>1, <3>2
  <2> QED BY <1>3, <1>4, <1>5, <1>6, <2>1, <2>2 DEF TrackerInv, Reads!ExposureIsCurrent
<1>7. CASE session[k] # variant
  <2>1. sent' = [sent EXCEPT ![k] = <<identity, variant>>] /\ shown' = sent'
    BY <1>1, <1>5, <1>7
  <2>2. \A f \in FlagKeys : tracker'.tracked[f] # None => sent'[f] = <<identity, tracker'.tracked[f]>>
    BY <1>3, <1>4, <1>5, <2>1
  <2> QED BY <1>3, <1>4, <1>5, <2>1, <2>2 DEF TrackerInv, Reads!ExposureIsCurrent
<1> QED BY <1>6, <1>7

\* Whatever the configuration and however the caches and the user change: the
\* app reads the variant that the documented order gives, all() agrees, and what
\* was last exposed for a key is what the app last read.
THEOREM ReadsAreAsDocumented == Spec => []ReadsHold
<1>1. Reads!Init => ReadsType /\ TrackerInv
  <2> SUFFICES ASSUME Reads!Init PROVE ReadsType /\ TrackerInv
    OBVIOUS
  <2>1. ReadsType
    BY DEF Reads!Init, ReadsType
  <2>2. TrackerInv
    BY DEF Reads!Init, TrackerInv, Reads!ExposureIsCurrent, Reads!Untracked
  <2> QED BY <2>1, <2>2
<1>2. (ReadsType /\ TrackerInv) /\ [Reads!Next]_Reads!vars => (ReadsType /\ TrackerInv)'
  <2> SUFFICES ASSUME ReadsType, TrackerInv, [Reads!Next]_Reads!vars
               PROVE  ReadsType' /\ TrackerInv'
    OBVIOUS
  <2>1. CASE UNCHANGED Reads!vars
    BY <2>1 DEF Reads!vars, ReadsType, TrackerInv, Reads!ExposureIsCurrent
  <2>2. ASSUME NEW k \in FlagKeys, NEW inline \in {None, "inline"}, Reads!Read(k, inline)
        PROVE  ReadsType' /\ TrackerInv'
    <3>1. ReadsType'
      BY <2>2 DEF Reads!Read, ReadsType
    <3> QED BY <2>2, <3>1, ExposureStep
  <2>3. ASSUME NEW k \in FlagKeys, Reads!CachesChange(k) PROVE ReadsType' /\ TrackerInv'
    <3>1. UNCHANGED <<config, identity, tracker, shown, sent>>
      BY <2>3 DEF Reads!CachesChange
    <3>2. ReadsType'
      <4>1. CASE /\ \E v \in Reads!Assigned \cup {None} : variants' = [variants EXCEPT ![k] = v]
                 /\ UNCHANGED flags
        BY <3>1, <4>1 DEF ReadsType
      <4>2. CASE /\ \E f \in Reads!FlagValues \cup {None} : flags' = [flags EXCEPT ![k] = f]
                 /\ UNCHANGED variants
        BY <3>1, <4>2 DEF ReadsType
      <4> QED BY <2>3, <4>1, <4>2 DEF Reads!CachesChange
    <3> QED BY <3>1, <3>2 DEF TrackerInv, Reads!ExposureIsCurrent
  <2>4. CASE Reads!UserChanges
    BY <2>4 DEF Reads!UserChanges, ReadsType, TrackerInv, Reads!ExposureIsCurrent
  <2> QED BY <2>1, <2>2, <2>3, <2>4 DEF Reads!Next
<1>3. ReadsType /\ TrackerInv => ReadsHold
  BY TheOrderIsDocumented, BothReadsAgree DEF ReadsHold, TrackerInv
<1> QED BY <1>1, <1>2, <1>3, EachPartRuns, PTL DEF Reads!Spec

-----------------------------------------------------------------------------
(* The labs of the example application, for any list of different cases.    *)

CaseKinds == {Cases[i] : i \in 1..Len(Cases)}
Ended == {"ok", "fail"}
JobSteps == {"request", "init", "flush", "check"} \cup Ended
JobType == [kind : Lab!Kinds, run : Nat, at : JobSteps, accepted : Nat, flushed : Nat,
            lone : BOOLEAN]

\* What a job has tracked waits in its client until a flush takes it all.
JobTracks(i) ==
  LET job == jobs[i] IN
  /\ job.at \in {"request", "init"} => job.accepted = 0 /\ job.flushed = 0
  /\ job.at = "flush" => \/ job.accepted = Lab!Tracks(job.kind) /\ job.flushed = 0
                         \/ job.accepted = 0 /\ job.flushed = Lab!Tracks(job.kind)
  /\ job.at \in {"check"} \cup Ended => job.accepted = 0 /\ job.flushed = Lab!Tracks(job.kind)

\* A press begins with its flush, a case belongs to a run of the page.
JobIsOf(i) ==
  LET job == jobs[i] IN
  /\ job.run = 0 => job.at \notin {"request", "init"}
  /\ job.run # 0 => job.kind \in CaseKinds /\ job.run <= run
  /\ job.at = "request" => job.kind \in Lab!Requests \cup {"diagnostics"}

\* While a job is alone the others have ended, and the records are its own.
JobAlone(i) ==
  LET job == jobs[i] IN
  job.lone => /\ job.at # "fail"
              /\ job.at \notin Ended => \A j \in Lab!Jobs \ {i} : jobs[j].at \in Ended
              /\ job.at \in {"init", "flush", "check"} /\ job.kind \notin Lab!Requests
                   => records[job.kind] = job.flushed

JobsInv ==
  /\ jobs \in Seq(JobType) /\ records \in [Lab!Kinds -> Nat]
  /\ \A i \in Lab!Jobs : JobTracks(i) /\ JobIsOf(i) /\ JobAlone(i)

\* The case that is run is the one after the last row of its run.
RowsInv ==
  /\ rows \in Seq([run : 1..run, kind : CaseKinds])
  /\ run \in Nat /\ mounted \in BOOLEAN
  /\ \A i, j \in Lab!Jobs : jobs[i].run = run /\ jobs[j].run = run /\ run # 0
       /\ jobs[i].at \notin Ended /\ jobs[j].at \notin Ended => i = j
  /\ \A i \in Lab!Jobs : jobs[i].run = run /\ run # 0 /\ jobs[i].at \notin Ended /\ mounted =>
       IF rows = <<>> THEN jobs[i].kind = Cases[1]
       ELSE IF rows[Len(rows)].run # run THEN jobs[i].kind = Cases[1]
       ELSE Lab!Place(jobs[i].kind) = Lab!Place(rows[Len(rows)].kind) + 1
  /\ Lab!RowsInOrder

LabInv == JobsInv /\ RowsInv

LEMMA LabConstants ==
  /\ Cases \in Seq(Lab!Requests \cup Lab!OwnClient) /\ Len(Cases) \in Nat /\ Len(Cases) > 0
  /\ Burst \in Nat /\ Burst > 0
  /\ \A i, j \in 1..Len(Cases) : Cases[i] = Cases[j] => i = j
  /\ CaseKinds \cap Buttons = {}
<1>1. Cases \in Seq(Lab!Requests \cup Lab!OwnClient) /\ Len(Cases) > 0
  BY PartsAssumption DEF Lab!ExampleLabAssumption
<1>3. Len(Cases) \in Nat
  BY <1>1
<1>4. \A i, j \in 1..Len(Cases) : Cases[i] = Cases[j] => i = j
  BY DEF Cases
<1>5. CaseKinds \cap Buttons = {}
  BY <1>1, PartsAssumption DEF Lab!ExampleLabAssumption, CaseKinds, Lab!Requests, Lab!OwnClient
<1> QED BY <1>1, <1>3, <1>4, <1>5, PartsAssumption DEF Lab!ExampleLabAssumption

LEMMA PlacesOfCases ==
  /\ \A i \in 1..Len(Cases) : Cases[i] \in CaseKinds /\ Lab!Place(Cases[i]) = i
  /\ \A k \in CaseKinds : Lab!Place(k) \in 1..Len(Cases) /\ Cases[Lab!Place(k)] = k
  /\ CaseKinds \subseteq Lab!Kinds /\ Buttons \subseteq Lab!Kinds
  /\ Lab!Kinds = Buttons \cup CaseKinds
<1>1. \A i \in 1..Len(Cases) : Cases[i] \in CaseKinds
  BY DEF CaseKinds
<1>2. \A k \in CaseKinds : Lab!Place(k) \in 1..Len(Cases) /\ Cases[Lab!Place(k)] = k
  BY DEF CaseKinds, Lab!Place
<1>3. \A i \in 1..Len(Cases) : Lab!Place(Cases[i]) = i
  BY <1>1, <1>2, LabConstants
<1> QED BY <1>1, <1>2, <1>3 DEF CaseKinds, Lab!Kinds

LEMMA TracksIsNat ==
  /\ \A k : Lab!Tracks(k) \in Nat
  /\ \A k \in Lab!Requests : Lab!Tracks(k) = 0
  /\ Lab!Tracks("optOut") = 0 /\ Lab!Tracks("stress") = Burst /\ Lab!Tracks("diagnostics") = 1
<1>1. ASSUME NEW k PROVE Lab!Tracks(k) \in Nat
  BY LabConstants DEF Lab!Tracks
<1> QED BY <1>1 DEF Lab!Tracks, Lab!Requests

LEMMA JobIsTyped == ASSUME JobsInv, NEW i \in Lab!Jobs PROVE jobs[i] \in JobType
  BY DEF JobsInv, Lab!Jobs

\* A job that is alone and has delivered what it tracked finds it.
LEMMA AloneIsSatisfied ==
  ASSUME JobsInv, NEW i \in Lab!Jobs, jobs[i].lone, jobs[i].at = "check"
  PROVE  Lab!Status(i) = "ok"
<1> DEFINE k == jobs[i].kind
<1>1. k \in Lab!Kinds /\ records \in [Lab!Kinds -> Nat]
  <2>1. jobs[i] \in JobType
    BY JobIsTyped
  <2> QED BY <2>1 DEF JobsInv, JobType
<1>2. k \notin Lab!Requests => records[k] = Lab!Tracks(k)
  BY DEF JobsInv, JobAlone, JobTracks
<1>3. Lab!Satisfied(k)
  <2>1. CASE k \in Lab!Requests
    BY <1>1, <2>1, TracksIsNat DEF Lab!Satisfied, Lab!IsRecorded, Lab!Requests
  <2>2. CASE k \notin Lab!Requests
    BY <1>1, <1>2, <2>2, TracksIsNat DEF Lab!Satisfied, Lab!IsRecorded, Lab!NothingEscaped,
       Lab!AllDelivered, Lab!AnyRecorded
  <2> QED BY <2>1, <2>2
<1> QED BY <1>3 DEF Lab!Status


\* A job that begins finds every other job ended, or is not alone.
LEMMA JobBegins ==
  ASSUME JobsInv, NEW old \in Seq(JobType), NEW new \in JobType, jobs' = Append(old, new),
         Len(old) = Len(jobs), records' \in [Lab!Kinds -> Nat], run \in Nat, run' \in Nat, run <= run',
         \A i \in Lab!Jobs :
           /\ old[i].kind = jobs[i].kind /\ old[i].run = jobs[i].run
           /\ old[i].accepted = jobs[i].accepted /\ old[i].flushed = jobs[i].flushed
           /\ old[i].at = jobs[i].at \/ (jobs[i].at = "check" /\ old[i].at \in Ended)
           /\ old[i].lone => old[i].at = "ok",
         new.lone => \A i \in Lab!Jobs : old[i].at \in Ended,
         \/ new.at \in {"request", "init"} /\ new.accepted = 0 /\ new.run # 0
         \/ new.at = "flush" /\ new.accepted = Lab!Tracks(new.kind) /\ new.run = 0,
         new.flushed = 0, new.run # 0 => new.kind \in CaseKinds /\ new.run <= run',
         new.at = "request" => new.kind \in Lab!Requests \cup {"diagnostics"},
         new.at # "request" => records'[new.kind] = 0
  PROVE  JobsInv'
<1>1. /\ Len(jobs') = Len(jobs) + 1 /\ jobs'[Len(jobs) + 1] = new /\ Len(jobs) \in Nat
      /\ \A i \in Lab!Jobs : jobs'[i] = old[i]
  BY DEF Lab!Jobs, JobsInv
<1>2. Lab!Jobs' = Lab!Jobs \cup {Len(jobs) + 1} /\ Len(jobs) + 1 \notin Lab!Jobs
  BY <1>1 DEF Lab!Jobs
<1>3. jobs' \in Seq(JobType)
  OBVIOUS
<1>4. ASSUME NEW i \in Lab!Jobs PROVE (JobTracks(i) /\ JobIsOf(i) /\ JobAlone(i))'
  <2>1. jobs'[i] = old[i] /\ JobTracks(i) /\ JobIsOf(i) /\ jobs[i] \in JobType
    BY <1>1, JobIsTyped DEF JobsInv
  <2>2. JobTracks(i)'
    BY <2>1 DEF JobTracks, Ended
  <2>3. JobIsOf(i)'
    <3>1. /\ jobs[i].run \in Nat /\ jobs'[i].run = jobs[i].run /\ jobs'[i].kind = jobs[i].kind
          /\ jobs'[i].at = jobs[i].at \/ jobs'[i].at \in Ended
      <4>1. jobs[i].run \in Nat
        BY <2>1 DEF JobType
      <4>2. jobs'[i].run = jobs[i].run /\ jobs'[i].kind = jobs[i].kind
        BY <2>1
      <4>3. jobs'[i].at = jobs[i].at \/ jobs'[i].at \in Ended
        BY <2>1
      <4> QED BY <4>1, <4>2, <4>3
    <3>2. jobs[i].run # 0 => jobs[i].kind \in CaseKinds /\ jobs[i].run <= run'
      BY <2>1, <3>1 DEF JobIsOf
    <3> QED BY <2>1, <3>1, <3>2 DEF JobIsOf, Ended
  <2>4. JobAlone(i)'
    BY <2>1 DEF JobAlone, Ended
  <2> QED BY <2>2, <2>3, <2>4
<1>5. ASSUME NEW i, i = Len(jobs) + 1 PROVE (JobTracks(i) /\ JobIsOf(i) /\ JobAlone(i))'
  <2>1. jobs'[i] = new
    BY <1>1, <1>5
  <2>2. JobTracks(i)'
    BY <2>1 DEF JobTracks, Ended
  <2>3. JobIsOf(i)'
    BY <2>1 DEF JobIsOf
  <2>4. JobAlone(i)'
    BY <1>1, <1>2, <1>5, <2>1 DEF JobAlone, Ended
  <2> QED BY <2>2, <2>3, <2>4
<1> QED BY <1>2, <1>3, <1>4, <1>5 DEF JobsInv

\* A job moves on while the others stay, or its flush takes what others tracked.
LEMMA JobMoves ==
  ASSUME JobsInv, Len(jobs') = Len(jobs), jobs' \in Seq(JobType), records' \in [Lab!Kinds -> Nat],
         UNCHANGED run, NEW j \in Lab!Jobs, jobs[j].at \notin Ended,
         \A i \in Lab!Jobs :
           /\ jobs'[i].kind = jobs[i].kind /\ jobs'[i].run = jobs[i].run
           /\ jobs'[i].lone = jobs[i].lone
           /\ i # j => jobs'[i].at = jobs[i].at /\ JobTracks(i)'
           /\ i # j /\ jobs[i].at \notin Ended /\ jobs[j].lone => FALSE,
         JobTracks(j)', JobIsOf(j)',
         jobs[j].lone => /\ jobs'[j].at # "fail"
                         /\ jobs'[j].at \in {"init", "flush", "check"} /\ jobs[j].kind \notin Lab!Requests
                              => records'[jobs[j].kind] = jobs'[j].flushed
  PROVE  JobsInv'
<1>1. Lab!Jobs' = Lab!Jobs
  BY DEF Lab!Jobs
<1>2. ASSUME NEW i \in Lab!Jobs, i # j PROVE (JobTracks(i) /\ JobIsOf(i) /\ JobAlone(i))'
  <2>1. JobIsOf(i) /\ JobAlone(i)
    BY DEF JobsInv
  <2>2. JobIsOf(i)'
    BY <1>2, <2>1 DEF JobIsOf
  <2>3. jobs[i].lone => jobs[i].at \in Ended
    BY <1>2, <2>1 DEF JobAlone
  <2>4. JobAlone(i)'
    BY <1>2, <2>1, <2>3 DEF JobAlone, Ended
  <2> QED BY <1>2, <2>2, <2>4
<1>3. JobAlone(j)'
  <2>1. jobs[j].lone => \A i \in Lab!Jobs \ {j} : jobs'[i].at \in Ended
    OBVIOUS
  <2> QED BY <1>1, <2>1 DEF JobAlone
<1> QED BY <1>1, <1>2, <1>3 DEF JobsInv


\* What the constants say of a press and of the first step of a case.
LEMMA FirstSteps ==
  ASSUME NEW k \in CaseKinds
  PROVE  /\ Lab!FirstStep(k) \in {"request", "init"}
         /\ Lab!FirstStep(k) = "request" => k \in Lab!Requests \cup {"diagnostics"}
         /\ Lab!FirstStep(k) # "request" => Lab!ClearedFor(k) = Lab!NoRecords
         /\ Lab!ClearedFor(k) \in {Lab!NoRecords, records}
  BY DEF Lab!FirstStep, Lab!ClearedFor, Lab!Cleared

LEMMA NoneRecorded ==
  Lab!NoRecords \in [Lab!Kinds -> Nat] /\ \A k \in Lab!Kinds : Lab!NoRecords[k] = 0
  BY DEF Lab!NoRecords

LEMMA ASequence ==
  ASSUME NEW n \in Nat, NEW S, NEW q, q = [i \in 1..n |-> q[i]], \A i \in 1..n : q[i] \in S
  PROVE  q \in Seq(S) /\ Len(q) = n
<1>1. [i \in 1..n |-> q[i]] \in [1..n -> S]
  OBVIOUS
<1>2. q \in [1..n -> S]
  BY <1>1
<1> QED BY <1>2

\* The jobs that a new one joins, as they are then, and the new one.
Joins(old, new, k, of, from, count) ==
  /\ Len(old) = Len(jobs)
  /\ \A i \in Lab!Jobs :
       /\ old[i].kind = jobs[i].kind /\ old[i].run = jobs[i].run
       /\ old[i].accepted = jobs[i].accepted /\ old[i].flushed = jobs[i].flushed
       /\ old[i].at = jobs[i].at
       /\ old[i].lone => old[i].at = "ok"
  /\ new.lone => \A i \in Lab!Jobs : old[i].at \in Ended
  /\ new.kind = k /\ new.run = of /\ new.at = from /\ new.accepted = count /\ new.flushed = 0

LEMMA JobJoins ==
  ASSUME JobsInv, NEW k \in Lab!Kinds, NEW of \in Nat, NEW from \in JobSteps, NEW count \in Nat
  PROVE  \E old \in Seq(JobType), new \in JobType :
           Lab!Joined(k, of, from, count) = Append(old, new) /\ Joins(old, new, k, of, from, count)
<1> DEFINE old == [j \in Lab!Jobs |-> [jobs[j] EXCEPT !.lone = @ /\ ~Lab!IsRunning(j)]]
           alone == \A j \in Lab!Jobs : ~Lab!IsRunning(j)
           new == [kind |-> k, run |-> of, at |-> from, accepted |-> count, flushed |-> 0, lone |-> alone]
<1>1. Lab!Joined(k, of, from, count) = Append(old, new)
  BY DEF Lab!Joined
<1>2. ASSUME NEW i \in Lab!Jobs
      PROVE  /\ old[i] \in JobType
             /\ old[i].kind = jobs[i].kind /\ old[i].run = jobs[i].run
             /\ old[i].accepted = jobs[i].accepted /\ old[i].flushed = jobs[i].flushed
             /\ old[i].at = jobs[i].at
             /\ old[i].lone => old[i].at = "ok"
  <2>1. jobs[i] \in JobType /\ JobAlone(i)
    BY JobIsTyped DEF JobsInv
  <2>2. old[i] = [jobs[i] EXCEPT !.lone = jobs[i].lone /\ ~Lab!IsRunning(i)]
    OBVIOUS
  <2> HIDE DEF old
  <2>3. CASE Lab!IsRunning(i)
    <3>1. (jobs[i].lone /\ ~Lab!IsRunning(i)) = FALSE
      BY <2>3
    <3>2. old[i] = [jobs[i] EXCEPT !.lone = FALSE]
      BY <2>2, <3>1
    <3> HIDE DEF new, alone
    <3> QED BY <2>1, <3>2 DEF JobType
  <2>4. CASE ~Lab!IsRunning(i)
    <3>1. old[i] = [jobs[i] EXCEPT !.lone = jobs[i].lone]
      BY <2>1, <2>2, <2>4 DEF JobType
    <3>2. old[i] = jobs[i]
      BY <2>1, <3>1 DEF JobType
    <3>3. jobs[i].at \in Ended
      BY <2>1, <2>4 DEF Lab!IsRunning, Ended, JobType, JobSteps
    <3> QED BY <2>1, <3>2, <3>3 DEF JobAlone, Ended
  <2> QED BY <2>3, <2>4
<1>3. Len(jobs) \in Nat /\ DOMAIN old = 1..Len(jobs)
  BY DEF JobsInv, Lab!Jobs
<1>4. old \in Seq(JobType) /\ Len(old) = Len(jobs)
  <2>1. old = [i \in 1..Len(jobs) |-> old[i]] /\ \A i \in 1..Len(jobs) : old[i] \in JobType
    BY <1>2 DEF Lab!Jobs
  <2> HIDE DEF old
  <2> QED BY <1>3, <2>1, ASequence
<1>5. new \in JobType
  BY DEF JobType
<1>6. new.lone => \A i \in Lab!Jobs : old[i].at \in Ended
  <2> SUFFICES ASSUME alone, NEW i \in Lab!Jobs PROVE jobs[i].at \in Ended
    BY <1>2
  <2> QED BY JobIsTyped DEF Lab!IsRunning, Ended, JobType, JobSteps
<1>7. new.kind = k /\ new.run = of /\ new.at = from /\ new.accepted = count /\ new.flushed = 0
  OBVIOUS
<1> HIDE DEF old, new
<1> QED BY <1>1, <1>2, <1>4, <1>5, <1>6, <1>7 DEF Joins


LEMMA LargerSet ==
  ASSUME NEW S, NEW T, S \subseteq T, NEW q \in Seq(S) PROVE q \in Seq(T)
<1>1. q = [i \in 1..Len(q) |-> q[i]] /\ Len(q) \in Nat /\ \A i \in 1..Len(q) : q[i] \in T
  OBVIOUS
<1> QED BY <1>1, ASequence

LEMMA RowsStay == ASSUME UNCHANGED rows, Lab!RowsInOrder PROVE Lab!RowsInOrder'
  BY DEF Lab!RowsInOrder

LEMMA LastOf ==
  ASSUME NEW S, NEW q \in Seq(S), q # <<>> PROVE Len(q) \in 1..Len(q) /\ q[Len(q)] \in S
<1>1. Len(q) \in Nat /\ Len(q) # 0
  OBVIOUS
<1> QED BY <1>1

LEMMA PressStep == ASSUME LabInv, NEW b \in Buttons, Lab!Press(b) PROVE LabInv'
<1>1. /\ jobs' = Lab!Joined(b, 0, "flush", Lab!Tracks(b)) /\ records' = Lab!NoRecords
      /\ UNCHANGED <<rows, run, mounted>>
  BY DEF Lab!Press, Lab!Awaits, Lab!Cleared
<1>2. b \in Lab!Kinds /\ Lab!Tracks(b) \in Nat /\ "flush" \in JobSteps /\ 0 \in Nat /\ JobsInv
  BY PlacesOfCases, TracksIsNat DEF JobSteps, LabInv
<1>3. PICK old \in Seq(JobType), new \in JobType :
        jobs' = Append(old, new) /\ Joins(old, new, b, 0, "flush", Lab!Tracks(b))
  BY <1>1, <1>2, JobJoins
<1>4. JobsInv'
  <2>1. /\ run \in Nat /\ run' \in Nat /\ run <= run' /\ records' \in [Lab!Kinds -> Nat]
        /\ records'[new.kind] = 0
    BY <1>1, <1>2, <1>3, NoneRecorded DEF LabInv, RowsInv, Joins
  <2>2. \A i \in Lab!Jobs :
           /\ old[i].kind = jobs[i].kind /\ old[i].run = jobs[i].run
           /\ old[i].accepted = jobs[i].accepted /\ old[i].flushed = jobs[i].flushed
           /\ old[i].at = jobs[i].at \/ (jobs[i].at = "check" /\ old[i].at \in Ended)
           /\ old[i].lone => old[i].at = "ok"
    BY <1>3 DEF Joins
  <2> QED BY <1>2, <1>3, <2>1, <2>2, JobBegins DEF Joins
<1>5. RowsInv'
  <2>1. /\ Len(jobs) \in Nat /\ Lab!Jobs' = Lab!Jobs \cup {Len(jobs) + 1}
        /\ jobs'[Len(jobs) + 1].run = 0
        /\ \A i \in Lab!Jobs : jobs'[i].run = jobs[i].run /\ jobs'[i].at = jobs[i].at
                               /\ jobs'[i].kind = jobs[i].kind
    BY <1>2, <1>3 DEF Lab!Jobs, JobsInv, Joins
  <2>2. rows' \in Seq([run : 1..run', kind : CaseKinds]) /\ run' \in Nat /\ mounted' \in BOOLEAN
    BY <1>1 DEF LabInv, RowsInv
  <2>3. Lab!RowsInOrder'
    BY <1>1, RowsStay DEF LabInv, RowsInv
  <2>4. \A i \in Lab!Jobs' : jobs'[i].run = run' /\ run' # 0 => i \in Lab!Jobs
    BY <1>1, <2>1
  <2> QED BY <1>1, <2>1, <2>2, <2>3, <2>4 DEF LabInv, RowsInv
<1> QED BY <1>4, <1>5 DEF LabInv

LEMMA OpenStep == ASSUME LabInv, Lab!Open PROVE LabInv'
<1> DEFINE k == Cases[1]
<1>1. /\ jobs' = Lab!Joined(k, run + 1, Lab!FirstStep(k), 0) /\ records' = Lab!ClearedFor(k)
      /\ run' = run + 1 /\ mounted' = TRUE /\ (rows' = rows \/ rows' = <<>>)
  BY DEF Lab!Open, Lab!Begins
<1>2. k \in CaseKinds /\ k \in Lab!Kinds /\ Lab!FirstStep(k) \in JobSteps /\ run \in Nat /\ JobsInv
  BY LabConstants, PlacesOfCases, FirstSteps DEF JobSteps, LabInv, RowsInv
<1> HIDE DEF k
<1>3. PICK old \in Seq(JobType), new \in JobType :
        jobs' = Append(old, new) /\ Joins(old, new, k, run + 1, Lab!FirstStep(k), 0)
  <2>1. run + 1 \in Nat /\ 0 \in Nat
    BY <1>2
  <2> QED BY <1>1, <1>2, <2>1, JobJoins
<1>4. JobsInv'
  <2>1. /\ run' \in Nat /\ run <= run' /\ run + 1 # 0 /\ records' \in [Lab!Kinds -> Nat]
        /\ new.at # "request" => records'[new.kind] = 0
    BY <1>1, <1>2, <1>3, FirstSteps, NoneRecorded DEF JobsInv, Joins
  <2>2. \A i \in Lab!Jobs :
           /\ old[i].kind = jobs[i].kind /\ old[i].run = jobs[i].run
           /\ old[i].accepted = jobs[i].accepted /\ old[i].flushed = jobs[i].flushed
           /\ old[i].at = jobs[i].at \/ (jobs[i].at = "check" /\ old[i].at \in Ended)
           /\ old[i].lone => old[i].at = "ok"
    BY <1>3 DEF Joins
  <2>3. /\ new.at \in {"request", "init"} /\ new.accepted = 0 /\ new.run # 0 /\ new.run <= run'
        /\ new.at = "request" => new.kind \in Lab!Requests \cup {"diagnostics"}
    BY <1>1, <1>2, <1>3, <2>1, FirstSteps DEF Joins
  <2> QED BY <1>2, <1>3, <2>1, <2>2, <2>3, JobBegins DEF Joins
<1>5. RowsInv'
  <2>1. /\ Len(jobs) \in Nat /\ Lab!Jobs' = Lab!Jobs \cup {Len(jobs) + 1}
        /\ jobs'[Len(jobs) + 1].kind = k
        /\ \A i \in Lab!Jobs : jobs'[i].run = jobs[i].run
    BY <1>2, <1>3 DEF Lab!Jobs, JobsInv, Joins
  <2>2. \A i \in Lab!Jobs : jobs[i].run # run'
    <3> SUFFICES ASSUME NEW i \in Lab!Jobs PROVE jobs[i].run # run + 1
      BY <1>1
    <3>1. jobs[i].run \in Nat /\ (jobs[i].run # 0 => jobs[i].run <= run)
      BY <1>2, JobIsTyped DEF JobsInv, JobIsOf, JobType
    <3> QED BY <1>2, <3>1
  <2>3. /\ rows \in Seq([run : 1..run, kind : CaseKinds]) /\ Lab!RowsInOrder
    BY DEF LabInv, RowsInv
  <2>4. rows' \in Seq([run : 1..run', kind : CaseKinds]) /\ Lab!RowsInOrder'
    <3>1. [run : 1..run, kind : CaseKinds] \subseteq [run : 1..run', kind : CaseKinds]
      BY <1>1, <1>2
    <3>2. CASE rows' = rows
      <4>1. Lab!RowsInOrder'
        BY <2>3, <3>2, RowsStay
      <4>2. rows \in Seq([run : 1..run', kind : CaseKinds])
        BY <2>3, <3>1, LargerSet
      <4> QED BY <3>2, <4>1, <4>2
    <3>3. CASE rows' = <<>>
      BY <3>3 DEF Lab!RowsInOrder
    <3> QED BY <1>1, <3>2, <3>3
  <2>5. rows' # <<>> => rows'[Len(rows')].run # run'
    <3> SUFFICES ASSUME rows' = rows, rows # <<>> PROVE rows[Len(rows)].run # run + 1
      BY <1>1
    <3>1. rows[Len(rows)] \in [run : 1..run, kind : CaseKinds]
      BY <2>3, LastOf
    <3> QED BY <1>2, <3>1
  <2>6. \A i \in Lab!Jobs' : jobs'[i].run = run' => i = Len(jobs) + 1 /\ jobs'[i].kind = k
    BY <2>1, <2>2
  <2>7. run' \in Nat /\ mounted' \in BOOLEAN
    BY <1>1, <1>2
  <2> QED BY <2>4, <2>5, <2>6, <2>7 DEF RowsInv, k
<1> QED BY <1>4, <1>5 DEF LabInv


\* Nothing that the rows are about happens when no case begins and no row is added.
LEMMA RowsKeep ==
  ASSUME RowsInv, UNCHANGED <<rows, run>>, Len(jobs') = Len(jobs), mounted' \in BOOLEAN,
         mounted' = TRUE => mounted = TRUE,
         \A i \in Lab!Jobs : /\ jobs'[i].run = jobs[i].run /\ jobs'[i].kind = jobs[i].kind
                             /\ jobs'[i].at \notin Ended => jobs[i].at \notin Ended
  PROVE  RowsInv'
<1>1. Lab!Jobs' = Lab!Jobs
  BY DEF Lab!Jobs
<1>2. rows' \in Seq([run : 1..run', kind : CaseKinds]) /\ run' \in Nat
  BY DEF RowsInv
<1>3. Lab!RowsInOrder'
  BY RowsStay DEF RowsInv
<1>4. \A i, j \in Lab!Jobs' : jobs'[i].run = run' /\ jobs'[j].run = run' /\ run' # 0
        /\ jobs'[i].at \notin Ended /\ jobs'[j].at \notin Ended => i = j
  BY <1>1 DEF RowsInv
<1>5. \A i \in Lab!Jobs' : jobs'[i].run = run' /\ run' # 0 /\ jobs'[i].at \notin Ended /\ mounted' =>
       IF rows' = <<>> THEN jobs'[i].kind = Cases[1]
       ELSE IF rows'[Len(rows')].run # run' THEN jobs'[i].kind = Cases[1]
       ELSE Lab!Place(jobs'[i].kind) = Lab!Place(rows'[Len(rows')].kind) + 1
  <2> SUFFICES ASSUME NEW i \in Lab!Jobs, jobs[i].run = run, run # 0, jobs[i].at \notin Ended,
                      mounted = TRUE
               PROVE  IF rows = <<>> THEN jobs[i].kind = Cases[1]
                      ELSE IF rows[Len(rows)].run # run THEN jobs[i].kind = Cases[1]
                      ELSE Lab!Place(jobs[i].kind) = Lab!Place(rows[Len(rows)].kind) + 1
    BY <1>1
  <2> QED BY DEF RowsInv
<1> QED BY <1>2, <1>3, <1>4, <1>5 DEF RowsInv

LEMMA LeaveStep == ASSUME LabInv, Lab!Leave PROVE LabInv'
<1>1. UNCHANGED <<jobs, records, rows, run>> /\ mounted' = FALSE
  BY DEF Lab!Leave
<1>2. JobsInv'
  BY <1>1 DEF LabInv, JobsInv, JobTracks, JobIsOf, JobAlone, Lab!Jobs
<1>3. RowsInv'
  BY <1>1, RowsKeep DEF LabInv
<1> QED BY <1>2, <1>3 DEF LabInv

LEMMA MovesTo ==
  ASSUME JobsInv, NEW j \in Lab!Jobs, NEW to \in JobSteps, Lab!Moves(j, to)
  PROVE  /\ jobs' \in Seq(JobType) /\ Len(jobs') = Len(jobs)
         /\ \A i \in Lab!Jobs : i # j => jobs'[i] = jobs[i]
         /\ jobs'[j] = [jobs[j] EXCEPT !.at = to]
<1>1. jobs' = [jobs EXCEPT ![j].at = to] /\ DOMAIN jobs = 1..Len(jobs) /\ Len(jobs) \in Nat
  BY DEF Lab!Moves, JobsInv
<1>2. /\ \A i \in Lab!Jobs : i # j => jobs'[i] = jobs[i]
      /\ jobs'[j] = [jobs[j] EXCEPT !.at = to]
      /\ jobs' = [i \in 1..Len(jobs) |-> jobs'[i]]
  BY <1>1 DEF Lab!Jobs
<1>3. \A i \in 1..Len(jobs) : jobs'[i] \in JobType
  BY <1>2, JobIsTyped DEF Lab!Jobs, JobType
<1>4. Len(jobs) \in Nat /\ jobs' = [i \in 1..Len(jobs) |-> jobs'[i]]
  BY <1>1, <1>2
<1>5. jobs' \in Seq(JobType) /\ Len(jobs') = Len(jobs)
  BY <1>3, <1>4, ASequence
<1> QED BY <1>2, <1>5

\* A job that moves on by itself, with the records cleared or as they are.
LEMMA JobMovesAlone ==
  ASSUME LabInv, NEW j \in Lab!Jobs, jobs[j].at \notin Ended, NEW to \in JobSteps, Lab!Moves(j, to),
         records' \in [Lab!Kinds -> Nat], UNCHANGED <<rows, run, mounted>>,
         JobTracks(j)', JobIsOf(j)',
         jobs[j].lone => /\ to # "fail"
                         /\ to \in {"init", "flush", "check"} /\ jobs[j].kind \notin Lab!Requests
                              => records'[jobs[j].kind] = jobs[j].flushed
  PROVE  LabInv'
<1>1. /\ jobs' \in Seq(JobType) /\ Len(jobs') = Len(jobs)
      /\ \A i \in Lab!Jobs : i # j => jobs'[i] = jobs[i]
      /\ jobs'[j] = [jobs[j] EXCEPT !.at = to]
  BY MovesTo DEF LabInv
<1>2. jobs[j] \in JobType
  BY JobIsTyped DEF LabInv
<1>3. /\ jobs'[j].kind = jobs[j].kind /\ jobs'[j].run = jobs[j].run /\ jobs'[j].lone = jobs[j].lone
      /\ jobs'[j].at = to /\ jobs'[j].flushed = jobs[j].flushed
  BY <1>1, <1>2 DEF JobType
<1>4. \A i \in Lab!Jobs : i # j => JobTracks(i)'
  BY <1>1 DEF LabInv, JobsInv, JobTracks
<1>5. jobs[j].lone => \A i \in Lab!Jobs : i # j => jobs[i].at \in Ended
  BY DEF LabInv, JobsInv, JobAlone
<1>6. JobsInv'
  BY <1>1, <1>3, <1>4, <1>5, JobMoves DEF LabInv
<1>7. RowsInv'
  BY <1>1, <1>3, RowsKeep DEF LabInv, RowsInv
<1> QED BY <1>6, <1>7 DEF LabInv

LEMMA AnswerStep == ASSUME LabInv, NEW j \in Lab!Jobs, Lab!Answer(j) PROVE LabInv'
<1> DEFINE to == IF jobs[j].kind = "diagnostics" THEN "init" ELSE "check"
<1>1. /\ jobs[j].at = "request" /\ Lab!Moves(j, to) /\ UNCHANGED <<rows, run, mounted>>
      /\ records' = IF jobs[j].kind = "diagnostics" THEN Lab!NoRecords ELSE records
  BY DEF Lab!Answer, Lab!AtStep, Lab!Cleared
<1>2. /\ jobs[j].kind \in Lab!Kinds /\ jobs[j].run \in Nat /\ jobs[j] \in JobType /\ to \in JobSteps
      /\ jobs[j].kind \in Lab!Requests \cup {"diagnostics"} /\ jobs[j].run # 0
      /\ jobs[j].accepted = 0 /\ jobs[j].flushed = 0
  BY <1>1, JobIsTyped DEF LabInv, JobsInv, JobType, JobIsOf, JobTracks, JobSteps
<1>3. jobs'[j] = [jobs[j] EXCEPT !.at = to]
  BY <1>1, <1>2, MovesTo DEF LabInv
<1>4. /\ jobs'[j].kind = jobs[j].kind /\ jobs'[j].run = jobs[j].run /\ jobs'[j].at = to
      /\ jobs'[j].accepted = 0 /\ jobs'[j].flushed = 0
  BY <1>2, <1>3 DEF JobType
<1>5. JobTracks(j)'
  BY <1>2, <1>4, TracksIsNat DEF JobTracks, Ended
<1>6. JobIsOf(j)'
  BY <1>1, <1>2, <1>4 DEF LabInv, JobsInv, JobIsOf
<1>7. /\ records' \in [Lab!Kinds -> Nat]
      /\ jobs[j].kind \notin Lab!Requests => records'[jobs[j].kind] = jobs[j].flushed
  BY <1>1, <1>2, NoneRecorded DEF LabInv, JobsInv, Lab!Requests
<1> QED BY <1>1, <1>2, <1>5, <1>6, <1>7, JobMovesAlone DEF Ended


LEMMA InitedStep == ASSUME LabInv, NEW j \in Lab!Jobs, Lab!Inited(j) PROVE LabInv'
<1>1. /\ jobs[j].at = "init" /\ UNCHANGED <<records, rows, run, mounted>>
      /\ jobs' = [jobs EXCEPT ![j].at = "flush", ![j].accepted = Lab!Tracks(jobs[j].kind)]
  BY DEF Lab!Inited, Lab!AtStep, Lab!Awaits
<1>2. /\ jobs[j] \in JobType /\ DOMAIN jobs = 1..Len(jobs) /\ Len(jobs) \in Nat
      /\ JobTracks(j) /\ JobIsOf(j) /\ JobAlone(j) /\ JobsInv /\ RowsInv
  BY JobIsTyped DEF LabInv, JobsInv
<1>3. /\ \A i \in Lab!Jobs : i # j => jobs'[i] = jobs[i]
      /\ jobs'[j] = [jobs[j] EXCEPT !.at = "flush", !.accepted = Lab!Tracks(jobs[j].kind)]
      /\ jobs' = [i \in 1..Len(jobs) |-> jobs'[i]]
  BY <1>1, <1>2 DEF Lab!Jobs
<1>4. /\ jobs'[j].kind = jobs[j].kind /\ jobs'[j].run = jobs[j].run /\ jobs'[j].lone = jobs[j].lone
      /\ jobs'[j].at = "flush" /\ jobs'[j].accepted = Lab!Tracks(jobs[j].kind)
      /\ jobs'[j].flushed = jobs[j].flushed /\ jobs[j].flushed = 0 /\ jobs'[j] \in JobType
  <2>1. jobs[j].flushed = 0
    BY <1>1, <1>2 DEF JobTracks
  <2>2. Lab!Tracks(jobs[j].kind) \in Nat /\ "flush" \in JobSteps
    BY TracksIsNat DEF JobSteps
  <2> DEFINE mid == [jobs[j] EXCEPT !.at = "flush"]
  <2>3. /\ mid \in JobType /\ mid.kind = jobs[j].kind /\ mid.run = jobs[j].run
        /\ mid.lone = jobs[j].lone /\ mid.flushed = jobs[j].flushed /\ mid.at = "flush"
    BY <1>2, <2>2 DEF JobType
  <2>4. jobs'[j] = [mid EXCEPT !.accepted = Lab!Tracks(jobs[j].kind)]
    BY <1>3
  <2> HIDE DEF mid
  <2>5. /\ jobs'[j] \in JobType /\ jobs'[j].kind = mid.kind /\ jobs'[j].run = mid.run
        /\ jobs'[j].lone = mid.lone /\ jobs'[j].flushed = mid.flushed /\ jobs'[j].at = mid.at
        /\ jobs'[j].accepted = Lab!Tracks(jobs[j].kind)
    BY <2>2, <2>3, <2>4 DEF JobType
  <2> QED BY <2>1, <2>3, <2>5
<1>5. jobs' \in Seq(JobType) /\ Len(jobs') = Len(jobs)
  <2>1. \A i \in 1..Len(jobs) : jobs'[i] \in JobType
    BY <1>2, <1>3, <1>4, JobIsTyped DEF Lab!Jobs
  <2>2. Len(jobs) \in Nat /\ jobs' = [i \in 1..Len(jobs) |-> jobs'[i]]
    BY <1>2, <1>3
  <2> QED BY <2>1, <2>2, ASequence
<1>6. JobTracks(j)'
  BY <1>4 DEF JobTracks, Ended
<1>7. JobIsOf(j)'
  BY <1>1, <1>2, <1>4 DEF JobIsOf
<1>8. \A i \in Lab!Jobs : i # j => JobTracks(i)'
  BY <1>3 DEF LabInv, JobsInv, JobTracks
<1>9. jobs[j].lone => /\ \A i \in Lab!Jobs : i # j => jobs[i].at \in Ended
                      /\ jobs[j].kind \notin Lab!Requests => records[jobs[j].kind] = 0
  BY <1>1, <1>2, <1>4 DEF JobAlone, Ended
<1>10. JobsInv'
  <2>1. records' \in [Lab!Kinds -> Nat] /\ jobs[j].at \notin Ended /\ UNCHANGED <<run, records>>
    BY <1>1, <1>2 DEF JobsInv, Ended
  <2> QED BY <1>2, <1>3, <1>4, <1>5, <1>6, <1>7, <1>8, <1>9, <2>1, JobMoves
<1>11. RowsInv'
  <2>1. /\ mounted' = mounted /\ mounted \in BOOLEAN /\ jobs[j].at \notin Ended
    BY <1>1, <1>2 DEF RowsInv, Ended
  <2> QED BY <1>1, <1>2, <1>3, <1>4, <1>5, <2>1, RowsKeep
<1> QED BY <1>10, <1>11 DEF LabInv

\* A job that looks at the records and ends, when nothing follows from it.
LEMMA JobEnds ==
  ASSUME LabInv, NEW j \in Lab!Jobs, jobs[j].at = "check", Lab!Moves(j, Lab!Status(j)),
         UNCHANGED <<records, rows, run, mounted>>
  PROVE  LabInv'
<1>1. /\ Lab!Status(j) \in Ended /\ Lab!Status(j) \in JobSteps
      /\ jobs[j].lone => Lab!Status(j) = "ok"
  BY AloneIsSatisfied DEF LabInv, Lab!Status, Ended, JobSteps
<1>2. jobs[j] \in JobType /\ JobTracks(j) /\ JobIsOf(j) /\ records \in [Lab!Kinds -> Nat]
  BY JobIsTyped DEF LabInv, JobsInv
<1>3. jobs'[j] = [jobs[j] EXCEPT !.at = Lab!Status(j)]
  BY <1>1, MovesTo DEF LabInv
<1>4. /\ jobs'[j].kind = jobs[j].kind /\ jobs'[j].run = jobs[j].run /\ jobs'[j].at \in Ended
      /\ jobs'[j].accepted = jobs[j].accepted /\ jobs'[j].flushed = jobs[j].flushed
  BY <1>1, <1>2, <1>3 DEF JobType
<1>5. JobTracks(j)' /\ JobIsOf(j)'
  BY <1>2, <1>4 DEF JobTracks, JobIsOf, Ended
<1> QED BY <1>1, <1>2, <1>5, JobMovesAlone DEF Ended

LEMMA CheckPressStep == ASSUME LabInv, NEW j \in Lab!Jobs, Lab!CheckPress(j) PROVE LabInv'
  BY JobEnds DEF Lab!CheckPress, Lab!AtStep


LEMMA TimesNat == \A a, b \in Nat : a * b \in Nat /\ 0 * b = 0 /\ 1 * b = b
  OBVIOUS

\* The instance counts like this module.
LEMMA SameCardinality == ASSUME NEW S PROVE Lab!Cardinality(S) = Cardinality(S)
  BY DEF Lab!Cardinality, Cardinality

\* What a flush adds to the records of each kind.
LEMMA SentIs ==
  ASSUME JobsInv, NEW from \in SUBSET Lab!Jobs, NEW k \in Lab!Kinds
  PROVE  LET of == {i \in from : jobs[i].kind = k /\ jobs[i].accepted > 0} IN
         /\ Lab!Sent(from)[k] \in Nat
         /\ of = {} => Lab!Sent(from)[k] = records[k]
         /\ \A j \in from : of = {j} => Lab!Sent(from)[k] = records[k] + Lab!Tracks(k)
<1> DEFINE of == {i \in from : jobs[i].kind = k /\ jobs[i].accepted > 0}
<1>1. IsFiniteSet(Lab!Jobs)
  BY FS_Interval DEF Lab!Jobs, JobsInv
<1>2. Cardinality(of) \in Nat /\ (of = {} => Cardinality(of) = 0)
      /\ \A j \in from : of = {j} => Cardinality(of) = 1
  BY <1>1, FS_Subset, FS_CardinalityType, FS_EmptySet, FS_Singleton
<1>3. records[k] \in Nat /\ Lab!Tracks(k) \in Nat
  BY TracksIsNat DEF JobsInv
<1>4. Lab!Sent(from)[k] = records[k] + Cardinality(of) * Lab!Tracks(k)
  BY SameCardinality DEF Lab!Sent
<1> HIDE DEF of
<1>7. Cardinality(of) * Lab!Tracks(k) \in Nat
      /\ (of = {} => Cardinality(of) * Lab!Tracks(k) = 0)
      /\ \A j \in from : of = {j} => Cardinality(of) * Lab!Tracks(k) = Lab!Tracks(k)
  BY <1>2, <1>3, TimesNat
<1>8. Lab!Sent(from)[k] \in Nat /\ (of = {} => Lab!Sent(from)[k] = records[k])
  BY <1>3, <1>4, <1>7
<1>9. \A j \in from : of = {j} => Lab!Sent(from)[k] = records[k] + Lab!Tracks(k)
  BY <1>3, <1>4, <1>7
<1> QED BY <1>8, <1>9 DEF of

\* What a flush does to the jobs.
LEMMA DeliveredTo ==
  ASSUME JobsInv, NEW from \in SUBSET Lab!Jobs, NEW to \in [Lab!Jobs -> JobSteps],
         Lab!Delivers(from, to)
  PROVE  /\ jobs' \in Seq(JobType) /\ Len(jobs') = Len(jobs)
         /\ \A i \in Lab!Jobs :
              /\ jobs'[i].kind = jobs[i].kind /\ jobs'[i].run = jobs[i].run
              /\ jobs'[i].lone = jobs[i].lone /\ jobs'[i].at = to[i]
              /\ i \in from => /\ jobs'[i].accepted = 0
                               /\ jobs'[i].flushed = jobs[i].flushed + jobs[i].accepted
              /\ i \notin from => /\ jobs'[i].accepted = jobs[i].accepted
                                  /\ jobs'[i].flushed = jobs[i].flushed
<1>1. \A i \in Lab!Jobs :
        jobs'[i] = [jobs[i] EXCEPT !.accepted = IF i \in from THEN 0 ELSE jobs[i].accepted,
                      !.flushed = IF i \in from THEN jobs[i].flushed + jobs[i].accepted
                                  ELSE jobs[i].flushed,
                      !.at = to[i]]
  BY DEF Lab!Delivers
<1>2. ASSUME NEW i \in Lab!Jobs
      PROVE  /\ jobs'[i] \in JobType
             /\ jobs'[i].kind = jobs[i].kind /\ jobs'[i].run = jobs[i].run
             /\ jobs'[i].lone = jobs[i].lone /\ jobs'[i].at = to[i]
             /\ i \in from => /\ jobs'[i].accepted = 0
                              /\ jobs'[i].flushed = jobs[i].flushed + jobs[i].accepted
             /\ i \notin from => /\ jobs'[i].accepted = jobs[i].accepted
                                 /\ jobs'[i].flushed = jobs[i].flushed
  <2> DEFINE a == IF i \in from THEN 0 ELSE jobs[i].accepted
             f == IF i \in from THEN jobs[i].flushed + jobs[i].accepted ELSE jobs[i].flushed
  <2>1. jobs[i] \in JobType /\ to[i] \in JobSteps
    BY JobIsTyped
  <2>2. a \in Nat /\ f \in Nat
    BY <2>1 DEF JobType
  <2>3. jobs'[i] = [jobs[i] EXCEPT !.accepted = a, !.flushed = f, !.at = to[i]]
    BY <1>1
  <2> HIDE DEF a, f
  <2>4. /\ jobs[i].kind \in Lab!Kinds /\ jobs[i].run \in Nat /\ jobs[i].lone \in BOOLEAN
        /\ jobs[i] = [kind |-> jobs[i].kind, run |-> jobs[i].run, at |-> jobs[i].at,
                      accepted |-> jobs[i].accepted, flushed |-> jobs[i].flushed,
                      lone |-> jobs[i].lone]
    BY <2>1 DEF JobType
  <2>5. jobs'[i] = [kind |-> jobs[i].kind, run |-> jobs[i].run, at |-> to[i], accepted |-> a,
                    flushed |-> f, lone |-> jobs[i].lone]
    BY <2>3, <2>4
  <2>6. jobs'[i] \in JobType
    BY <2>1, <2>2, <2>4, <2>5 DEF JobType
  <2>7. /\ jobs'[i].kind = jobs[i].kind /\ jobs'[i].run = jobs[i].run
        /\ jobs'[i].lone = jobs[i].lone /\ jobs'[i].at = to[i]
        /\ jobs'[i].accepted = a /\ jobs'[i].flushed = f
    BY <2>5
  <2> QED BY <2>6, <2>7 DEF a, f
<1>3. Len(jobs) \in Nat /\ jobs' = [i \in 1..Len(jobs) |-> jobs'[i]]
  <2>1. Lab!Jobs = 1..Len(jobs) /\ Len(jobs) \in Nat
    BY DEF Lab!Jobs, JobsInv
  <2>2. DOMAIN jobs' = Lab!Jobs /\ jobs' = [i \in Lab!Jobs |-> jobs'[i]]
    BY DEF Lab!Delivers
  <2> QED BY <2>1, <2>2
<1>4. \A i \in 1..Len(jobs) : jobs'[i] \in JobType
  BY <1>2 DEF Lab!Jobs
<1>5. jobs' \in Seq(JobType) /\ Len(jobs') = Len(jobs)
  BY <1>3, <1>4, ASequence
<1> QED BY <1>2, <1>5


\* A client delivers what its jobs tracked, and the job whose flush it was moves on.
LEMMA DeliverStep ==
  ASSUME LabInv, NEW from \in SUBSET Lab!Jobs, NEW to \in [Lab!Jobs -> JobSteps],
         Lab!Delivers(from, to), NEW j \in from, jobs[j].at = "flush", to[j] \in {"flush", "check"},
         \A i \in Lab!Jobs : i # j => to[i] = jobs[i].at
  PROVE  LabInv'
<1>1. /\ jobs' \in Seq(JobType) /\ Len(jobs') = Len(jobs)
      /\ \A i \in Lab!Jobs :
           /\ jobs'[i].kind = jobs[i].kind /\ jobs'[i].run = jobs[i].run
           /\ jobs'[i].lone = jobs[i].lone /\ jobs'[i].at = to[i]
           /\ i \in from => /\ jobs'[i].accepted = 0
                            /\ jobs'[i].flushed = jobs[i].flushed + jobs[i].accepted
           /\ i \notin from => /\ jobs'[i].accepted = jobs[i].accepted
                               /\ jobs'[i].flushed = jobs[i].flushed
  BY DeliveredTo DEF LabInv
<1>2. records' = Lab!Sent(from) /\ UNCHANGED <<rows, run, mounted>>
  BY DEF Lab!Delivers
<1>3. JobsInv /\ RowsInv /\ j \in Lab!Jobs
  BY DEF LabInv
<1>4. \A i \in Lab!Jobs : /\ JobTracks(i) /\ JobIsOf(i) /\ JobAlone(i) /\ jobs[i].kind \in Lab!Kinds
                          /\ jobs[i].accepted \in Nat /\ jobs[i].flushed \in Nat
  BY <1>3, JobIsTyped DEF JobsInv, JobType
<1>5. records' \in [Lab!Kinds -> Nat]
  BY <1>2, <1>3, SentIs DEF Lab!Sent
<1>6. ASSUME NEW i \in Lab!Jobs PROVE JobTracks(i)'
  <2>1. \/ jobs'[i].at = jobs[i].at
        \/ jobs[i].at = "flush" /\ jobs'[i].at \in {"flush", "check"} /\ i \in from
    BY <1>1, <1>3
  <2>2. Lab!Tracks(jobs[i].kind) \in Nat
    BY TracksIsNat
  <2>3. CASE i \in from
    <3>1. jobs'[i].accepted = 0 /\ jobs'[i].flushed = jobs[i].flushed + jobs[i].accepted
          /\ jobs'[i].kind = jobs[i].kind
      BY <1>1, <2>3
    <3>2. jobs[i].at = "flush" => jobs'[i].flushed = Lab!Tracks(jobs[i].kind)
      BY <1>4, <2>2, <3>1 DEF JobTracks
    <3> QED BY <1>4, <2>1, <3>1, <3>2 DEF JobTracks, Ended
  <2>4. CASE i \notin from
    BY <1>1, <1>4, <2>1, <2>4 DEF JobTracks, Ended
  <2> QED BY <2>3, <2>4
<1>7. JobIsOf(j)'
  BY <1>1, <1>2, <1>3, <1>4 DEF JobIsOf
<1>8. ASSUME jobs[j].lone
      PROVE  /\ \A i \in Lab!Jobs : i # j => jobs[i].at \in Ended
             /\ jobs[j].kind \notin Lab!Requests => records'[jobs[j].kind] = jobs'[j].flushed
  <2>1. \A i \in Lab!Jobs : i # j => jobs[i].at \in Ended
    BY <1>3, <1>4, <1>8 DEF JobAlone, Ended
  <2> DEFINE of == {i \in from : jobs[i].kind = jobs[j].kind /\ jobs[i].accepted > 0}
  <2>2. \A i \in of : i = j
    BY <1>4, <2>1 DEF JobTracks
  <2>3. jobs[j].kind \notin Lab!Requests => records[jobs[j].kind] = jobs[j].flushed
    BY <1>3, <1>4, <1>8 DEF JobAlone
  <2>4. jobs'[j].flushed = jobs[j].flushed + jobs[j].accepted
    BY <1>1, <1>3
  <2>5. CASE jobs[j].accepted > 0
    <3>1. of = {j} /\ jobs[j].accepted = Lab!Tracks(jobs[j].kind)
      BY <1>3, <1>4, <2>2, <2>5 DEF JobTracks
    <3>2. records'[jobs[j].kind] = records[jobs[j].kind] + Lab!Tracks(jobs[j].kind)
      BY <1>2, <1>3, <1>4, <3>1, SentIs
    <3> QED BY <2>1, <2>3, <2>4, <3>1, <3>2
  <2>6. CASE jobs[j].accepted = 0
    <3>1. of = {}
      BY <2>2, <2>6
    <3>2. records'[jobs[j].kind] = records[jobs[j].kind]
      BY <1>2, <1>3, <1>4, <3>1, SentIs
    <3> QED BY <1>3, <1>4, <2>1, <2>3, <2>4, <2>6, <3>2
  <2> QED BY <1>3, <1>4, <2>5, <2>6
<1>9. JobsInv'
  <2>1. jobs[j].at \notin Ended /\ jobs'[j].at # "fail"
    BY <1>1, <1>3 DEF Ended
  <2> QED BY <1>1, <1>2, <1>3, <1>5, <1>6, <1>7, <1>8, <2>1, JobMoves
<1>10. RowsInv'
  <2>1. /\ mounted' = mounted /\ mounted \in BOOLEAN
        /\ \A i \in Lab!Jobs : jobs'[i].at \notin Ended => jobs[i].at \notin Ended
    BY <1>1, <1>2, <1>3 DEF RowsInv, Ended
  <2> QED BY <1>1, <1>2, <1>3, <2>1, RowsKeep
<1> QED BY <1>9, <1>10 DEF LabInv

LEMMA FlushStep == ASSUME LabInv, NEW j \in Lab!Jobs, Lab!Flush(j) PROVE LabInv'
<1> DEFINE to == [i \in Lab!Jobs |-> IF i = j THEN "check" ELSE jobs[i].at]
           from == Lab!SameClient(j)
<1>1. jobs[j].at = "flush" /\ Lab!Delivers(from, to)
  BY DEF Lab!Flush, Lab!AtStep
<1>2. j \in from /\ from \in SUBSET Lab!Jobs
  BY DEF Lab!SameClient
<1>3. /\ to \in [Lab!Jobs -> JobSteps] /\ to[j] \in {"flush", "check"}
      /\ \A i \in Lab!Jobs : i # j => to[i] = jobs[i].at
  BY JobIsTyped DEF LabInv, JobType, JobSteps
<1> HIDE DEF to, from
<1> QED BY <1>1, <1>2, <1>3, DeliverStep

LEMMA ScheduledFlushStep == ASSUME LabInv, Lab!ScheduledFlush PROVE LabInv'
<1> DEFINE to == [i \in Lab!Jobs |-> jobs[i].at]
           from == {i \in Lab!Jobs : jobs[i].run = 0}
<1>1. Lab!Delivers(from, to)
  BY DEF Lab!ScheduledFlush
<1>2. PICK j \in from : jobs[j].accepted > 0
  BY DEF Lab!ScheduledFlush
<1>3. jobs[j].at = "flush"
  BY <1>2, JobIsTyped DEF LabInv, JobsInv, JobTracks, JobType, JobSteps
<1>4. /\ to \in [Lab!Jobs -> JobSteps] /\ to[j] \in {"flush", "check"}
      /\ \A i \in Lab!Jobs : i # j => to[i] = jobs[i].at
      /\ from \in SUBSET Lab!Jobs
  BY <1>2, <1>3, JobIsTyped DEF LabInv, JobType
<1> HIDE DEF to, from
<1> QED BY <1>1, <1>2, <1>3, <1>4, DeliverStep


\* The row of a live case is the next one of its run.
LEMMA RowAdded ==
  ASSUME RowsInv, NEW j \in Lab!Jobs, jobs[j].run = run, run # 0, mounted = TRUE,
         jobs[j].at \notin Ended, jobs[j].kind \in CaseKinds,
         rows' = Append(rows, [run |-> run, kind |-> jobs[j].kind]), run' = run
  PROVE  /\ rows' \in Seq([run : 1..run', kind : CaseKinds]) /\ rows' # <<>>
         /\ rows'[Len(rows')] = [run |-> run, kind |-> jobs[j].kind]
         /\ Lab!RowsInOrder'
<1> DEFINE row == [run |-> run, kind |-> jobs[j].kind]
           n == Len(rows)
<1>1. /\ rows \in Seq([run : 1..run, kind : CaseKinds]) /\ run \in Nat /\ n \in Nat
      /\ row \in [run : 1..run, kind : CaseKinds]
  BY DEF RowsInv
<1>2. /\ rows' \in Seq([run : 1..run', kind : CaseKinds]) /\ Len(rows') = n + 1
      /\ rows'[n + 1] = row /\ \A i \in 1..n : rows'[i] = rows[i]
  BY <1>1
<1>3. /\ n = 0 => jobs[j].kind = Cases[1]
      /\ n > 0 /\ rows[n].run # run => jobs[j].kind = Cases[1]
      /\ n > 0 /\ rows[n].run = run => Lab!Place(jobs[j].kind) = Lab!Place(rows[n].kind) + 1
  <2>1. n = 0 <=> rows = <<>>
    BY <1>1
  <2> QED BY <2>1 DEF RowsInv
<1>4. n > 0 => rows[n].run <= run /\ rows[n].run \in Nat
  <2>1. n > 0 => rows[n] \in [run : 1..run, kind : CaseKinds]
    <3> SUFFICES ASSUME rows # <<>> PROVE rows[Len(rows)] \in [run : 1..run, kind : CaseKinds]
      BY <1>1
    <3> HIDE DEF n, row
    <3> QED BY <1>1, LastOf
  <2> QED BY <1>1, <2>1
<1>5. \A i \in 1..n :
        IF i = 1 \/ rows[i].run # rows[i - 1].run
        THEN rows[i].kind = Cases[1] /\ (i > 1 => rows[i].run > rows[i - 1].run)
        ELSE Lab!Place(rows[i].kind) = Lab!Place(rows[i - 1].kind) + 1
  BY DEF RowsInv, Lab!RowsInOrder
<1> HIDE DEF n
<1>6. ASSUME NEW i \in 1..(n + 1)
      PROVE  IF i = 1 \/ rows'[i].run # rows'[i - 1].run
             THEN rows'[i].kind = Cases[1] /\ (i > 1 => rows'[i].run > rows'[i - 1].run)
             ELSE Lab!Place(rows'[i].kind) = Lab!Place(rows'[i - 1].kind) + 1
  <2>1. CASE i \in 1..n
    <3>1. rows'[i] = rows[i] /\ (i # 1 => rows'[i - 1] = rows[i - 1])
      BY <1>1, <1>2, <2>1
    <3>2. CASE i = 1
      BY <1>5, <2>1, <3>1, <3>2
    <3>3. CASE i # 1 /\ rows[i].run # rows[i - 1].run
      BY <1>5, <2>1, <3>1, <3>3
    <3>4. CASE i # 1 /\ rows[i].run = rows[i - 1].run
      BY <1>5, <2>1, <3>1, <3>4
    <3> QED BY <3>2, <3>3, <3>4
  <2>2. CASE i = n + 1
    <3>1. rows'[i] = row /\ row.run = run /\ row.kind = jobs[j].kind
      BY <1>2, <2>2
    <3>2. i # 1 => n > 0 /\ i - 1 = n /\ rows'[i - 1] = rows[n]
      BY <1>1, <1>2, <2>2
    <3>3. i = 1 => n = 0
      BY <1>1, <2>2
    <3> HIDE DEF row
    <3>4. CASE i = 1
      BY <1>3, <3>1, <3>3, <3>4
    <3>5. CASE i # 1 /\ rows[n].run # run
      <4>1. run > rows[n].run
        BY <1>1, <1>4, <3>2, <3>5
      <4> QED BY <1>3, <3>1, <3>2, <3>5, <4>1
    <3>6. CASE i # 1 /\ rows[n].run = run
      BY <1>3, <3>1, <3>2, <3>6
    <3> QED BY <3>4, <3>5, <3>6
  <2>3. n \in Nat
    BY <1>1
  <2>4. i \in 1..n \/ i = n + 1
    BY <2>3
  <2> QED BY <2>1, <2>2, <2>4
<1>7. Lab!RowsInOrder'
  BY <1>2, <1>6 DEF Lab!RowsInOrder, Lab!Place
<1> QED BY <1>1, <1>2, <1>7

\* A case that ends, seen by the other jobs.
LEMMA CaseEnds ==
  ASSUME LabInv, NEW j \in Lab!Jobs, jobs[j].at = "check", Lab!Moves(j, Lab!Status(j)),
         UNCHANGED <<records, run>>
  PROVE  /\ JobsInv' /\ Len(jobs') = Len(jobs)
         /\ \A i \in Lab!Jobs : i # j => jobs'[i] = jobs[i]
         /\ jobs'[j].at \in Ended
<1>1. /\ Lab!Status(j) \in Ended /\ Lab!Status(j) \in JobSteps
      /\ jobs[j].lone => Lab!Status(j) = "ok"
  BY AloneIsSatisfied DEF LabInv, Lab!Status, Ended, JobSteps
<1>2. jobs[j] \in JobType /\ JobTracks(j) /\ JobIsOf(j) /\ JobAlone(j) /\ JobsInv
      /\ records \in [Lab!Kinds -> Nat]
  BY JobIsTyped DEF LabInv, JobsInv
<1>3. /\ jobs' \in Seq(JobType) /\ Len(jobs') = Len(jobs)
      /\ \A i \in Lab!Jobs : i # j => jobs'[i] = jobs[i]
      /\ jobs'[j] = [jobs[j] EXCEPT !.at = Lab!Status(j)]
  BY <1>1, MovesTo DEF LabInv
<1>4. /\ jobs'[j].kind = jobs[j].kind /\ jobs'[j].run = jobs[j].run
      /\ jobs'[j].at \in Ended /\ jobs'[j].at = Lab!Status(j) /\ jobs'[j].lone = jobs[j].lone
      /\ jobs'[j].accepted = jobs[j].accepted /\ jobs'[j].flushed = jobs[j].flushed
  BY <1>1, <1>2, <1>3 DEF JobType
<1>5. JobTracks(j)' /\ JobIsOf(j)'
  BY <1>2, <1>4 DEF JobTracks, JobIsOf, Ended
<1>6. \A i \in Lab!Jobs : i # j => JobTracks(i)'
  BY <1>3 DEF LabInv, JobsInv, JobTracks
<1>7. jobs[j].lone => /\ \A i \in Lab!Jobs : i # j => jobs[i].at \in Ended
                      /\ jobs'[j].at # "fail" /\ jobs'[j].at \notin {"init", "flush", "check"}
  BY <1>1, <1>2, <1>4 DEF JobAlone, Ended
<1>8. JobsInv'
  <2>1. jobs[j].at \notin Ended /\ records' \in [Lab!Kinds -> Nat]
    BY <1>2 DEF Ended
  <2> QED BY <1>2, <1>3, <1>4, <1>5, <1>6, <1>7, <2>1, JobMoves
<1> QED BY <1>3, <1>4, <1>8

\* The last case of a live run.
LEMMA LastCaseStep ==
  ASSUME LabInv, NEW j \in Lab!Jobs, jobs[j].at = "check", jobs[j].run = run, run # 0, mounted = TRUE,
         Lab!Moves(j, Lab!Status(j)), UNCHANGED <<records, run, mounted>>,
         rows' = Append(rows, [run |-> run, kind |-> jobs[j].kind])
  PROVE  LabInv'
<1>1. /\ JobsInv' /\ Len(jobs') = Len(jobs)
      /\ \A i \in Lab!Jobs : i # j => jobs'[i] = jobs[i]
      /\ jobs'[j].at \in Ended
  BY CaseEnds
<1>2. /\ jobs[j].at \notin Ended /\ jobs[j].kind \in CaseKinds /\ RowsInv
  BY DEF LabInv, JobsInv, JobIsOf, Ended
<1>3. rows' \in Seq([run : 1..run', kind : CaseKinds]) /\ Lab!RowsInOrder'
  BY <1>2, RowAdded
<1>4. Lab!Jobs' = Lab!Jobs
  BY <1>1 DEF Lab!Jobs
<1>5. \A i \in Lab!Jobs' : ~(jobs'[i].run = run' /\ run' # 0 /\ jobs'[i].at \notin Ended)
  BY <1>1, <1>2, <1>4 DEF RowsInv
<1> QED BY <1>1, <1>2, <1>3, <1>5 DEF LabInv, RowsInv


\* A case of a live run that is followed by the next.
NextBegins(j, old, new) ==
  LET next == Cases[Lab!Place(jobs[j].kind) + 1]
      ended == [jobs EXCEPT ![j].at = Lab!Status(j)]
  IN  /\ old = [i \in Lab!Jobs |-> [ended[i] EXCEPT !.lone = @ /\ (i = j \/ ~Lab!IsRunning(i))]]
      /\ new = [kind |-> next, run |-> run, at |-> Lab!FirstStep(next), accepted |-> 0,
                flushed |-> 0, lone |-> \A i \in Lab!Jobs \ {j} : ~Lab!IsRunning(i)]
      /\ records' = Lab!ClearedFor(next)

LEMMA NextCaseStep ==
  ASSUME LabInv, NEW j \in Lab!Jobs, jobs[j].at = "check", jobs[j].run = run, run # 0, mounted = TRUE,
         Lab!Place(jobs[j].kind) < Len(Cases), UNCHANGED <<run, mounted>>,
         NEW old, NEW new, jobs' = Append(old, new),
         NextBegins(j, old, new),
         rows' = Append(rows, [run |-> run, kind |-> jobs[j].kind])
  PROVE  LabInv'
<1> DEFINE next == Cases[Lab!Place(jobs[j].kind) + 1]
<1>1. /\ JobsInv /\ RowsInv /\ JobIsOf(j) /\ jobs[j].at \notin Ended
      /\ jobs[j] \in JobType /\ run \in Nat
  BY JobIsTyped DEF LabInv, JobsInv, RowsInv, Ended
<1>2. jobs[j].kind \in CaseKinds
  BY <1>1 DEF JobIsOf
<1>3. /\ next \in CaseKinds /\ next \in Lab!Kinds
      /\ Lab!Place(next) = Lab!Place(jobs[j].kind) + 1
  <2>1. Lab!Place(jobs[j].kind) + 1 \in 1..Len(Cases)
    BY <1>2, PlacesOfCases, LabConstants
  <2> QED BY <2>1, PlacesOfCases
<1> HIDE DEF next
<1>4. /\ Lab!Status(j) \in Ended /\ Lab!Status(j) \in JobSteps
      /\ jobs[j].lone => Lab!Status(j) = "ok"
  BY AloneIsSatisfied DEF LabInv, Lab!Status, Ended, JobSteps
<1>5. ASSUME NEW i \in Lab!Jobs
      PROVE  /\ old[i] \in JobType
             /\ old[i].kind = jobs[i].kind /\ old[i].run = jobs[i].run
             /\ old[i].accepted = jobs[i].accepted /\ old[i].flushed = jobs[i].flushed
             /\ old[i].at = IF i = j THEN Lab!Status(j) ELSE jobs[i].at
             /\ old[i].lone => old[i].at = "ok"
  <2> DEFINE ended == [jobs EXCEPT ![j].at = Lab!Status(j)]
             stays == (i = j \/ ~Lab!IsRunning(i))
  <2>1. jobs[i] \in JobType /\ JobAlone(i)
    BY JobIsTyped, <1>1 DEF JobsInv
  <2>2. DOMAIN jobs = Lab!Jobs
    BY <1>1 DEF JobsInv, Lab!Jobs
  <2>3. old[i] = [ended[i] EXCEPT !.lone = ended[i].lone /\ stays]
    BY DEF NextBegins
  <2>4. CASE i = j
    <3>1. ended[i] = [jobs[i] EXCEPT !.at = Lab!Status(j)]
      BY <2>2, <2>4
    <3> HIDE DEF ended
    <3>2. /\ ended[i] \in JobType /\ ended[i].lone = jobs[i].lone /\ ended[i].at = Lab!Status(j)
          /\ ended[i].kind = jobs[i].kind /\ ended[i].run = jobs[i].run
          /\ ended[i].accepted = jobs[i].accepted /\ ended[i].flushed = jobs[i].flushed
      BY <1>4, <2>1, <3>1 DEF JobType
    <3>3. (ended[i].lone /\ stays) = ended[i].lone
      BY <2>4, <3>2 DEF JobType
    <3>4. old[i] = ended[i]
      BY <2>3, <3>2, <3>3 DEF JobType
    <3> QED BY <1>4, <2>4, <3>2, <3>4
  <2>5. CASE i # j
    <3>1. ended[i] = jobs[i]
      BY <2>2, <2>5
    <3> HIDE DEF ended
    <3>2. CASE Lab!IsRunning(i)
      <4>1. (jobs[i].lone /\ stays) = FALSE
        BY <2>5, <3>2
      <4>2. old[i] = [jobs[i] EXCEPT !.lone = FALSE]
        BY <2>3, <3>1, <4>1
      <4> QED BY <2>1, <2>5, <4>2 DEF JobType
    <3>3. CASE ~Lab!IsRunning(i)
      <4>1. (jobs[i].lone /\ stays) = jobs[i].lone
        BY <2>1, <3>3 DEF JobType
      <4>2. old[i] = jobs[i]
        BY <2>1, <2>3, <3>1, <4>1 DEF JobType
      <4>3. jobs[i].at \in Ended
        BY <2>1, <3>3 DEF Lab!IsRunning, Ended, JobType, JobSteps
      <4> QED BY <2>1, <2>5, <4>2, <4>3 DEF JobAlone, Ended
    <3> QED BY <3>2, <3>3
  <2> QED BY <2>4, <2>5
<1>6. old \in Seq(JobType) /\ Len(old) = Len(jobs)
  <2>1. Len(jobs) \in Nat /\ old = [i \in 1..Len(jobs) |-> old[i]]
    BY <1>1 DEF JobsInv, Lab!Jobs, NextBegins
  <2>2. \A i \in 1..Len(jobs) : old[i] \in JobType
    BY <1>5 DEF Lab!Jobs
  <2> QED BY <2>1, <2>2, ASequence
<1>7. /\ new \in JobType /\ new.kind = next /\ new.run = run /\ new.at = Lab!FirstStep(next)
      /\ new.accepted = 0 /\ new.flushed = 0
      /\ new.lone => \A i \in Lab!Jobs \ {j} : ~Lab!IsRunning(i)
  <2> DEFINE alone == \A i \in Lab!Jobs \ {j} : ~Lab!IsRunning(i)
  <2>1. new = [kind |-> next, run |-> run, at |-> Lab!FirstStep(next), accepted |-> 0,
               flushed |-> 0, lone |-> alone]
    BY DEF next, NextBegins
  <2>2. Lab!FirstStep(next) \in JobSteps
    BY <1>3, FirstSteps DEF JobSteps
  <2>3. alone \in BOOLEAN
    OBVIOUS
  <2> HIDE DEF alone
  <2>4. new \in JobType
    BY <1>1, <1>3, <2>1, <2>2, <2>3 DEF JobType
  <2>5. new.lone = alone
    BY <2>1
  <2>6. new.lone => \A i \in Lab!Jobs \ {j} : ~Lab!IsRunning(i)
    BY <2>5 DEF alone
  <2> QED BY <2>1, <2>4, <2>6
<1>8. new.lone => \A i \in Lab!Jobs : old[i].at \in Ended
  <2> SUFFICES ASSUME new.lone, NEW i \in Lab!Jobs PROVE old[i].at \in Ended
    OBVIOUS
  <2>1. jobs[i] \in JobType
    BY JobIsTyped, <1>1
  <2> QED BY <1>4, <1>5, <1>7, <2>1 DEF Lab!IsRunning, Ended, JobType, JobSteps
<1>9. JobsInv'
  <2>1. /\ records' = Lab!ClearedFor(next) /\ records \in [Lab!Kinds -> Nat]
    BY <1>1 DEF next, JobsInv, NextBegins
  <2>2. /\ records' \in [Lab!Kinds -> Nat] /\ (new.at # "request" => records'[new.kind] = 0)
        /\ new.at \in {"request", "init"}
        /\ new.at = "request" => new.kind \in Lab!Requests \cup {"diagnostics"}
    BY <1>3, <1>7, <2>1, FirstSteps, NoneRecorded
  <2>3. \A i \in Lab!Jobs :
           /\ old[i].kind = jobs[i].kind /\ old[i].run = jobs[i].run
           /\ old[i].accepted = jobs[i].accepted /\ old[i].flushed = jobs[i].flushed
           /\ old[i].at = jobs[i].at \/ (jobs[i].at = "check" /\ old[i].at \in Ended)
           /\ old[i].lone => old[i].at = "ok"
    BY <1>4, <1>5
  <2>4. run' \in Nat /\ run <= run'
    BY <1>1
  <2> QED BY <1>1, <1>3, <1>6, <1>7, <1>8, <2>2, <2>3, <2>4, JobBegins
<1>10. RowsInv'
  <2>1. /\ rows' \in Seq([run : 1..run', kind : CaseKinds]) /\ rows' # <<>>
        /\ rows'[Len(rows')] = [run |-> run, kind |-> jobs[j].kind]
        /\ Lab!RowsInOrder'
    BY <1>1, <1>2, RowAdded
  <2>2. /\ Len(jobs) \in Nat /\ Lab!Jobs' = Lab!Jobs \cup {Len(jobs) + 1}
        /\ jobs'[Len(jobs) + 1] = new
        /\ \A i \in Lab!Jobs : jobs'[i] = old[i]
    <3>1. Len(jobs) \in Nat /\ jobs' \in Seq(JobType)
      BY <1>1, <1>6, <1>7 DEF JobsInv
    <3>2. /\ Len(jobs') = Len(jobs) + 1 /\ jobs'[Len(jobs) + 1] = new
          /\ \A i \in 1..Len(jobs) : jobs'[i] = old[i]
      BY <1>6, <3>1
    <3> QED BY <3>1, <3>2 DEF Lab!Jobs
  <2>3. \A i \in Lab!Jobs' : jobs'[i].run = run' /\ run' # 0 /\ jobs'[i].at \notin Ended
          => i = Len(jobs) + 1
    <3>1. \A i \in Lab!Jobs : jobs[i].run = run /\ jobs[i].at \notin Ended => i = j
      BY <1>1 DEF RowsInv
    <3>2. \A i \in Lab!Jobs : jobs'[i].run = run /\ jobs'[i].at \notin Ended => i = j
      <4> SUFFICES ASSUME NEW i \in Lab!Jobs, i # j
                   PROVE  ~(jobs'[i].run = run /\ jobs'[i].at \notin Ended)
        OBVIOUS
      <4>1. jobs'[i].run = jobs[i].run /\ jobs'[i].at = jobs[i].at
        BY <1>5, <2>2
      <4> QED BY <3>1, <4>1
    <3>3. jobs'[j].at \in Ended
      BY <1>4, <1>5, <2>2
    <3> QED BY <2>2, <3>2, <3>3
  <2>4. /\ rows'[Len(rows')].run = run' /\ rows'[Len(rows')].kind = jobs[j].kind
    BY <2>1
  <2>5. \A i \in Lab!Jobs' : jobs'[i].run = run' /\ run' # 0 /\ jobs'[i].at \notin Ended
          => Lab!Place(jobs'[i].kind) = Lab!Place(rows'[Len(rows')].kind) + 1
    BY <1>3, <1>7, <2>2, <2>3, <2>4
  <2>6. run' \in Nat /\ mounted' \in BOOLEAN
    BY <1>1
  <2> QED BY <2>1, <2>3, <2>4, <2>5, <2>6 DEF RowsInv, Lab!Place
<1> QED BY <1>9, <1>10 DEF LabInv


LEMMA CheckCaseStep == ASSUME LabInv, NEW j \in Lab!Jobs, Lab!CheckCase(j) PROVE LabInv'
<1> DEFINE r == jobs[j].run
           k == jobs[j].kind
           ended == [jobs EXCEPT ![j].at = Lab!Status(j)]
           next == Cases[Lab!Place(k) + 1]
           old == [i \in Lab!Jobs |-> [ended[i] EXCEPT !.lone = @ /\ (i = j \/ ~Lab!IsRunning(i))]]
           new == [kind |-> next, run |-> r, at |-> Lab!FirstStep(next), accepted |-> 0,
                   flushed |-> 0, lone |-> \A i \in Lab!Jobs \ {j} : ~Lab!IsRunning(i)]
<1>1. jobs[j].at = "check" /\ r # 0 /\ UNCHANGED <<run, mounted>>
  BY DEF Lab!CheckCase, Lab!AtStep
<1>2. CASE Lab!Moves(j, Lab!Status(j)) /\ UNCHANGED <<records, rows>>
  BY <1>1, <1>2, JobEnds
<1>3. CASE /\ Lab!IsLive(r) /\ Lab!Moves(j, Lab!Status(j)) /\ UNCHANGED records
           /\ rows' = Append(rows, [run |-> r, kind |-> k])
  <2>1. mounted = TRUE /\ jobs[j].run = run /\ run # 0
    BY <1>1, <1>3 DEF LabInv, RowsInv, Lab!IsLive
  <2> QED BY <1>1, <1>3, <2>1, LastCaseStep
<1>4. CASE /\ Lab!IsLive(r) /\ Lab!Place(k) < Len(Cases)
           /\ jobs' = Append(old, new) /\ records' = Lab!ClearedFor(next)
           /\ rows' = Append(rows, [run |-> r, kind |-> k])
  <2>1. mounted = TRUE /\ jobs[j].run = run /\ run # 0
    BY <1>1, <1>4 DEF LabInv, RowsInv, Lab!IsLive
  <2>2. NextBegins(j, old, new)
    BY <1>4, <2>1 DEF NextBegins
  <2> HIDE DEF old, new, next, ended
  <2> QED BY <1>1, <1>4, <2>1, <2>2, NextCaseStep
<1>5. \/ Lab!Moves(j, Lab!Status(j)) /\ UNCHANGED <<records, rows>>
      \/ /\ Lab!IsLive(r) /\ Lab!Moves(j, Lab!Status(j)) /\ UNCHANGED records
         /\ rows' = Append(rows, [run |-> r, kind |-> k])
      \/ /\ Lab!IsLive(r) /\ Lab!Place(k) < Len(Cases)
         /\ jobs' = Append(old, new) /\ records' = Lab!ClearedFor(next)
         /\ rows' = Append(rows, [run |-> r, kind |-> k])
  BY DEF Lab!CheckCase
<1> QED BY <1>2, <1>3, <1>4, <1>5

\* However presses, cases, flushes and mounts of the page overlap: a job that runs
\* alone succeeds, no status is owed to another job's events, and the rows of a
\* run are its cases in their order; and the fixture the replays talk to answers
\* each request once and is quiet when it is off.
THEOREM StatusesAreEarned == Spec => []ExampleHolds
<1>1. Lab!Init => LabInv
  <2> SUFFICES ASSUME Lab!Init PROVE LabInv
    OBVIOUS
  <2>1. jobs = <<>> /\ rows = <<>> /\ run = 0 /\ mounted = FALSE /\ records = Lab!NoRecords
    BY DEF Lab!Init
  <2>2. Lab!Jobs = {} /\ jobs \in Seq(JobType) /\ rows \in Seq([run : 1..run, kind : CaseKinds])
    BY <2>1 DEF Lab!Jobs
  <2>3. JobsInv
    BY <2>1, <2>2, NoneRecorded DEF JobsInv
  <2>4. Lab!RowsInOrder
    BY <2>1 DEF Lab!RowsInOrder
  <2> QED BY <2>1, <2>2, <2>3, <2>4 DEF LabInv, RowsInv
<1>2. LabInv /\ [Lab!Next]_Lab!vars => LabInv'
  <2> SUFFICES ASSUME LabInv, [Lab!Next]_Lab!vars PROVE LabInv'
    OBVIOUS
  <2>1. CASE UNCHANGED Lab!vars
    <3>1. UNCHANGED <<jobs, records, rows, run, mounted>>
      BY <2>1 DEF Lab!vars
    <3>2. JobsInv'
      BY <3>1 DEF LabInv, JobsInv, JobTracks, JobIsOf, JobAlone, Lab!Jobs
    <3>3. RowsInv'
      BY <3>1, RowsKeep DEF LabInv, RowsInv
    <3> QED BY <3>2, <3>3 DEF LabInv
  <2>2. ASSUME NEW j \in Lab!Jobs,
               Lab!Answer(j) \/ Lab!Inited(j) \/ Lab!Flush(j) \/ Lab!CheckPress(j) \/ Lab!CheckCase(j)
        PROVE  LabInv'
    BY <2>2, AnswerStep, InitedStep, FlushStep, CheckPressStep, CheckCaseStep
  <2>3. CASE \E b \in Buttons : Lab!Press(b)
    BY <2>3, PressStep
  <2> QED BY <2>1, <2>2, <2>3, OpenStep, LeaveStep, ScheduledFlushStep DEF Lab!Next
<1>3. LabInv => Lab!LoneSucceeds /\ Lab!OkIsDelivered /\ Lab!RowsInOrder
  BY DEF LabInv, JobsInv, RowsInv, JobAlone, JobTracks, Ended, Lab!LoneSucceeds, Lab!OkIsDelivered
<1>4. Lab!LoneSucceeds /\ Lab!OkIsDelivered /\ Lab!RowsInOrder
        /\ (Fixture!AnsweredOnce /\ Fixture!OffIsQuiet) => ExampleHolds
  BY DEF ExampleHolds
<1> QED BY <1>1, <1>2, <1>3, <1>4, EachPartRuns, FixtureIsSafe, PTL DEF Lab!Spec


-----------------------------------------------------------------------------
(* BrowserStorage                                                           *)

Covering(k) == {ns \in Browser!Namespaces : k \in Browser!Covers(ns)}

\* A reset in rr hides the key, that has its revision in kr.
Hides(rr, kr, k) == \E ns \in Covering(k) : rr[ns] # 0 /\ kr[k] <= rr[ns]

\* The latest of the resets that cover a key decides.
LEMMA LatestResetHides ==
  ASSUME NEW rr \in [Browser!Namespaces -> Nat], NEW kr \in [StorageKeys -> Nat],
         NEW k \in StorageKeys
  PROVE  LET r == Browser!Max({rr[ns] : ns \in {n \in Browser!Namespaces : k \in Browser!Covers(n)}})
         IN  /\ r \in Nat /\ \A ns \in Covering(k) : rr[ns] <= r
             /\ (r # 0 /\ kr[k] <= r) <=> Hides(rr, kr, k)
<1> DEFINE R == {rr[ns] : ns \in Covering(k)}
           r == Browser!Max(R)
<1>1. "outer" \in Covering(k) /\ Covering(k) \subseteq Browser!Namespaces
      /\ Browser!Namespaces = {"outer", "inner"}
  BY DEF Covering, Browser!Namespaces, Browser!Covers
<1>2. \E x \in R : \A y \in R : x >= y
  <2>1. rr["outer"] \in R /\ rr["outer"] \in Nat /\ rr["inner"] \in Nat
    BY <1>1
  <2>2. \A y \in R : y = rr["outer"] \/ (y = rr["inner"] /\ rr["inner"] \in R)
    BY <1>1
  <2>3. CASE rr["inner"] \in R /\ rr["inner"] >= rr["outer"]
    <3>1. \A y \in R : rr["inner"] >= y
      BY <2>1, <2>2, <2>3
    <3> QED BY <2>3, <3>1
  <2>4. CASE ~ (rr["inner"] \in R /\ rr["inner"] >= rr["outer"])
    <3>1. \A y \in R : rr["outer"] >= y
      BY <2>1, <2>2, <2>4
    <3> QED BY <2>1, <3>1
  <2> QED BY <2>3, <2>4
<1>3. r \in R /\ \A y \in R : r >= y
  <2> HIDE DEF R
  <2> QED BY <1>2 DEF Browser!Max
<1> HIDE DEF r
<1>4. r \in Nat /\ (\A ns \in Covering(k) : rr[ns] <= r /\ rr[ns] \in Nat)
      /\ \E ns \in Covering(k) : rr[ns] = r
  BY <1>1, <1>3
<1>5. (r # 0 /\ kr[k] <= r) <=> Hides(rr, kr, k)
  BY <1>4 DEF Hides
<1> QED BY <1>4, <1>5 DEF r, R, Covering

BrowserTypes ==
  /\ stored \in [StorageKeys -> Values \cup {None}]
  /\ expected \in [StorageKeys -> Values \cup {None}]
  /\ lastKnownValues \in [StorageKeys -> Values \cup {None}]
  /\ overrides \in [StorageKeys -> Values \cup {None, Deleted}]
  /\ keyRevisions \in [StorageKeys -> Nat] /\ resetRevisions \in [Browser!Namespaces -> Nat]
  /\ revision \in Nat /\ touched \subseteq StorageKeys /\ reloads \in Nat
  /\ \A k \in StorageKeys : keyRevisions[k] <= revision
  /\ \A ns \in Browser!Namespaces : resetRevisions[ns] <= revision

\* A key the page has not touched is as it was loaded; of any other the page
\* knows what it left, hidden keys read as nothing, and what neither a reset
\* hides nor an override replaces is in localStorage.
KeyInv(k) ==
  /\ k \notin touched => /\ overrides[k] = None /\ lastKnownValues[k] = None
                         /\ keyRevisions[k] = 0
                         /\ \A ns \in Covering(k) : resetRevisions[ns] = 0
  /\ k \in touched => lastKnownValues[k] = expected[k]
  /\ Hides(resetRevisions, keyRevisions, k) => expected[k] = None
  /\ ~Hides(resetRevisions, keyRevisions, k) =>
       /\ overrides[k] = None => stored[k] = expected[k]
       /\ overrides[k] # None => expected[k] = IF overrides[k] = Deleted THEN None ELSE overrides[k]

BrowserInv == BrowserTypes /\ \A k \in StorageKeys : KeyInv(k)

LEMMA BrowserConstants == Inner \subseteq StorageKeys /\ None # Deleted /\ None \notin Values
                          /\ Deleted \notin Values
  BY PartsAssumption DEF Browser!BrowserStorageAssumption

\* What hides in a state, said of its variables.
LEMMA HiddenIs ==
  ASSUME BrowserTypes, NEW k \in StorageKeys
  PROVE  /\ Browser!isHiddenByReset(k) <=> Hides(resetRevisions, keyRevisions, k)
         /\ Browser!resetRevisionForKey(k) \in Nat
         /\ \A ns \in Covering(k) : resetRevisions[ns] <= Browser!resetRevisionForKey(k)
  BY LatestResetHides DEF BrowserTypes, Browser!isHiddenByReset, Browser!resetRevisionForKey

LEMMA BrowserInvSuffices ==
  ASSUME BrowserInv PROVE Browser!ReadsLatest /\ Browser!DurableUnlessOverridden
<1>1. ASSUME NEW k \in StorageKeys, NEW access \in Browser!Access
      PROVE  Browser!get(k, access) \in IF k \in touched THEN {expected[k]} ELSE {stored[k], None}
  <2>1. KeyInv(k) /\ (Browser!isHiddenByReset(k) <=> Hides(resetRevisions, keyRevisions, k))
    BY HiddenIs DEF BrowserInv
  <2>2. CASE Hides(resetRevisions, keyRevisions, k)
    <3>1. Browser!get(k, access) = None
      BY <2>1, <2>2 DEF Browser!get
    <3> QED BY <2>1, <2>2, <3>1 DEF KeyInv
  <2>3. CASE ~Hides(resetRevisions, keyRevisions, k)
    <3>1. CASE overrides[k] # None
      <4>1. Browser!get(k, access) = Browser!Kept(k) /\ k \in touched
        BY <2>1, <2>3, <3>1 DEF Browser!get, KeyInv
      <4> QED BY <2>1, <2>3, <3>1, <4>1 DEF KeyInv, Browser!Kept
    <3>2. CASE overrides[k] = None
      <4>1. Browser!get(k, access) = IF access = "works" THEN stored[k] ELSE lastKnownValues[k]
        BY <2>1, <2>3, <3>2 DEF Browser!get
      <4> QED BY <2>1, <2>3, <3>2, <4>1 DEF KeyInv
    <3> QED BY <3>1, <3>2
  <2> QED BY <2>2, <2>3
<1>2. ASSUME NEW k \in StorageKeys, overrides[k] = None, ~Browser!isHiddenByReset(k)
      PROVE  stored[k] = expected[k]
  BY <1>2, HiddenIs DEF BrowserInv, KeyInv
<1> QED BY <1>1, <1>2 DEF Browser!ReadsLatest, Browser!DurableUnlessOverridden

\* A key that is written or removed is newer than the resets over it.
LEMMA WriteKeepsBrowser ==
  ASSUME BrowserInv, NEW k \in StorageKeys, NEW v \in Values \cup {None},
         NEW access \in Browser!Access, Browser!Write(k, v, access)
  PROVE  BrowserInv'
<1>1. BrowserTypes /\ None # Deleted /\ None \notin Values /\ Deleted \notin Values
  BY BrowserConstants DEF BrowserInv
<1>2. /\ lastKnownValues' = [lastKnownValues EXCEPT ![k] = v]
      /\ overrides' = [overrides EXCEPT ![k] = IF access = "works" THEN None
                                               ELSE IF v = None THEN Deleted ELSE v]
      /\ stored' = IF access = "works" THEN [stored EXCEPT ![k] = v] ELSE stored
      /\ expected' = [expected EXCEPT ![k] = v] /\ touched' = touched \cup {k}
      /\ resetRevisions' = resetRevisions /\ reloads' = reloads
  BY DEF Browser!Write, Browser!OverrideAfter
<1>3. \/ /\ \A ns \in Covering(k) : resetRevisions[ns] = 0
         /\ keyRevisions' = [keyRevisions EXCEPT ![k] = 0] /\ revision' = revision
      \/ revision' = revision + 1 /\ keyRevisions' = [keyRevisions EXCEPT ![k] = revision + 1]
         /\ \A ns \in Covering(k) : resetRevisions[ns] <= revision
  <2>1. Browser!recordKeyRevision(k)
    BY DEF Browser!Write
  <2>2. \A ns \in Covering(k) : resetRevisions[ns] \in Nat
                                /\ resetRevisions[ns] <= Browser!resetRevisionForKey(k)
    BY <1>1, HiddenIs DEF BrowserTypes, Covering
  <2>3. CASE Browser!resetRevisionForKey(k) = 0
    BY <2>1, <2>2, <2>3 DEF Browser!recordKeyRevision
  <2>4. CASE Browser!resetRevisionForKey(k) # 0
    BY <1>1, <2>1, <2>4 DEF Browser!recordKeyRevision, BrowserTypes, Covering
  <2> QED BY <2>3, <2>4
<1>4. BrowserTypes'
  <2>1. stored' \in [StorageKeys -> Values \cup {None}]
    BY <1>1, <1>2 DEF BrowserTypes
  <2>2. overrides' \in [StorageKeys -> Values \cup {None, Deleted}]
    <3>1. (IF access = "works" THEN None ELSE IF v = None THEN Deleted ELSE v) \in Values \cup {None, Deleted}
      OBVIOUS
    <3> QED BY <1>1, <1>2, <3>1 DEF BrowserTypes
  <2>3. keyRevisions' \in [StorageKeys -> Nat] /\ revision' \in Nat
        /\ \A c \in StorageKeys : keyRevisions'[c] <= revision'
    BY <1>1, <1>3 DEF BrowserTypes
  <2>4. \A ns \in Browser!Namespaces : resetRevisions'[ns] <= revision'
    BY <1>1, <1>2, <1>3 DEF BrowserTypes
  <2> QED BY <1>1, <1>2, <2>1, <2>2, <2>3, <2>4 DEF BrowserTypes
<1>5. KeyInv(k)'
  <2>1. \A ns \in Covering(k) : resetRevisions'[ns] = 0 \/ ~ (keyRevisions'[k] <= resetRevisions'[ns])
    <3> SUFFICES ASSUME NEW ns \in Covering(k)
                 PROVE  resetRevisions'[ns] = 0 \/ ~ (keyRevisions'[k] <= resetRevisions'[ns])
      OBVIOUS
    <3>1. ns \in Browser!Namespaces /\ resetRevisions[ns] \in Nat /\ revision \in Nat
      BY <1>1 DEF BrowserTypes, Covering
    <3>2. CASE resetRevisions[ns] = 0
      BY <1>2, <3>2
    <3>3. CASE resetRevisions[ns] # 0
      <4>1. keyRevisions'[k] = revision + 1 /\ resetRevisions[ns] <= revision
        BY <1>1, <1>3, <3>3 DEF BrowserTypes
      <4> QED BY <1>2, <3>1, <4>1
    <3> QED BY <3>2, <3>3
  <2>2. ~Hides(resetRevisions', keyRevisions', k)
    BY <2>1 DEF Hides
  <2>3. /\ k \in touched' /\ lastKnownValues'[k] = v /\ expected'[k] = v
        /\ overrides'[k] = IF access = "works" THEN None ELSE IF v = None THEN Deleted ELSE v
        /\ access = "works" => stored'[k] = v
    BY <1>1, <1>2 DEF BrowserTypes
  <2> QED BY <1>1, <2>2, <2>3 DEF KeyInv
<1>6. ASSUME NEW c \in StorageKeys, c # k PROVE KeyInv(c)'
  <2>1. /\ lastKnownValues'[c] = lastKnownValues[c] /\ expected'[c] = expected[c]
        /\ overrides'[c] = overrides[c] /\ stored'[c] = stored[c]
        /\ keyRevisions'[c] = keyRevisions[c] /\ (c \in touched' <=> c \in touched)
    BY <1>1, <1>2, <1>3, <1>6 DEF BrowserTypes
  <2>2. Hides(resetRevisions', keyRevisions', c) <=> Hides(resetRevisions, keyRevisions, c)
    BY <1>2, <2>1 DEF Hides
  <2> QED BY <1>2, <2>1, <2>2 DEF BrowserInv, KeyInv
<1> QED BY <1>4, <1>5, <1>6 DEF BrowserInv

\* A reset that cannot remove what it covers hides it.
LEMMA HidingKeepsBrowser ==
  ASSUME BrowserInv, NEW ns \in Browser!Namespaces, Browser!ForgetIn(ns),
         resetRevisions' = Browser!Hides(ns),
         stored' \in [StorageKeys -> Values \cup {None}],
         overrides' \in [StorageKeys -> Values \cup {None, Deleted}],
         keyRevisions' \in [StorageKeys -> Nat],
         \A k \in StorageKeys : keyRevisions'[k] <= keyRevisions[k],
         \A k \in StorageKeys \ Browser!Covers(ns) :
           stored'[k] = stored[k] /\ overrides'[k] = overrides[k] /\ keyRevisions'[k] = keyRevisions[k]
  PROVE  BrowserInv'
<1>1. BrowserTypes
  BY DEF BrowserInv
<1>2. /\ revision' = revision + 1 /\ resetRevisions' = [resetRevisions EXCEPT ![ns] = revision + 1]
      /\ touched' = touched \cup Browser!Covers(ns) /\ reloads' = reloads
      /\ lastKnownValues' = [k \in StorageKeys |-> IF k \in Browser!Covers(ns) THEN None
                                                   ELSE lastKnownValues[k]]
      /\ expected' = [k \in StorageKeys |-> IF k \in Browser!Covers(ns) THEN None ELSE expected[k]]
  BY DEF Browser!ForgetIn, Browser!Hides
<1>3. Browser!Covers(ns) \subseteq StorageKeys
  BY BrowserConstants DEF Browser!Covers
<1>4. BrowserTypes'
  <2>1. lastKnownValues' \in [StorageKeys -> Values \cup {None}]
        /\ expected' \in [StorageKeys -> Values \cup {None}]
    BY <1>1, <1>2 DEF BrowserTypes
  <2>2. \A k \in StorageKeys : keyRevisions'[k] <= revision'
    BY <1>1, <1>2 DEF BrowserTypes
  <2>3. revision' \in Nat /\ resetRevisions' \in [Browser!Namespaces -> Nat]
        /\ \A n \in Browser!Namespaces : resetRevisions'[n] <= revision'
    BY <1>1, <1>2 DEF BrowserTypes
  <2>4. touched' \subseteq StorageKeys
    BY <1>1, <1>2, <1>3 DEF BrowserTypes
  <2> QED BY <1>1, <1>2, <2>1, <2>2, <2>3, <2>4 DEF BrowserTypes
<1>5. ASSUME NEW k \in StorageKeys, k \in Browser!Covers(ns) PROVE KeyInv(k)'
  <2>1. k \in touched' /\ lastKnownValues'[k] = None /\ expected'[k] = None
    BY <1>2, <1>5
  <2>2. resetRevisions'[ns] = revision + 1 /\ revision \in Nat /\ ns \in Covering(k)
        /\ keyRevisions'[k] <= revision
    BY <1>1, <1>2, <1>5 DEF BrowserTypes, Covering
  <2>3. Hides(resetRevisions', keyRevisions', k)
    <3>1. resetRevisions'[ns] # 0 /\ keyRevisions'[k] <= resetRevisions'[ns]
      BY <1>4, <2>2 DEF BrowserTypes
    <3> QED BY <2>2, <3>1 DEF Hides
  <2> QED BY <2>1, <2>3 DEF KeyInv
<1>6. ASSUME NEW k \in StorageKeys, k \notin Browser!Covers(ns) PROVE KeyInv(k)'
  <2>1. /\ lastKnownValues'[k] = lastKnownValues[k] /\ expected'[k] = expected[k]
        /\ overrides'[k] = overrides[k] /\ stored'[k] = stored[k]
        /\ keyRevisions'[k] = keyRevisions[k] /\ (k \in touched' <=> k \in touched)
    BY <1>2, <1>6
  <2>2. \A n \in Covering(k) : resetRevisions'[n] = resetRevisions[n]
    BY <1>1, <1>2, <1>6 DEF Covering, BrowserTypes
  <2>3. Hides(resetRevisions', keyRevisions', k) <=> Hides(resetRevisions, keyRevisions, k)
    BY <2>1, <2>2 DEF Hides
  <2> QED BY <2>1, <2>2, <2>3 DEF BrowserInv, KeyInv
<1> QED BY <1>4, <1>5, <1>6 DEF BrowserInv

\* A reset over the keys it knows removes or hides them all.
LEMMA ResetKeepsBrowser ==
  ASSUME BrowserInv, NEW ns \in Browser!Namespaces, NEW failing \in SUBSET Browser!Known(ns),
         Browser!reset(ns, failing)
  PROVE  BrowserInv'
<1> DEFINE removed == Browser!Known(ns) \ failing
<1>1. BrowserTypes /\ Browser!Covers(ns) \subseteq StorageKeys
      /\ Browser!Known(ns) \subseteq Browser!Covers(ns)
  BY BrowserConstants DEF BrowserInv, Browser!Covers, Browser!Known
<1>2. /\ Browser!ForgetIn(ns)
      /\ stored' = [k \in StorageKeys |-> IF k \in removed THEN None ELSE stored[k]]
      /\ overrides' = [k \in StorageKeys |-> IF k \in removed THEN None
                                             ELSE IF k \in failing THEN Deleted ELSE overrides[k]]
      /\ keyRevisions' = [k \in StorageKeys |-> IF k \in removed THEN 0 ELSE keyRevisions[k]]
      /\ failing # {} => resetRevisions' = Browser!Hides(ns)
      /\ failing = {} => resetRevisions' = [n \in Browser!Namespaces |->
                            IF n \in Browser!Within(ns) THEN 0 ELSE resetRevisions[n]]
  BY DEF Browser!reset, Browser!EndsHiding
<1>3. /\ stored' \in [StorageKeys -> Values \cup {None}]
      /\ overrides' \in [StorageKeys -> Values \cup {None, Deleted}]
      /\ keyRevisions' \in [StorageKeys -> Nat]
      /\ \A k \in StorageKeys : keyRevisions'[k] <= keyRevisions[k]
  BY <1>1, <1>2 DEF BrowserTypes
<1>4. \A k \in StorageKeys \ Browser!Covers(ns) :
        stored'[k] = stored[k] /\ overrides'[k] = overrides[k] /\ keyRevisions'[k] = keyRevisions[k]
  BY <1>1, <1>2
<1>5. CASE failing # {}
  BY <1>2, <1>3, <1>4, <1>5, HidingKeepsBrowser
<1>6. CASE failing = {}
  <2>1. /\ revision' = revision + 1 /\ touched' = touched \cup Browser!Covers(ns)
        /\ reloads' = reloads
        /\ lastKnownValues' = [k \in StorageKeys |-> IF k \in Browser!Covers(ns) THEN None
                                                     ELSE lastKnownValues[k]]
        /\ expected' = [k \in StorageKeys |-> IF k \in Browser!Covers(ns) THEN None ELSE expected[k]]
    BY <1>2 DEF Browser!ForgetIn
  <2>2. resetRevisions' = [n \in Browser!Namespaces |->
                            IF n \in Browser!Within(ns) THEN 0 ELSE resetRevisions[n]]
    BY <1>2, <1>6
  <2>3. BrowserTypes'
    <3>1. lastKnownValues' \in [StorageKeys -> Values \cup {None}]
          /\ expected' \in [StorageKeys -> Values \cup {None}]
      BY <1>1, <2>1 DEF BrowserTypes
    <3>2. \A k \in StorageKeys : keyRevisions'[k] <= revision'
      BY <1>1, <1>3, <2>1 DEF BrowserTypes
    <3>3. revision' \in Nat /\ resetRevisions' \in [Browser!Namespaces -> Nat]
          /\ \A n \in Browser!Namespaces : resetRevisions'[n] <= revision'
      BY <1>1, <2>1, <2>2 DEF BrowserTypes
    <3>4. touched' \subseteq StorageKeys
      BY <1>1, <2>1 DEF BrowserTypes
    <3> QED BY <1>1, <1>3, <2>1, <3>1, <3>2, <3>3, <3>4 DEF BrowserTypes
  <2>4. ASSUME NEW k \in StorageKeys, k \in Browser!Covers(ns) PROVE KeyInv(k)'
    <3>1. k \in touched' /\ lastKnownValues'[k] = None /\ expected'[k] = None
      BY <2>1, <2>4
    <3>2. stored'[k] = None /\ overrides'[k] = None
      BY <1>2, <1>6, <2>4 DEF Browser!Known
    <3> QED BY <3>1, <3>2 DEF KeyInv
  <2>5. ASSUME NEW k \in StorageKeys, k \notin Browser!Covers(ns) PROVE KeyInv(k)'
    <3>1. /\ lastKnownValues'[k] = lastKnownValues[k] /\ expected'[k] = expected[k]
          /\ overrides'[k] = overrides[k] /\ stored'[k] = stored[k]
          /\ keyRevisions'[k] = keyRevisions[k] /\ (k \in touched' <=> k \in touched)
      BY <1>4, <2>1, <2>5
    <3>2. \A n \in Covering(k) : resetRevisions'[n] = resetRevisions[n]
      BY <2>2, <2>5 DEF Covering, Browser!Within
    <3>3. Hides(resetRevisions', keyRevisions', k) <=> Hides(resetRevisions, keyRevisions, k)
      BY <3>1, <3>2 DEF Hides
    <3> QED BY <3>1, <3>2, <3>3 DEF BrowserInv, KeyInv
  <2> QED BY <2>3, <2>4, <2>5 DEF BrowserInv
<1> QED BY <1>5, <1>6


LEMMA ResetsKeepBrowser ==
  ASSUME BrowserInv, NEW ns \in Browser!Namespaces,
         Browser!resetBlind(ns) \/ \E failing \in SUBSET Browser!Known(ns) : Browser!reset(ns, failing)
  PROVE  BrowserInv'
<1>1. CASE Browser!resetBlind(ns)
  <2>1. /\ Browser!ForgetIn(ns) /\ resetRevisions' = Browser!Hides(ns)
        /\ overrides' = [k \in StorageKeys |-> IF k \in Browser!Covers(ns) /\ overrides[k] # None
                                               THEN Deleted ELSE overrides[k]]
        /\ stored' = stored /\ keyRevisions' = keyRevisions
    BY <1>1 DEF Browser!resetBlind
  <2>2. /\ stored' \in [StorageKeys -> Values \cup {None}]
        /\ overrides' \in [StorageKeys -> Values \cup {None, Deleted}]
        /\ keyRevisions' \in [StorageKeys -> Nat]
        /\ \A k \in StorageKeys : keyRevisions'[k] <= keyRevisions[k]
    BY <2>1 DEF BrowserInv, BrowserTypes
  <2>3. \A k \in StorageKeys \ Browser!Covers(ns) : overrides'[k] = overrides[k]
    BY <2>1
  <2> QED BY <2>1, <2>2, <2>3, HidingKeepsBrowser
<1> QED BY <1>1, ResetKeepsBrowser

LEMMA ReloadKeepsBrowser == ASSUME BrowserInv, Browser!Reload PROVE BrowserInv'
<1>1. /\ overrides' = [k \in StorageKeys |-> None] /\ lastKnownValues' = [k \in StorageKeys |-> None]
      /\ keyRevisions' = [k \in StorageKeys |-> 0]
      /\ resetRevisions' = [ns \in Browser!Namespaces |-> 0]
      /\ revision' = 0 /\ expected' = stored /\ touched' = {} /\ stored' = stored
      /\ reloads' = reloads + 1
  BY DEF Browser!Reload
<1>2. BrowserTypes'
  BY <1>1 DEF BrowserInv, BrowserTypes
<1>3. ASSUME NEW k \in StorageKeys PROVE KeyInv(k)'
  <2>1. \A ns \in Covering(k) : resetRevisions'[ns] = 0
    BY <1>1 DEF Covering
  <2> QED BY <1>1, <2>1 DEF KeyInv, Hides
<1> QED BY <1>2, <1>3 DEF BrowserInv

\* A reset that ends the hiding of a namespace has removed all that is in it.
LEMMA ResetsAreClean ==
  ASSUME BrowserInv, Browser!Next, NEW n \in Browser!Namespaces,
         resetRevisions'[n] = 0, resetRevisions[n] # 0, reloads' = reloads,
         NEW k \in Browser!Covers(n)
  PROVE  overrides'[k] = None /\ keyRevisions'[k] = 0 /\ stored'[k] = None
<1>1. BrowserTypes /\ k \in StorageKeys /\ reloads \in Nat
  BY BrowserConstants DEF BrowserInv, BrowserTypes, Browser!Covers
<1>2. ~Browser!Reload
  BY <1>1 DEF Browser!Reload
<1>3. ASSUME NEW c \in StorageKeys, NEW v, NEW access \in Browser!Access, Browser!Write(c, v, access)
      PROVE  FALSE
  BY <1>3 DEF Browser!Write
<1>4. ASSUME NEW ns \in Browser!Namespaces, Browser!ForgetIn(ns), resetRevisions' = Browser!Hides(ns)
      PROVE  FALSE
  <2>1. resetRevisions'[n] = revision + 1 \/ resetRevisions'[n] = resetRevisions[n]
    BY <1>1, <1>4 DEF Browser!Hides, BrowserTypes
  <2> QED BY <1>1, <2>1 DEF BrowserTypes
<1>5. PICK ns \in Browser!Namespaces : Browser!ForgetIn(ns) /\ Browser!reset(ns, {})
  <2>1. ASSUME NEW ns \in Browser!Namespaces, Browser!resetBlind(ns) PROVE FALSE
    BY <1>4, <2>1 DEF Browser!resetBlind
  <2>2. ASSUME NEW ns \in Browser!Namespaces, NEW failing, Browser!reset(ns, failing), failing # {}
        PROVE  FALSE
    <3>1. Browser!ForgetIn(ns) /\ resetRevisions' = Browser!Hides(ns)
      BY <2>2 DEF Browser!reset, Browser!EndsHiding
    <3> QED BY <1>4, <3>1
  <2>3. \E ns \in Browser!Namespaces : \E failing \in SUBSET Browser!Known(ns) :
          Browser!reset(ns, failing)
    <3>1. ~ \E c \in StorageKeys, access \in Browser!Access :
             (\E v \in Values : Browser!set(c, v, access)) \/ Browser!remove(c, access)
      BY <1>3 DEF Browser!set, Browser!remove
    <3> QED BY <1>2, <2>1, <3>1 DEF Browser!Next
  <2> QED BY <2>2, <2>3 DEF Browser!reset
<1>6. /\ stored' = [c \in StorageKeys |-> IF c \in Browser!Known(ns) THEN None ELSE stored[c]]
      /\ overrides' = [c \in StorageKeys |-> IF c \in Browser!Known(ns) THEN None ELSE overrides[c]]
      /\ keyRevisions' = [c \in StorageKeys |-> IF c \in Browser!Known(ns) THEN 0 ELSE keyRevisions[c]]
      /\ resetRevisions' = [m \in Browser!Namespaces |->
                              IF m \in Browser!Within(ns) THEN 0 ELSE resetRevisions[m]]
  BY <1>5 DEF Browser!reset, Browser!EndsHiding
<1>7. k \in Browser!Covers(ns)
  <2>1. n \in Browser!Within(ns)
    BY <1>6
  <2> QED BY <2>1 DEF Browser!Within
<1> QED BY <1>1, <1>6, <1>7 DEF Browser!Known

\* Whatever localStorage does at any call: a page reads what it last wrote, removed
\* or reset, what is not held back in memory is in localStorage, and after a reset
\* of everything that worked nothing is hidden any more.
THEOREM PagesReadTheirWrites == Spec => BrowserHolds
<1>1. Browser!Init => BrowserInv
  <2> SUFFICES ASSUME Browser!Init PROVE BrowserInv
    OBVIOUS
  <2>1. BrowserTypes
    BY DEF Browser!Init, BrowserTypes
  <2>2. ASSUME NEW k \in StorageKeys PROVE KeyInv(k)
    <3>1. \A ns \in Covering(k) : resetRevisions[ns] = 0
      BY DEF Covering, Browser!Init
    <3> QED BY <3>1 DEF KeyInv, Hides, Browser!Init
  <2> QED BY <2>1, <2>2 DEF BrowserInv
<1>2. BrowserInv /\ [Browser!Next]_Browser!vars => BrowserInv'
  <2> SUFFICES ASSUME BrowserInv, [Browser!Next]_Browser!vars PROVE BrowserInv'
    OBVIOUS
  <2>1. ASSUME NEW k \in StorageKeys, NEW access \in Browser!Access,
               (\E v \in Values : Browser!set(k, v, access)) \/ Browser!remove(k, access)
        PROVE  BrowserInv'
    BY <2>1, WriteKeepsBrowser DEF Browser!set, Browser!remove
  <2>2. CASE UNCHANGED Browser!vars
    BY <2>2 DEF Browser!vars, Browser!maps, BrowserInv, BrowserTypes, KeyInv
  <2> QED BY <2>1, <2>2, ResetsKeepBrowser, ReloadKeepsBrowser DEF Browser!Next
<1>3. BrowserInv => Browser!ReadsLatest /\ Browser!DurableUnlessOverridden
  BY BrowserInvSuffices
<1> DEFINE Clean == \A ns \in Browser!Namespaces :
                resetRevisions'[ns] = 0 /\ resetRevisions[ns] # 0 /\ reloads' = reloads
                  => \A k \in Browser!Covers(ns) :
                       overrides'[k] = None /\ keyRevisions'[k] = 0 /\ stored'[k] = None
<1>4. BrowserInv /\ [Browser!Next]_Browser!vars => [Clean]_Browser!vars
  BY ResetsAreClean
<1>5. Browser!Spec => [](Browser!ReadsLatest /\ Browser!DurableUnlessOverridden) /\ [][Clean]_Browser!vars
  <2> HIDE DEF Clean
  <2> QED BY <1>1, <1>2, <1>3, <1>4, PTL DEF Browser!Spec
<1> QED BY <1>5, EachPartRuns DEF BrowserHolds, Browser!CleanAfterReset


-----------------------------------------------------------------------------
(* Transports                                                               *)

\* A set of numbers has a least member.
LEMMA LeastNatural ==
  ASSUME NEW T \in SUBSET Nat, T # {}
  PROVE  \E x \in T : \A y \in T : x <= y
<1>1. PICK x \in T : \A y \in T : ~ (<<y, x>> \in OpToRel(<, Nat))
  BY WFMin, NatLessThanWellFounded
<1>2. \A y \in T : ~ (y < x)
  <2> SUFFICES ASSUME NEW y \in T, y < x PROVE FALSE
    OBVIOUS
  <2>1. <<y, x>> \in OpToRel(<, Nat)
    BY DEF OpToRel
  <2> QED BY <1>1, <2>1
<1>3. \A y \in T : y \in Nat
  OBVIOUS
<1>4. \A y \in T : x <= y
  BY <1>2, <1>3
<1> QED BY <1>4

LogEntries == {Transport!Timing} \cup [type : {"failure"}, kind : Failures, throttledCount : Nat]

\* A failure goes on with the count of the one of its kind before it.
Counts(q) == \A i, j \in 1..Len(q) :
  /\ i < j
  /\ \E k \in Failures : /\ Transport!IsFailure(q[i], k) /\ Transport!IsFailure(q[j], k)
                         /\ \A m \in (i + 1)..(j - 1) : ~Transport!IsFailure(q[m], k)
  => q[j].throttledCount = q[i].throttledCount + 1
Log(q) == q \in Seq(LogEntries) /\ Counts(q)

\* The newest failure of a kind, when there is one.
LEMMA NewestOfKind ==
  ASSUME NEW q \in Seq(LogEntries), NEW k \in Failures,
         \E i \in 1..Len(q) : Transport!IsFailure(q[i], k)
  PROVE  /\ Transport!LastOfKind(q, k) \in 1..Len(q)
         /\ Transport!IsFailure(q[Transport!LastOfKind(q, k)], k)
         /\ \A i \in 1..Len(q) : Transport!IsFailure(q[i], k) => i <= Transport!LastOfKind(q, k)
<1> DEFINE S == {i \in DOMAIN q : Transport!IsFailure(q[i], k)}
           T == {Len(q) - i : i \in S}
<1>1. Len(q) \in Nat /\ DOMAIN q = 1..Len(q)
  OBVIOUS
<1>2. T \in SUBSET Nat /\ T # {}
  BY <1>1
<1>3. PICK d \in T : \A e \in T : d <= e
  <2> HIDE DEF T
  <2> QED BY <1>2, LeastNatural
<1>4. PICK x \in S : d = Len(q) - x
  OBVIOUS
<1>5. \A y \in S : x >= y
  <2> SUFFICES ASSUME NEW y \in S PROVE x >= y
    OBVIOUS
  <2>1. Len(q) - y \in T
    OBVIOUS
  <2>2. Len(q) - x <= Len(q) - y /\ x \in Int /\ y \in Int
    BY <1>1, <1>3, <1>4, <2>1
  <2> QED BY <1>1, <2>2
<1>6. Transport!LastOfKind(q, k) \in S /\ \A y \in S : Transport!LastOfKind(q, k) >= y
  <2>1. Transport!LastOfKind(q, k) = CHOOSE m \in S : \A y \in S : m >= y
    BY DEF Transport!LastOfKind, Transport!Max
  <2> HIDE DEF S
  <2> QED BY <1>5, <2>1
<1> QED BY <1>1, <1>6

LEMMA TimingCounts ==
  ASSUME NEW q, Log(q)
  PROVE  Log(Append(q, Transport!Timing))
<1> DEFINE w == Append(q, Transport!Timing)
<1>1. q \in Seq(LogEntries) /\ Len(q) \in Nat /\ Transport!Timing \in LogEntries
  BY DEF Log, LogEntries
<1>2. w \in Seq(LogEntries) /\ Len(w) = Len(q) + 1 /\ w[Len(q) + 1] = Transport!Timing
      /\ \A i \in 1..Len(q) : w[i] = q[i]
  BY <1>1
<1> HIDE DEF w
<1>3. Counts(w)
  <2> SUFFICES ASSUME NEW i \in 1..Len(w), NEW j \in 1..Len(w), i < j, NEW k \in Failures,
                      Transport!IsFailure(w[i], k), Transport!IsFailure(w[j], k),
                      \A m \in (i + 1)..(j - 1) : ~Transport!IsFailure(w[m], k)
               PROVE  w[j].throttledCount = w[i].throttledCount + 1
    BY DEF Counts
  <2>1. ~Transport!IsFailure(Transport!Timing, k)
    BY DEF Transport!IsFailure, Transport!Timing
  <2>2. j # Len(q) + 1
    BY <1>2, <2>1
  <2>3. i \in 1..Len(q) /\ j \in 1..Len(q) /\ \A m \in (i + 1)..(j - 1) : m \in 1..Len(q)
    BY <1>1, <1>2, <2>2
  <2>4. w[i] = q[i] /\ w[j] = q[j] /\ \A m \in (i + 1)..(j - 1) : w[m] = q[m]
    BY <1>2, <2>3
  <2> QED BY <2>3, <2>4 DEF Log, Counts
<1> QED BY <1>2, <1>3 DEF Log, w

LEMMA FailureCounts ==
  ASSUME NEW q, Log(q), NEW k \in Failures
  PROVE  Log(Append(q, Transport!Failure(k, Transport!Throttled(q, k))))
<1> DEFINE count == Transport!Throttled(q, k)
           new == Transport!Failure(k, count)
           w == Append(q, new)
           newest == Transport!LastOfKind(q, k)
<1>1. q \in Seq(LogEntries) /\ Len(q) \in Nat /\ DOMAIN q = 1..Len(q)
  BY DEF Log
<1>2. CASE ~ \E i \in 1..Len(q) : Transport!IsFailure(q[i], k)
  <2>1. count = 0
    BY <1>1, <1>2 DEF Transport!Throttled
  <2>2. new \in LogEntries /\ new.kind = k
    BY <2>1 DEF Transport!Failure, LogEntries
  <2>3. w \in Seq(LogEntries) /\ Len(w) = Len(q) + 1 /\ w[Len(q) + 1] = new
        /\ \A i \in 1..Len(q) : w[i] = q[i]
    BY <1>1, <2>2
  <2> HIDE DEF w, new
  <2>4. Counts(w)
    <3> SUFFICES ASSUME NEW i \in 1..Len(w), NEW j \in 1..Len(w), i < j, NEW c \in Failures,
                        Transport!IsFailure(w[i], c), Transport!IsFailure(w[j], c),
                        \A m \in (i + 1)..(j - 1) : ~Transport!IsFailure(w[m], c)
                 PROVE  w[j].throttledCount = w[i].throttledCount + 1
      BY DEF Counts
    <3>1. i \in 1..Len(q) /\ w[i] = q[i]
      BY <1>1, <2>3
    <3>2. j # Len(q) + 1
      BY <1>2, <2>2, <2>3, <3>1 DEF Transport!IsFailure
    <3>3. j \in 1..Len(q) /\ \A m \in (i + 1)..(j - 1) : m \in 1..Len(q)
      BY <1>1, <2>3, <3>1, <3>2
    <3>4. w[j] = q[j] /\ \A m \in (i + 1)..(j - 1) : w[m] = q[m]
      BY <2>3, <3>3
    <3> QED BY <3>1, <3>3, <3>4 DEF Log, Counts
  <2> QED BY <2>3, <2>4 DEF Log, w, new
<1>3. CASE \E i \in 1..Len(q) : Transport!IsFailure(q[i], k)
  <2>1. /\ newest \in 1..Len(q) /\ Transport!IsFailure(q[newest], k)
        /\ \A i \in 1..Len(q) : Transport!IsFailure(q[i], k) => i <= newest
    BY <1>1, <1>3, NewestOfKind
  <2>2. count = q[newest].throttledCount + 1
    BY <1>1, <1>3 DEF Transport!Throttled
  <2> HIDE DEF newest
  <2>3. q[newest] \in LogEntries /\ q[newest] # Transport!Timing
    BY <1>1, <2>1 DEF Transport!IsFailure, Transport!Timing
  <2>4. count \in Nat
    BY <2>2, <2>3 DEF LogEntries
  <2> HIDE DEF count
  <2>5. new \in LogEntries /\ new.kind = k /\ new.throttledCount = count
    BY <2>4 DEF Transport!Failure, LogEntries
  <2>6. w \in Seq(LogEntries) /\ Len(w) = Len(q) + 1 /\ w[Len(q) + 1] = new
        /\ \A i \in 1..Len(q) : w[i] = q[i]
    BY <1>1, <2>5
  <2> HIDE DEF w, new
  <2>7. Counts(w)
    <3> SUFFICES ASSUME NEW i \in 1..Len(w), NEW j \in 1..Len(w), i < j, NEW c \in Failures,
                        Transport!IsFailure(w[i], c), Transport!IsFailure(w[j], c),
                        \A m \in (i + 1)..(j - 1) : ~Transport!IsFailure(w[m], c)
                 PROVE  w[j].throttledCount = w[i].throttledCount + 1
      BY DEF Counts
    <3>1. i \in 1..Len(q) /\ w[i] = q[i]
      BY <1>1, <2>6
    <3>2. CASE j = Len(q) + 1
      <4>1. c = k /\ w[j] = new
        BY <2>5, <2>6, <3>2 DEF Transport!IsFailure
      <4>2. i <= newest
        BY <2>1, <3>1, <4>1
      <4>3. ~ (i < newest)
        <5> SUFFICES ASSUME i < newest PROVE FALSE
          OBVIOUS
        <5>1. newest \in (i + 1)..(j - 1) /\ w[newest] = q[newest]
          BY <1>1, <2>1, <2>6, <3>1, <3>2
        <5> QED BY <2>1, <4>1, <5>1
      <4>4. i = newest
        BY <1>1, <2>1, <3>1, <4>2, <4>3
      <4> QED BY <2>2, <2>5, <3>1, <4>1, <4>4
    <3>3. CASE j # Len(q) + 1
      <4>1. j \in 1..Len(q) /\ \A m \in (i + 1)..(j - 1) : m \in 1..Len(q)
        BY <1>1, <2>6, <3>1, <3>3
      <4>2. w[j] = q[j] /\ \A m \in (i + 1)..(j - 1) : w[m] = q[m]
        BY <2>6, <4>1
      <4> QED BY <3>1, <4>1, <4>2 DEF Log, Counts
    <3> QED BY <3>2, <3>3
  <2> QED BY <2>6, <2>7 DEF Log, w, new, count
<1> QED BY <1>2, <1>3

\* The oldest entry may go.
LEMMA TailCounted ==
  ASSUME NEW q, Log(q), q # <<>>
  PROVE  Log(Tail(q))
<1>1. q \in Seq(LogEntries) /\ Len(q) \in Nat /\ Len(q) > 0
  BY DEF Log
<1> DEFINE w == Tail(q)
<1>2. w \in Seq(LogEntries) /\ Len(w) = Len(q) - 1 /\ \A i \in 1..Len(w) : w[i] = q[i + 1]
  BY <1>1
<1> HIDE DEF w
<1>3. Counts(w)
  <2> SUFFICES ASSUME NEW i \in 1..Len(w), NEW j \in 1..Len(w), i < j, NEW k \in Failures,
                      Transport!IsFailure(w[i], k), Transport!IsFailure(w[j], k),
                      \A m \in (i + 1)..(j - 1) : ~Transport!IsFailure(w[m], k)
               PROVE  w[j].throttledCount = w[i].throttledCount + 1
    BY DEF Counts
  <2>1. i + 1 \in 1..Len(q) /\ j + 1 \in 1..Len(q) /\ i + 1 < j + 1
        /\ w[i] = q[i + 1] /\ w[j] = q[j + 1]
    BY <1>1, <1>2
  <2>2. ASSUME NEW m \in ((i + 1) + 1)..((j + 1) - 1) PROVE ~Transport!IsFailure(q[m], k)
    <3>1. m - 1 \in (i + 1)..(j - 1) /\ m - 1 \in 1..Len(w) /\ (m - 1) + 1 = m
      BY <1>1, <1>2
    <3>2. w[m - 1] = q[m]
      BY <1>2, <3>1
    <3> QED BY <3>1, <3>2
  <2> QED BY <2>1, <2>2 DEF Log, Counts
<1> QED BY <1>2, <1>3 DEF Log, w

\* What a call leaves in the log.
LEMMA RecordedIsLog ==
  ASSUME NEW q, Log(q), NEW o \in Failures \cup {Transport!Ok}
  PROVE  Log(Transport!Recorded(q, o))
<1>1. ASSUME NEW p, Log(p), NEW e, Log(Append(p, e))
      PROVE  Log(Transport!recordDiagnosticEvent(p, e))
  <2>1. Append(p, e) # <<>>
    BY <1>1 DEF Log
  <2> QED BY <1>1, <2>1, TailCounted DEF Transport!recordDiagnosticEvent
<1>2. Log(Transport!Timed(q))
  BY <1>1, TimingCounts DEF Transport!Timed
<1>3. ASSUME NEW k \in Failures PROVE Log(Transport!recordDiagnosticFailure(Transport!Timed(q), k))
  BY <1>1, <1>2, FailureCounts DEF Transport!recordDiagnosticFailure
<1> QED BY <1>2, <1>3 DEF Transport!Recorded


CallType == [step : {"idle", "waiting", "settled", "returned"},
             outcome : Failures \cup {Transport!Ok}]

\* The worker owes each waiting call one answer, and the log counts.
TransportInv ==
  /\ call \in [Requesters -> CallType]
  /\ owed \subseteq Requesters \X (Failures \cup {Transport!Ok})
  /\ \A p, q \in owed : p[1] = q[1] => p = q
  /\ Transport!PendingIsOwed
  /\ Log(events)

LEMMA TransportConstants == Others \cap Requesters = {} /\ Refused \in Failures
  BY PartsAssumption DEF Transport!TransportsAssumption

LEMMA RequestKeepsTransport ==
  ASSUME TransportInv, NEW c \in Requesters, Transport!Request(c)
  PROVE  TransportInv'
<1>1. call[c].step = "idle" /\ events' = events /\ call[c] \in CallType
  BY DEF Transport!Request, TransportInv
<1>2. c \notin pendingRequests /\ \A p \in owed : p[1] # c
  BY <1>1 DEF TransportInv, Transport!PendingIsOwed
<1>3. ASSUME NEW o \in Failures \cup {Transport!Ok}, call' = Transport!Settled(c, o),
             UNCHANGED <<pendingRequests, owed>>
      PROVE  TransportInv'
  <2>1. call' = [call EXCEPT ![c] = [step |-> "settled", outcome |-> o]]
    BY <1>3 DEF Transport!Settled
  <2>2. call' \in [Requesters -> CallType]
    BY <2>1 DEF TransportInv, CallType
  <2>3. {d \in Requesters : call'[d].step = "waiting"} = {d \in Requesters : call[d].step = "waiting"}
    BY <1>1, <2>1 DEF TransportInv
  <2> QED BY <1>1, <1>3, <2>2, <2>3 DEF TransportInv, Transport!PendingIsOwed
<1>4. ASSUME call' = [call EXCEPT ![c].step = "waiting"], pendingRequests' = pendingRequests \cup {c},
             NEW o \in Failures \cup {Transport!Ok}, owed' = owed \cup {<<c, o>>}
      PROVE  TransportInv'
  <2>1. call' \in [Requesters -> CallType]
    BY <1>4 DEF TransportInv, CallType
  <2>2. {d \in Requesters : call'[d].step = "waiting"} =
          {d \in Requesters : call[d].step = "waiting"} \cup {c}
    BY <1>4 DEF TransportInv, CallType
  <2>3. {p[1] : p \in owed'} = {p[1] : p \in owed} \cup {c}
    <3>1. <<c, o>>[1] = c /\ <<c, o>> \in owed' /\ \A p \in owed' : p \in owed \/ p = <<c, o>>
      BY <1>4
    <3>2. \A p \in owed : p \in owed'
      BY <1>4
    <3> QED BY <3>1, <3>2
  <2>4. \A p, q \in owed' : p[1] = q[1] => p = q
    BY <1>2, <1>4 DEF TransportInv
  <2>5. owed' \subseteq Requesters \X (Failures \cup {Transport!Ok})
    BY <1>4 DEF TransportInv
  <2> QED BY <1>1, <1>4, <2>1, <2>2, <2>3, <2>4, <2>5 DEF TransportInv, Transport!PendingIsOwed
<1>5. c \in Transport!InTheMap(c)
  BY DEF Transport!InTheMap
<1> QED BY <1>3, <1>4, <1>5, TransportConstants DEF Transport!Request, Transport!Outcomes

\* The completion of a request of the client settles it with its own answer; the
\* completion of any other changes nothing.
LEMMA CompleteIs ==
  ASSUME TransportInv, NEW id \in Requesters \cup Others, Transport!Complete(id)
  PROVE  \/ \E o \in Failures \cup {Transport!Ok} :
              /\ id \in Requesters /\ <<id, o>> \in owed /\ owed' = owed \ {<<id, o>>}
              /\ call' = [call EXCEPT ![id] = [step |-> "settled", outcome |-> o]]
              /\ pendingRequests' = pendingRequests \ {id}
         \/ UNCHANGED <<call, owed, pendingRequests>>
<1>1. PICK o \in Failures \cup {Transport!Ok} :
        /\ <<id, o>> \in owed \/ id \in Others
        /\ call' = [c \in Requesters |-> IF c \in Transport!Hears(pendingRequests, id)
                                         THEN [step |-> "settled", outcome |-> o] ELSE call[c]]
        /\ owed' = owed \ {<<id, o>>}
  BY DEF Transport!Complete, Transport!Outcomes
<1>2. pendingRequests' = pendingRequests \ Transport!Hears(pendingRequests, id)
  BY DEF Transport!Complete
<1>3. call = [c \in Requesters |-> call[c]]
  BY DEF TransportInv
<1>4. CASE id \in Others
  <2>1. id \notin pendingRequests /\ <<id, o>> \notin owed
    BY <1>4, TransportConstants DEF TransportInv, Transport!PendingIsOwed
  <2>2. Transport!Hears(pendingRequests, id) = {}
    BY <2>1 DEF Transport!Hears
  <2> QED BY <1>1, <1>2, <1>3, <2>1, <2>2
<1>5. CASE id \notin Others
  <2>1. <<id, o>> \in owed /\ id \in Requesters
    BY <1>1, <1>5
  <2>2. id \in pendingRequests
    BY <2>1 DEF TransportInv, Transport!PendingIsOwed
  <2>3. Transport!Hears(pendingRequests, id) = {id}
    BY <2>2 DEF Transport!Hears
  <2>4. call' = [call EXCEPT ![id] = [step |-> "settled", outcome |-> o]]
    BY <1>1, <1>3, <2>1, <2>3
  <2> QED BY <1>1, <1>2, <2>1, <2>3, <2>4
<1> QED BY <1>4, <1>5

LEMMA CompleteKeepsTransport ==
  ASSUME TransportInv, NEW id \in Requesters \cup Others, Transport!Complete(id)
  PROVE  TransportInv'
<1>1. events' = events
  BY DEF Transport!Complete
<1>2. CASE UNCHANGED <<call, owed, pendingRequests>>
  BY <1>1, <1>2 DEF TransportInv, Transport!PendingIsOwed
<1>3. ASSUME NEW o \in Failures \cup {Transport!Ok}, id \in Requesters, <<id, o>> \in owed,
             owed' = owed \ {<<id, o>>},
             call' = [call EXCEPT ![id] = [step |-> "settled", outcome |-> o]],
             pendingRequests' = pendingRequests \ {id}
      PROVE  TransportInv'
  <2>1. call' \in [Requesters -> CallType]
    BY <1>3 DEF TransportInv, CallType
  <2>2. {d \in Requesters : call'[d].step = "waiting"} =
          {d \in Requesters : call[d].step = "waiting"} \ {id}
    BY <1>3 DEF TransportInv
  <2>3. \A p \in owed : p[1] = id => p = <<id, o>>
    BY <1>3 DEF TransportInv
  <2>4. {p[1] : p \in owed'} = {p[1] : p \in owed} \ {id}
    BY <1>3, <2>3
  <2> QED BY <1>1, <1>3, <2>1, <2>2, <2>4 DEF TransportInv, Transport!PendingIsOwed
<1> QED BY <1>2, <1>3, CompleteIs

\* A call that returns is recorded; timings and failures are cleared.
LEMMA LogStepKeepsTransport ==
  ASSUME TransportInv,
         (\E c \in Requesters : Transport!Return(c)) \/ Transport!clearDiagnosticFailures
  PROVE  TransportInv'
<1>1. ASSUME NEW c \in Requesters, Transport!Return(c) PROVE TransportInv'
  <2>1. call[c].step = "settled" /\ call' = [call EXCEPT ![c].step = "returned"]
        /\ events' = Transport!Recorded(events, call[c].outcome)
        /\ UNCHANGED <<pendingRequests, owed>>
    BY <1>1 DEF Transport!Return
  <2>2. call' \in [Requesters -> CallType]
    BY <2>1 DEF TransportInv, CallType
  <2>3. {d \in Requesters : call'[d].step = "waiting"} = {d \in Requesters : call[d].step = "waiting"}
    BY <2>1 DEF TransportInv, CallType
  <2>4. call[c].outcome \in Failures \cup {Transport!Ok}
    BY DEF TransportInv, CallType
  <2>5. Log(events')
    BY <2>1, <2>4, RecordedIsLog DEF TransportInv
  <2> QED BY <2>1, <2>2, <2>3, <2>5 DEF TransportInv, Transport!PendingIsOwed
<1>2. CASE Transport!clearDiagnosticFailures
  <2>1. events' = Transport!Cleared /\ UNCHANGED <<call, pendingRequests, owed>>
    BY <1>2 DEF Transport!clearDiagnosticFailures
  <2> DEFINE n == Transport!Cardinality(Transport!Timings)
  <2>2. n \in Nat
    <3>1. events \in Seq(LogEntries) /\ Len(events) \in Nat /\ DOMAIN events = 1..Len(events)
      BY DEF TransportInv, Log
    <3>2. Transport!Timings \subseteq 1..Len(events) /\ IsFiniteSet(1..Len(events))
      BY <3>1, FS_Interval DEF Transport!Timings
    <3>3. Cardinality(Transport!Timings) \in Nat
      BY <3>2, FS_Subset, FS_CardinalityType
    <3>4. Transport!Cardinality(Transport!Timings) = Cardinality(Transport!Timings)
      BY DEF Transport!Cardinality, Cardinality
    <3> QED BY <3>3, <3>4
  <2>3. Transport!Cleared = [i \in 1..n |-> Transport!Timing]
    BY DEF Transport!Cleared
  <2> HIDE DEF n
  <2>4. Transport!Cleared \in Seq(LogEntries) /\ Len(Transport!Cleared) = n
        /\ \A i \in 1..n : Transport!Cleared[i] = Transport!Timing
    BY <2>2, <2>3 DEF LogEntries
  <2>5. Counts(Transport!Cleared)
    BY <2>4 DEF Counts, Transport!IsFailure, Transport!Timing
  <2>6. Log(events')
    BY <2>1, <2>4, <2>5 DEF Log
  <2> QED BY <2>1, <2>6 DEF TransportInv, Transport!PendingIsOwed
<1> QED BY <1>1, <1>2

\* Whatever the worker completes, and whenever: the map has exactly the requests the
\* worker owes an answer, a promise is settled with the answer to its own request,
\* and the failures of a kind are counted without a gap.
THEOREM AnswersAreOwn == Spec => TransportHolds
<1>1. Transport!Init => TransportInv
  <2> SUFFICES ASSUME Transport!Init PROVE TransportInv
    OBVIOUS
  <2>1. <<>> \in Seq(LogEntries) /\ Counts(<<>>)
    BY DEF Counts
  <2>2. Log(events)
    BY <2>1 DEF Log, Transport!Init
  <2>3. call \in [Requesters -> CallType]
    BY DEF Transport!Init, Transport!Idle, CallType
  <2> QED BY <2>2, <2>3 DEF Transport!Init, Transport!Idle, TransportInv, Transport!PendingIsOwed
<1>2. TransportInv /\ [Transport!Next]_Transport!vars => TransportInv'
  <2> SUFFICES ASSUME TransportInv, [Transport!Next]_Transport!vars PROVE TransportInv'
    OBVIOUS
  <2>1. CASE UNCHANGED Transport!vars \/ \E enabled \in BOOLEAN : Transport!setNetworkEnabled(enabled)
    <3>1. UNCHANGED <<call, owed, pendingRequests, events>>
      BY <2>1 DEF Transport!vars, Transport!setNetworkEnabled
    <3> QED BY <3>1 DEF TransportInv, Transport!PendingIsOwed
  <2> QED BY <2>1, RequestKeepsTransport, CompleteKeepsTransport, LogStepKeepsTransport
          DEF Transport!Next
<1>3. TransportInv => Transport!PendingIsOwed /\ Transport!CountsGoOn
  <2> SUFFICES ASSUME TransportInv PROVE Transport!CountsGoOn
    BY DEF TransportInv
  <2>1. Counts(events) /\ DOMAIN events = 1..Len(events)
    BY DEF TransportInv, Log
  <2> QED BY <2>1 DEF Counts, Transport!CountsGoOn
<1> DEFINE Own == \A c \in Requesters : call[c].step = "waiting" /\ call'[c].step = "settled"
                    => <<c, call'[c].outcome>> \in owed
<1>4. TransportInv /\ [Transport!Next]_Transport!vars => [Own]_Transport!vars
  <2> SUFFICES ASSUME TransportInv, Transport!Next, NEW c \in Requesters,
                      call[c].step = "waiting", call'[c].step = "settled"
               PROVE  <<c, call'[c].outcome>> \in owed
    OBVIOUS
  <2>1. call \in [Requesters -> CallType]
    BY DEF TransportInv
  <2>2. ASSUME NEW d \in Requesters, Transport!Request(d) PROVE FALSE
    <3>1. d # c
      BY <2>2 DEF Transport!Request
    <3>2. call'[c] = call[c]
      BY <2>1, <2>2, <3>1 DEF Transport!Request, Transport!Settled
    <3> QED BY <3>2
  <2>3. ASSUME NEW d \in Requesters, Transport!Return(d) PROVE FALSE
    BY <2>1, <2>3 DEF Transport!Return
  <2>4. ASSUME UNCHANGED call PROVE FALSE
    BY <2>4
  <2>5. PICK id \in Requesters \cup Others : Transport!Complete(id)
    BY <2>2, <2>3, <2>4 DEF Transport!Next, Transport!clearDiagnosticFailures,
                            Transport!setNetworkEnabled
  <2>6. PICK o \in Failures \cup {Transport!Ok} :
          /\ id \in Requesters /\ <<id, o>> \in owed
          /\ call' = [call EXCEPT ![id] = [step |-> "settled", outcome |-> o]]
    BY <2>4, <2>5, CompleteIs
  <2>7. id = c
    BY <2>1, <2>6
  <2> QED BY <2>1, <2>6, <2>7
<1>5. Transport!Spec => [](Transport!PendingIsOwed /\ Transport!CountsGoOn) /\ [][Own]_Transport!vars
  <2> HIDE DEF Own
  <2> QED BY <1>1, <1>2, <1>3, <1>4, PTL DEF Transport!Spec
<1> QED BY <1>5, EachPartRuns DEF TransportHolds, Transport!OwnAnswer


-----------------------------------------------------------------------------
(* ExperimentFlags                                                          *)

FlagCall == [step : Flags!Steps, generation : Nat, answer : Flags!Served,
             fetching : BOOLEAN, stopped : BOOLEAN]

FlagLoad == [step : {"asked", "read", "ended"}, found : Flags!ServerFlags]

CallsTyped == calls \in [Starts \cup Rounds -> FlagCall] /\ lifecycleGeneration \in Nat
FlagsTyped ==
  /\ isRunning \in BOOLEAN /\ poller \in BOOLEAN /\ userPoller \in BOOLEAN
  /\ listening \in BOOLEAN /\ loading \in FlagLoad /\ unmerged \in BOOLEAN
  /\ flag \in Flags!ServerFlags \cup {InitialFlag} /\ flagOnDisk \in Flags!ServerFlags
  /\ flagServer \in Flags!Served /\ applied \in 0 .. MaxVersions

\* Every stop of the app, every start and every start that failed makes a generation.
Started == {c \in Starts : calls[c].step # "idle"}
Failed == {c \in Starts : calls[c].step = "failed"}
GenerationBound ==
  /\ stops \in 0 .. MaxStops
  /\ lifecycleGeneration <= stops + Cardinality(Started) + Cardinality(Failed)

\* A generation has one start; only its poller makes rounds of it, after that start,
\* and one at a time.
Current(c) == calls[c].generation = lifecycleGeneration
GenerationsHold ==
  /\ \A c \in Starts \cup Rounds : calls[c].generation <= lifecycleGeneration
  /\ \A c, d \in Starts : calls[c].step # "idle" /\ calls[d].step # "idle"
                          /\ calls[c].generation = calls[d].generation => c = d
  /\ \A r \in Rounds : calls[r].step # "idle" /\ Current(r) => poller
  /\ \A c \in Starts : Flags!Outstanding(c) /\ Current(c) => ~poller
  /\ \A r, q \in Rounds : Flags!InFlight(r) /\ Current(r) /\ Flags!InFlight(q) /\ Current(q) => r = q

\* No answer that may still be applied is older than the one that was.
AnswersHold ==
  /\ applied <= flagServer.version
  /\ \A c \in Starts \cup Rounds : calls[c].step = "answered" =>
        /\ calls[c].answer.version <= flagServer.version
        /\ Current(c) => applied <= calls[c].answer.version

\* A start that nobody stopped is the one of the generation that runs.
StartsHold ==
  \A c \in Starts : (Flags!Outstanding(c) \/ calls[c].step = "done") /\ ~calls[c].stopped
                       => isRunning /\ Current(c)

PollingInv ==
  /\ CallsTyped /\ GenerationBound /\ GenerationsHold /\ StartsHold
  /\ Flags!PollersStop /\ Flags!RunningPolls
FlagsInv == PollingInv /\ FlagsTyped /\ AnswersHold /\ Flags!InitialFlagStays

LEMMA FlagConstants ==
  /\ Starts \cap Rounds = {} /\ IsFiniteSet(Starts)
  /\ MaxStops \in Nat /\ MaxVersions \in Nat
  /\ NoFlag \notin Nat /\ InitialFlag \notin Nat /\ InitialFlag # NoFlag
<1>1. Flags!IsFiniteSet(Starts) => IsFiniteSet(Starts)
  BY DEF Flags!IsFiniteSet, IsFiniteSet
<1> QED BY <1>1, PartsAssumption DEF Flags!ExperimentFlagsAssumption

LEMMA IdleCall == Flags!Idle \in FlagCall /\ Flags!Idle.step = "idle" /\ Flags!Idle.generation = 0
<1>1. Flags!Idle.answer \in Flags!Served
  BY FlagConstants DEF Flags!Idle, Flags!Served, Flags!ServerFlags
<1> QED BY <1>1 DEF Flags!Idle, FlagCall, Flags!Steps

\* A call that goes on to a step of the same kind, for a client that stays as it is.
LEMMA CallGoesOn ==
  ASSUME PollingInv, NEW c \in Starts \cup Rounds, NEW new \in FlagCall,
         calls' = [calls EXCEPT ![c] = new],
         new.generation = calls[c].generation, new.stopped = calls[c].stopped,
         \/ new.step = calls[c].step
         \/ /\ calls[c].step \in {"asked", "answered", "rejected", "storing"}
            /\ new.step \in {"answered", "rejected", "storing", "ready"},
         UNCHANGED <<isRunning, lifecycleGeneration, poller, userPoller, stops>>
  PROVE  PollingInv'
<1>1. CallsTyped'
  BY DEF PollingInv, CallsTyped
<1>2. \A d \in Starts \cup Rounds :
        /\ calls'[d].generation = calls[d].generation /\ calls'[d].stopped = calls[d].stopped
        /\ calls'[d].step = "idle" <=> calls[d].step = "idle"
        /\ calls'[d].step = "failed" <=> calls[d].step = "failed"
        /\ calls'[d].step = "done" <=> calls[d].step = "done"
  BY DEF PollingInv, CallsTyped
<1>3. \A d \in Starts \cup Rounds :
        /\ Flags!InFlight(d)' => Flags!InFlight(d)
        /\ Flags!Outstanding(d)' <=> Flags!Outstanding(d)
        /\ Current(d)' <=> Current(d)
  <2> SUFFICES ASSUME NEW d \in Starts \cup Rounds
               PROVE  /\ Flags!InFlight(d)' => Flags!InFlight(d)
                      /\ Flags!Outstanding(d)' <=> Flags!Outstanding(d)
                      /\ Current(d)' <=> Current(d)
    OBVIOUS
  <2>1. CASE d = c
    <3>1. calls'[d] = new
      BY <2>1 DEF PollingInv, CallsTyped
    <3> QED BY <2>1, <3>1 DEF Flags!InFlight, Flags!Outstanding, Current
  <2>2. CASE d # c
    <3>1. calls'[d] = calls[d]
      BY <2>2 DEF PollingInv, CallsTyped
    <3> QED BY <3>1 DEF Flags!InFlight, Flags!Outstanding, Current
  <2> QED BY <2>1, <2>2
<1>4. GenerationBound'
  <2>1. Started' = Started /\ Failed' = Failed
    BY <1>2 DEF Started, Failed
  <2> QED BY <2>1 DEF PollingInv, GenerationBound
<1>5. GenerationsHold'
  BY <1>2, <1>3 DEF PollingInv, GenerationsHold
<1>6. StartsHold'
  BY <1>2, <1>3 DEF PollingInv, StartsHold
<1>7. Flags!PollersStop'
  BY DEF PollingInv, Flags!PollersStop
<1>8. Flags!RunningPolls'
  BY <1>2, <1>3 DEF PollingInv, Flags!RunningPolls
<1> QED BY <1>1, <1>4, <1>5, <1>6, <1>7, <1>8 DEF PollingInv


\* The calls that take part in the flags of the current generation.
LEMMA CurrentCalls ==
  ASSUME PollingInv, NEW c \in Starts \cup Rounds, NEW d \in Starts \cup Rounds,
         Flags!InFlight(c), Flags!InFlight(d), Current(c), Current(d)
  PROVE  c = d
<1>1. Flags!Outstanding(c) /\ Flags!Outstanding(d) /\ calls[c].step # "idle" /\ calls[d].step # "idle"
  BY DEF Flags!Outstanding, Flags!InFlight
<1>2. calls[c].generation = calls[d].generation
  BY DEF Current
<1>3. CASE c \in Starts /\ d \in Starts
  BY <1>1, <1>2, <1>3 DEF PollingInv, GenerationsHold
<1>4. CASE c \in Rounds /\ d \in Rounds
  BY <1>4 DEF PollingInv, GenerationsHold
<1>5. CASE c \in Starts /\ d \in Rounds
  BY <1>1, <1>5 DEF PollingInv, GenerationsHold
<1>6. CASE c \in Rounds /\ d \in Starts
  BY <1>1, <1>6 DEF PollingInv, GenerationsHold
<1> QED BY <1>3, <1>4, <1>5, <1>6

LEMMA AnswerKeepsFlags ==
  ASSUME FlagsInv, NEW c \in Starts \cup Rounds, Flags!Answer(c)
  PROVE  FlagsInv'
<1>1. /\ calls[c].step = "asked" /\ calls[c] \in FlagCall /\ flagServer \in Flags!Served
      /\ calls \in [Starts \cup Rounds -> FlagCall]
      /\ UNCHANGED <<isRunning, lifecycleGeneration, poller, userPoller, listening, loading, flag,
                     flagOnDisk, applied, unmerged, flagServer, stops>>
  BY DEF Flags!Answer, Flags!cache, FlagsInv, PollingInv, CallsTyped, FlagsTyped
<1>2. PICK new \in FlagCall :
        /\ calls' = [calls EXCEPT ![c] = new] /\ new.step \in {"answered", "rejected"}
        /\ new.generation = calls[c].generation /\ new.stopped = calls[c].stopped
        /\ new.step = "answered" => new.answer = flagServer
  <2>1. CASE calls' = [calls EXCEPT ![c].step = "answered", ![c].answer = flagServer]
    <3> DEFINE new == [calls[c] EXCEPT !.step = "answered", !.answer = flagServer]
    <3>1. new \in FlagCall /\ new.step = "answered" /\ new.answer = flagServer
          /\ new.generation = calls[c].generation /\ new.stopped = calls[c].stopped
      BY <1>1 DEF FlagCall, Flags!Steps
    <3>2. calls' = [calls EXCEPT ![c] = new]
      BY <1>1, <2>1
    <3> QED BY <3>1, <3>2
  <2>2. CASE calls' = [calls EXCEPT ![c].step = "rejected"]
    <3> DEFINE new == [calls[c] EXCEPT !.step = "rejected"]
    <3>1. new \in FlagCall /\ new.step = "rejected"
          /\ new.generation = calls[c].generation /\ new.stopped = calls[c].stopped
      BY <1>1 DEF FlagCall, Flags!Steps
    <3>2. calls' = [calls EXCEPT ![c] = new]
      BY <1>1, <2>2
    <3> QED BY <3>1, <3>2
  <2> QED BY <2>1, <2>2 DEF Flags!Answer
<1>3. PollingInv'
  BY <1>1, <1>2, CallGoesOn DEF FlagsInv
<1>4. FlagsTyped'
  BY <1>1 DEF FlagsInv, FlagsTyped
<1>5. AnswersHold'
  <2>1. \A d \in Starts \cup Rounds : d # c => calls'[d] = calls[d]
    BY <1>1, <1>2
  <2>2. calls'[c] = new
    BY <1>1, <1>2
  <2>3. applied <= flagServer.version /\ flagServer.version \in Nat
    BY <1>1, FlagConstants DEF FlagsInv, AnswersHold, Flags!Served
  <2> QED BY <1>1, <1>2, <2>1, <2>2, <2>3 DEF FlagsInv, AnswersHold, Current
<1>6. Flags!InitialFlagStays'
  <2>1. \A d \in Starts \cup Rounds : calls[d].step = "storing" => calls'[d].step = "storing"
    BY <1>1, <1>2
  <2> QED BY <1>1, <2>1 DEF FlagsInv, Flags!InitialFlagStays, Flags!Calls
<1> QED BY <1>3, <1>4, <1>5, <1>6 DEF FlagsInv

LEMMA ReceiveKeepsFlags ==
  ASSUME FlagsInv, NEW c \in Starts \cup Rounds, Flags!Receive(c)
  PROVE  FlagsInv'
<1>1. /\ calls[c].step = "answered" /\ calls[c] \in FlagCall
      /\ calls \in [Starts \cup Rounds -> FlagCall]
      /\ UNCHANGED <<isRunning, lifecycleGeneration, poller, userPoller, listening, flagServer,
                     stops, loading, flagOnDisk>>
  BY DEF Flags!Receive, Flags!Dropped, Flags!Applied, Flags!cache, FlagsInv, PollingInv, CallsTyped
<1>2. CASE Flags!Dropped(c)
  <2> DEFINE new == [calls[c] EXCEPT !.step = "ready", !.answer = Flags!Idle.answer]
  <2>1. Flags!Idle.answer \in Flags!Served
    BY IdleCall DEF FlagCall
  <2>2. new \in FlagCall /\ new.step = "ready"
        /\ new.generation = calls[c].generation /\ new.stopped = calls[c].stopped
    BY <1>1, <2>1 DEF FlagCall, Flags!Steps
  <2>3. calls' = [calls EXCEPT ![c] = new] /\ UNCHANGED <<flag, applied, unmerged>>
    BY <1>1, <1>2 DEF Flags!Dropped, Flags!cache
  <2> HIDE DEF new
  <2>4. PollingInv'
    BY <1>1, <2>2, <2>3, CallGoesOn DEF FlagsInv
  <2>5. \A d \in Starts \cup Rounds : d # c => calls'[d] = calls[d]
    BY <1>1, <2>3
  <2>6. calls'[c] = new
    BY <1>1, <2>3
  <2>7. FlagsTyped'
    BY <1>1, <2>3 DEF FlagsInv, FlagsTyped
  <2>8. AnswersHold'
    BY <1>1, <2>2, <2>3, <2>5, <2>6 DEF FlagsInv, AnswersHold, Current
  <2>9. Flags!InitialFlagStays'
    <3>1. \A d \in Starts \cup Rounds : calls[d].step = "storing" => calls'[d].step = "storing"
      BY <1>1, <2>5
    <3> QED BY <1>1, <2>3, <3>1 DEF FlagsInv, Flags!InitialFlagStays, Flags!Calls
  <2> QED BY <2>4, <2>7, <2>8, <2>9 DEF FlagsInv
<1>3. CASE Flags!Applied(c)
  <2> DEFINE new == [calls[c] EXCEPT !.step = "storing"]
  <2>1. new \in FlagCall /\ new.step = "storing"
        /\ new.generation = calls[c].generation /\ new.stopped = calls[c].stopped
    BY <1>1 DEF FlagCall, Flags!Steps
  <2>2. calls' = [calls EXCEPT ![c] = new] /\ flag' = calls[c].answer.flag
        /\ applied' = calls[c].answer.version /\ unmerged' = FALSE /\ Current(c)
    BY <1>1, <1>3 DEF Flags!Applied, Flags!IsCurrent, Current
  <2> HIDE DEF new
  <2>3. PollingInv'
    BY <1>1, <2>1, <2>2, CallGoesOn DEF FlagsInv
  <2>4. \A d \in Starts \cup Rounds : d # c => calls'[d] = calls[d]
    BY <1>1, <2>2
  <2>5. calls'[c] = new
    BY <1>1, <2>2
  <2>6. calls[c].answer \in Flags!Served
    BY <1>1 DEF FlagCall
  <2>7. FlagsTyped'
    <3>1. applied' \in 0..MaxVersions /\ flag' \in Flags!ServerFlags
      BY <2>2, <2>6 DEF Flags!Served
    <3> QED BY <1>1, <2>2, <3>1 DEF FlagsInv, FlagsTyped
  <2>8. AnswersHold'
    <3>1. applied' <= flagServer.version
      BY <1>1, <2>2 DEF FlagsInv, AnswersHold
    <3>2. ASSUME NEW d \in Starts \cup Rounds, calls'[d].step = "answered"
          PROVE  d # c /\ calls[d].step = "answered" /\ calls'[d] = calls[d] /\ ~Current(d)
      <4>1. d # c /\ calls'[d] = calls[d]
        BY <2>1, <2>4, <2>5, <3>2
      <4>2. Flags!InFlight(c) /\ Flags!InFlight(d)
        BY <1>1, <3>2, <4>1 DEF Flags!InFlight
      <4> QED BY <2>2, <3>2, <4>1, <4>2, CurrentCalls DEF FlagsInv
    <3> QED BY <1>1, <3>1, <3>2 DEF FlagsInv, AnswersHold, Current
  <2>9. Flags!InitialFlagStays'
    BY <2>1, <2>5 DEF Flags!InitialFlagStays, Flags!Calls
  <2> QED BY <2>3, <2>7, <2>8, <2>9 DEF FlagsInv
<1> QED BY <1>2, <1>3 DEF Flags!Receive

LEMMA StoredKeepsFlags ==
  ASSUME FlagsInv, NEW c \in Starts \cup Rounds, Flags!Stored(c)
  PROVE  FlagsInv'
<1>1. /\ calls[c].step = "storing" /\ calls[c] \in FlagCall
      /\ calls \in [Starts \cup Rounds -> FlagCall]
      /\ UNCHANGED <<isRunning, lifecycleGeneration, poller, userPoller, listening, flagServer,
                     stops, loading, applied>>
  BY DEF Flags!Stored, FlagsInv, PollingInv, CallsTyped
<1>2. Flags!Idle.answer \in Flags!Served
  BY IdleCall DEF FlagCall
<1>3. ASSUME NEW s \in {"ready", "rejected"},
             calls' = [calls EXCEPT ![c].step = s, ![c].answer = Flags!Idle.answer],
             flag' \in Flags!ServerFlags \cup {InitialFlag}, flagOnDisk' \in Flags!ServerFlags,
             unmerged' \in BOOLEAN, unmerged' \/ flag' # NoFlag
      PROVE  FlagsInv'
  <2> DEFINE new == [calls[c] EXCEPT !.step = s, !.answer = Flags!Idle.answer]
  <2>1. new \in FlagCall /\ new.step = s
        /\ new.generation = calls[c].generation /\ new.stopped = calls[c].stopped
    BY <1>1, <1>2 DEF FlagCall, Flags!Steps
  <2>2. calls' = [calls EXCEPT ![c] = new]
    BY <1>1, <1>3
  <2> HIDE DEF new
  <2>3. PollingInv'
    BY <1>1, <2>1, <2>2, CallGoesOn DEF FlagsInv
  <2>4. \A d \in Starts \cup Rounds : calls'[d].step = "answered" => calls'[d] = calls[d]
    BY <1>1, <2>1, <2>2
  <2>5. FlagsTyped'
    BY <1>1, <1>3 DEF FlagsInv, FlagsTyped
  <2>6. AnswersHold'
    BY <1>1, <2>4 DEF FlagsInv, AnswersHold, Current
  <2>7. Flags!InitialFlagStays'
    BY <1>3 DEF Flags!InitialFlagStays
  <2> QED BY <2>3, <2>5, <2>6, <2>7 DEF FlagsInv
<1>4. CASE /\ flagOnDisk' = Flags!Written(c) /\ flag' = Flags!Merged(c) /\ unmerged' = FALSE
           /\ calls' = [calls EXCEPT ![c].step = "ready", ![c].answer = Flags!Idle.answer]
  <2>1. flagOnDisk' \in Flags!ServerFlags
    BY <1>1, <1>4 DEF Flags!Written, FlagCall, Flags!Served
  <2>2. flag' \in Flags!ServerFlags \cup {InitialFlag} /\ flag' # NoFlag
    BY <1>4, FlagConstants DEF Flags!Merged, FlagsInv, FlagsTyped
  <2>3. unmerged' \in BOOLEAN
    BY <1>4
  <2> QED BY <1>3, <1>4, <2>1, <2>2, <2>3
<1>5. CASE /\ unmerged' = TRUE /\ UNCHANGED <<flagOnDisk, flag>>
           /\ calls' = [calls EXCEPT ![c].step = "rejected", ![c].answer = Flags!Idle.answer]
  <2>1. flag' \in Flags!ServerFlags \cup {InitialFlag} /\ flagOnDisk' \in Flags!ServerFlags
    BY <1>5 DEF FlagsInv, FlagsTyped
  <2>2. unmerged' \in BOOLEAN
    BY <1>5
  <2> QED BY <1>3, <1>5, <2>1, <2>2
<1> QED BY <1>4, <1>5 DEF Flags!Stored

LEMMA FetchedKeepsFlags ==
  ASSUME FlagsInv, NEW c \in Starts \cup Rounds, Flags!Fetched(c)
  PROVE  FlagsInv'
<1>1. /\ calls[c] \in FlagCall /\ calls \in [Starts \cup Rounds -> FlagCall]
      /\ calls' = [calls EXCEPT ![c].fetching = FALSE]
      /\ UNCHANGED <<isRunning, lifecycleGeneration, poller, userPoller, listening, flagServer,
                     stops, loading, flag, flagOnDisk, applied, unmerged>>
  BY DEF Flags!Fetched, Flags!cache, FlagsInv, PollingInv, CallsTyped
<1> DEFINE new == [calls[c] EXCEPT !.fetching = FALSE]
<1>2. new \in FlagCall /\ new.step = calls[c].step /\ new.answer = calls[c].answer
      /\ new.generation = calls[c].generation /\ new.stopped = calls[c].stopped
  BY <1>1 DEF FlagCall
<1>3. calls' = [calls EXCEPT ![c] = new]
  BY <1>1
<1> HIDE DEF new
<1>4. PollingInv'
  BY <1>1, <1>2, <1>3, CallGoesOn DEF FlagsInv
<1>5. \A d \in Starts \cup Rounds : /\ calls'[d].step = calls[d].step /\ calls'[d].answer = calls[d].answer
                                    /\ calls'[d].generation = calls[d].generation
  BY <1>1, <1>2, <1>3
<1>6. FlagsTyped'
  BY <1>1 DEF FlagsInv, FlagsTyped
<1>7. AnswersHold'
  BY <1>1, <1>5 DEF FlagsInv, AnswersHold, Current
<1>8. Flags!InitialFlagStays'
  BY <1>1, <1>5 DEF FlagsInv, Flags!InitialFlagStays, Flags!Calls
<1> QED BY <1>4, <1>6, <1>7, <1>8 DEF FlagsInv


LEMMA BoundsAreNat ==
  /\ IsFiniteSet(Started) /\ Cardinality(Started) \in Nat
  /\ IsFiniteSet(Failed) /\ Cardinality(Failed) \in Nat
<1>1. Started \subseteq Starts /\ Failed \subseteq Starts
  BY DEF Started, Failed
<1>2. IsFiniteSet(Started) /\ IsFiniteSet(Failed)
  BY <1>1, FlagConstants, FS_Subset
<1> QED BY <1>2, FS_CardinalityType

\* One more start that was begun, or that failed.
LEMMA GenerationCounted ==
  ASSUME GenerationBound, lifecycleGeneration \in Nat, stops' = stops, NEW c \in Starts,
         lifecycleGeneration' \in {lifecycleGeneration, lifecycleGeneration + 1},
         \/ Started' = Started \cup {c} /\ c \notin Started /\ Failed' = Failed
         \/ Failed' = Failed \cup {c} /\ c \notin Failed /\ Started' = Started
  PROVE  GenerationBound'
<1>1. /\ c \notin Started => Cardinality(Started \cup {c}) = Cardinality(Started) + 1
      /\ c \notin Failed => Cardinality(Failed \cup {c}) = Cardinality(Failed) + 1
  <2>1. c \notin Started => Cardinality(Started \cup {c}) = Cardinality(Started) + 1
    BY BoundsAreNat, FS_AddElement
  <2>2. c \notin Failed => Cardinality(Failed \cup {c}) = Cardinality(Failed) + 1
    BY BoundsAreNat, FS_AddElement
  <2> QED BY <2>1, <2>2
<1>2. stops \in Nat
  BY FlagConstants DEF GenerationBound
<1>3. Cardinality(Started)' = Cardinality(Started') /\ Cardinality(Failed)' = Cardinality(Failed')
  OBVIOUS
<1>4. CASE Started' = Started \cup {c} /\ c \notin Started /\ Failed' = Failed
  <2>1. Cardinality(Started') = Cardinality(Started) + 1 /\ Cardinality(Failed') = Cardinality(Failed)
    BY <1>1, <1>4
  <2> QED BY <1>2, <1>3, <2>1, BoundsAreNat DEF GenerationBound
<1>5. CASE Failed' = Failed \cup {c} /\ c \notin Failed /\ Started' = Started
  <2>1. Cardinality(Failed') = Cardinality(Failed) + 1 /\ Cardinality(Started') = Cardinality(Started)
    BY <1>1, <1>5
  <2> QED BY <1>2, <1>3, <2>1, BoundsAreNat DEF GenerationBound
<1> QED BY <1>4, <1>5

\* The client that was halted has no call of its generation.
LEMMA HaltedHolds ==
  ASSUME PollingInv, Flags!Halt, CallsTyped', GenerationBound', StartsHold',
         \A d \in Starts \cup Rounds :
           /\ calls'[d].generation = calls[d].generation
           /\ calls'[d].step = "idle" <=> calls[d].step = "idle"
  PROVE  PollingInv' /\ \A d \in Starts \cup Rounds : ~Current(d)'
<1>1. /\ lifecycleGeneration' = lifecycleGeneration + 1 /\ lifecycleGeneration \in Nat
      /\ userPoller' = FALSE /\ isRunning' = FALSE
      /\ calls \in [Starts \cup Rounds -> FlagCall]
  BY DEF Flags!Halt, PollingInv, CallsTyped
<1>2. poller' = FALSE
  BY DEF Flags!Halt, PollingInv, Flags!PollersStop
<1>3. \A d \in Starts \cup Rounds :
        calls[d].generation \in Nat /\ calls[d].generation <= lifecycleGeneration
  BY <1>1 DEF PollingInv, GenerationsHold, FlagCall
<1>4. \A d \in Starts \cup Rounds :
        calls'[d].generation <= lifecycleGeneration' /\ calls'[d].generation # lifecycleGeneration'
  BY <1>1, <1>3
<1>5. \A d \in Starts \cup Rounds : ~Current(d)'
  BY <1>4 DEF Current
<1>6. GenerationsHold'
  BY <1>4, <1>5 DEF PollingInv, GenerationsHold
<1>7. Flags!PollersStop' /\ Flags!RunningPolls'
  BY <1>1, <1>2 DEF Flags!PollersStop, Flags!RunningPolls
<1> QED BY <1>5, <1>6, <1>7 DEF PollingInv

LEMMA StopKeepsFlags ==
  ASSUME FlagsInv, Flags!Stop
  PROVE  FlagsInv'
<1>1. /\ calls \in [Starts \cup Rounds -> FlagCall] /\ Flags!Halt
      /\ calls' = [c \in Starts \cup Rounds |-> [calls[c] EXCEPT !.stopped =
                      @ \/ Flags!Outstanding(c) \/ calls[c].step = "done"]]
      /\ stops < MaxStops /\ stops' = stops + 1 /\ lifecycleGeneration \in Nat
      /\ UNCHANGED <<loading, flag, flagOnDisk, applied, unmerged, flagServer>>
  BY DEF Flags!Stop, Flags!cache, Flags!Calls, FlagsInv, PollingInv, CallsTyped
<1>2. ASSUME NEW d \in Starts \cup Rounds
      PROVE  /\ calls'[d] \in FlagCall
             /\ calls'[d].step = calls[d].step /\ calls'[d].answer = calls[d].answer
             /\ calls'[d].generation = calls[d].generation
             /\ Flags!Outstanding(d) \/ calls[d].step = "done" => calls'[d].stopped
  <2> DEFINE b == calls[d].stopped \/ Flags!Outstanding(d) \/ calls[d].step = "done"
  <2>1. b \in BOOLEAN
    OBVIOUS
  <2>2. calls'[d] = [calls[d] EXCEPT !.stopped = b]
    BY <1>1
  <2>3. Flags!Outstanding(d) \/ calls[d].step = "done" => b
    OBVIOUS
  <2>4. calls[d] \in FlagCall
    BY <1>1
  <2> HIDE DEF b
  <2> QED BY <2>1, <2>2, <2>3, <2>4 DEF FlagCall
<1>3. CallsTyped'
  <2>1. calls' = [d \in Starts \cup Rounds |-> calls'[d]]
    BY <1>1
  <2>2. lifecycleGeneration' = lifecycleGeneration + 1
    BY <1>1 DEF Flags!Halt
  <2>3. lifecycleGeneration' \in Nat
    BY <1>1, <2>2
  <2>4. \A d \in Starts \cup Rounds : calls'[d] \in FlagCall
    BY <1>2
  <2>5. calls' \in [Starts \cup Rounds -> FlagCall]
    BY <2>1, <2>4
  <2> QED BY <2>3, <2>5 DEF CallsTyped
<1>4. GenerationBound'
  <2>1. Started' = Started /\ Failed' = Failed
    BY <1>2 DEF Started, Failed
  <2>2. stops \in Nat /\ stops' \in 0..MaxStops /\ lifecycleGeneration' = lifecycleGeneration + 1
    BY <1>1, FlagConstants DEF FlagsInv, PollingInv, GenerationBound, Flags!Halt
  <2> QED BY <1>1, <2>1, <2>2, BoundsAreNat DEF FlagsInv, PollingInv, GenerationBound
<1>5. StartsHold'
  BY <1>2 DEF StartsHold, Flags!Outstanding, Flags!InFlight
<1>6. PollingInv' /\ \A d \in Starts \cup Rounds : ~Current(d)'
  BY <1>1, <1>2, <1>3, <1>4, <1>5, HaltedHolds DEF FlagsInv
<1>7. FlagsTyped'
  <2>1. listening' = FALSE /\ userPoller' = FALSE /\ isRunning' = FALSE
    BY <1>1 DEF Flags!Halt
  <2>2. poller' = FALSE
    BY <1>1 DEF Flags!Halt, FlagsInv, PollingInv, Flags!PollersStop
  <2>3. listening' \in BOOLEAN /\ userPoller' \in BOOLEAN /\ isRunning' \in BOOLEAN
    BY <2>1
  <2>4. poller' \in BOOLEAN
    BY <2>2
  <2> QED BY <1>1, <2>3, <2>4 DEF FlagsInv, FlagsTyped
<1>8. AnswersHold'
  BY <1>1, <1>2, <1>6 DEF FlagsInv, AnswersHold
<1>9. Flags!InitialFlagStays'
  BY <1>1, <1>2 DEF FlagsInv, Flags!InitialFlagStays, Flags!Calls
<1> QED BY <1>6, <1>7, <1>8, <1>9 DEF FlagsInv

LEMMA FailKeepsFlags ==
  ASSUME FlagsInv, NEW c \in Starts, Flags!Fail(c)
  PROVE  FlagsInv'
<1>1. /\ calls \in [Starts \cup Rounds -> FlagCall] /\ calls[c].step = "rejected"
      /\ calls' = [calls EXCEPT ![c].step = "failed", ![c].answer = Flags!Idle.answer]
      /\ lifecycleGeneration \in Nat
      /\ UNCHANGED <<loading, flag, flagOnDisk, applied, unmerged, flagServer, stops>>
  BY DEF Flags!Fail, Flags!cache, FlagsInv, PollingInv, CallsTyped
<1> DEFINE new == [calls[c] EXCEPT !.step = "failed", !.answer = Flags!Idle.answer]
<1>2. new \in FlagCall /\ new.step = "failed"
      /\ new.generation = calls[c].generation /\ new.stopped = calls[c].stopped
  <2>1. Flags!Idle.answer \in Flags!Served /\ calls[c] \in FlagCall
    BY <1>1, IdleCall DEF FlagCall
  <2> QED BY <2>1 DEF FlagCall, Flags!Steps
<1>3. calls' = [calls EXCEPT ![c] = new]
  BY <1>1
<1> HIDE DEF new
<1>4. \A d \in Starts \cup Rounds : d # c => calls'[d] = calls[d]
  BY <1>1, <1>3
<1>5. calls'[c] = new /\ calls' \in [Starts \cup Rounds -> FlagCall]
  BY <1>1, <1>2, <1>3
<1>6. lifecycleGeneration' \in {lifecycleGeneration, lifecycleGeneration + 1}
  BY DEF Flags!Fail, Flags!Halt
<1>7. CallsTyped'
  BY <1>1, <1>5, <1>6 DEF CallsTyped
<1>8. GenerationBound'
  <2>1. Failed' = Failed \cup {c} /\ c \notin Failed /\ Started' = Started
    BY <1>1, <1>2, <1>4, <1>5 DEF Started, Failed
  <2> QED BY <1>1, <1>6, <2>1, GenerationCounted DEF FlagsInv, PollingInv
<1>9. \A d \in Starts \cup Rounds :
        /\ calls'[d].generation = calls[d].generation
        /\ calls'[d].step = "idle" <=> calls[d].step = "idle"
        /\ calls'[d].step = "answered" => d # c
  BY <1>1, <1>2, <1>4, <1>5
<1>10. \A d \in Starts \cup Rounds :
         /\ Flags!Outstanding(d)' => d # c /\ Flags!Outstanding(d)
         /\ Flags!InFlight(d)' => d # c /\ Flags!InFlight(d)
         /\ d # c /\ Flags!Outstanding(d) => Flags!Outstanding(d)'
  BY <1>2, <1>4, <1>5 DEF Flags!Outstanding, Flags!InFlight
<1>11. calls'[c].step # "done" /\ calls[c].step # "idle" /\ Flags!Outstanding(c)
  BY <1>1, <1>2, <1>5 DEF Flags!Outstanding, Flags!InFlight
<1>12. CASE Flags!StopsTheClient(c)
  <2>1. Flags!Halt /\ Current(c)
    BY <1>12 DEF Flags!Fail, Flags!StopsTheClient, Current
  <2>2. StartsHold'
    <3> SUFFICES ASSUME NEW d \in Starts, Flags!Outstanding(d)' \/ calls'[d].step = "done",
                        ~calls'[d].stopped
                 PROVE  FALSE
      BY DEF StartsHold
    <3>1. d # c /\ calls'[d] = calls[d]
      BY <1>4, <1>10, <1>11
    <3>2. (Flags!Outstanding(d) \/ calls[d].step = "done") /\ ~calls[d].stopped
      BY <1>10, <3>1
    <3>3. Current(d) /\ calls[d].step # "idle"
      BY <3>2 DEF FlagsInv, PollingInv, StartsHold, Flags!Outstanding, Flags!InFlight
    <3> QED BY <1>11, <2>1, <3>1, <3>3 DEF FlagsInv, PollingInv, GenerationsHold, Current
  <2>3. PollingInv' /\ \A d \in Starts \cup Rounds : ~Current(d)'
    BY <1>7, <1>8, <1>9, <2>1, <2>2, HaltedHolds DEF FlagsInv
  <2>4. FlagsTyped'
    <3>1. listening' = FALSE /\ userPoller' = FALSE /\ isRunning' = FALSE
      BY <2>1 DEF Flags!Halt
    <3>2. poller' = FALSE
      BY <2>1 DEF Flags!Halt, FlagsInv, PollingInv, Flags!PollersStop
    <3>3. listening' \in BOOLEAN /\ userPoller' \in BOOLEAN /\ isRunning' \in BOOLEAN
      BY <3>1
    <3>4. poller' \in BOOLEAN
      BY <3>2
    <3> QED BY <1>1, <3>3, <3>4 DEF FlagsInv, FlagsTyped
  <2>5. AnswersHold'
    BY <1>1, <1>4, <1>9, <2>3 DEF FlagsInv, AnswersHold
  <2>6. Flags!InitialFlagStays'
    BY <1>1, <1>4 DEF FlagsInv, Flags!InitialFlagStays, Flags!Calls
  <2> QED BY <2>3, <2>4, <2>5, <2>6 DEF FlagsInv
<1>13. CASE ~Flags!StopsTheClient(c)
  <2>1. UNCHANGED <<isRunning, lifecycleGeneration, poller, userPoller, listening>> /\ ~Current(c)
    BY <1>13 DEF Flags!Fail, Flags!StopsTheClient, Current
  <2>2. \A d \in Starts \cup Rounds : Current(d)' <=> Current(d)
    BY <1>9, <2>1 DEF Current
  <2>3. GenerationsHold'
    BY <1>9, <1>10, <2>1, <2>2 DEF FlagsInv, PollingInv, GenerationsHold
  <2>4. StartsHold'
    BY <1>4, <1>10, <1>11, <2>1, <2>2 DEF FlagsInv, PollingInv, StartsHold
  <2>5. Flags!PollersStop'
    BY <2>1 DEF FlagsInv, PollingInv, Flags!PollersStop
  <2>6. Flags!RunningPolls'
    BY <1>9, <1>10, <2>1 DEF FlagsInv, PollingInv, Flags!RunningPolls, Current
  <2>7. FlagsTyped'
    BY <1>1, <2>1 DEF FlagsInv, FlagsTyped
  <2>8. AnswersHold'
    BY <1>1, <1>4, <1>9, <2>2 DEF FlagsInv, AnswersHold
  <2>9. Flags!InitialFlagStays'
    BY <1>1, <1>4 DEF FlagsInv, Flags!InitialFlagStays, Flags!Calls
  <2> QED BY <1>7, <1>8, <2>3, <2>4, <2>5, <2>6, <2>7, <2>8, <2>9 DEF FlagsInv, PollingInv
<1> QED BY <1>12, <1>13


LEMMA AskingIs ==
  ASSUME NEW g \in Nat, NEW b \in BOOLEAN
  PROVE  Flags!Asking(g, b) \in FlagCall /\ Flags!Asking(g, b).step = "asked"
         /\ Flags!Asking(g, b).generation = g
BY IdleCall DEF Flags!Asking, FlagCall, Flags!Steps

LEMMA StartKeepsFlags ==
  ASSUME FlagsInv, NEW c \in Starts, Flags!Start(c)
  PROVE  FlagsInv'
<1>1. /\ calls \in [Starts \cup Rounds -> FlagCall] /\ calls[c].step = "idle"
      /\ isRunning = FALSE /\ isRunning' = TRUE /\ userPoller' = TRUE
      /\ lifecycleGeneration \in Nat /\ lifecycleGeneration' = lifecycleGeneration + 1
      /\ UNCHANGED <<poller, listening, loading, flag, flagOnDisk, applied, unmerged, flagServer,
                     stops>>
  BY DEF Flags!Start, Flags!cache, FlagsInv, PollingInv, CallsTyped, FlagsTyped
<1>2. PICK fetchOnStart \in BOOLEAN :
        calls' = [calls EXCEPT ![c] = Flags!Asking(lifecycleGeneration', fetchOnStart)]
  BY DEF Flags!Start
<1> DEFINE new == Flags!Asking(lifecycleGeneration', fetchOnStart)
<1>3. new \in FlagCall /\ new.step = "asked" /\ new.generation = lifecycleGeneration'
  <2>1. lifecycleGeneration' \in Nat
    BY <1>1
  <2> QED BY <2>1, AskingIs
<1> HIDE DEF new
<1>4. calls' \in [Starts \cup Rounds -> FlagCall] /\ calls'[c] = new
      /\ \A d \in Starts \cup Rounds : d # c => calls'[d] = calls[d]
  BY <1>1, <1>2, <1>3 DEF new
<1>5. CallsTyped'
  BY <1>1, <1>4 DEF CallsTyped
<1>6. GenerationBound'
  <2>1. Started' = Started \cup {c} /\ c \notin Started /\ Failed' = Failed
    BY <1>1, <1>3, <1>4 DEF Started, Failed
  <2> QED BY <1>1, <2>1, GenerationCounted DEF FlagsInv, PollingInv
<1>7. \A d \in Starts \cup Rounds : d # c =>
        calls[d].generation \in Nat /\ calls[d].generation < lifecycleGeneration'
  <2> SUFFICES ASSUME NEW d \in Starts \cup Rounds
               PROVE  calls[d].generation \in Nat /\ calls[d].generation < lifecycleGeneration'
    OBVIOUS
  <2>1. calls[d].generation \in Nat
    BY <1>1 DEF FlagCall
  <2>2. calls[d].generation <= lifecycleGeneration
    BY DEF FlagsInv, PollingInv, GenerationsHold
  <2> QED BY <1>1, <2>1, <2>2
<1>8. \A d \in Starts \cup Rounds : d # c => ~Current(d)' /\ calls'[d].generation # lifecycleGeneration'
  BY <1>4, <1>7 DEF Current
<1>9. poller = FALSE /\ poller' = FALSE
  <2>1. poller \in BOOLEAN /\ ~poller
    BY <1>1 DEF FlagsInv, FlagsTyped, PollingInv, Flags!PollersStop
  <2> QED BY <1>1, <2>1
<1>10. c \notin Rounds
  BY FlagConstants
<1>11. GenerationsHold'
  <2>1. \A d \in Starts \cup Rounds : calls'[d].generation <= lifecycleGeneration'
    BY <1>1, <1>3, <1>4, <1>7
  <2>2. \A d, e \in Starts : calls'[d].step # "idle" /\ calls'[e].step # "idle"
                             /\ calls'[d].generation = calls'[e].generation => d = e
    BY <1>3, <1>4, <1>8 DEF FlagsInv, PollingInv, GenerationsHold
  <2>3. \A r \in Rounds : ~Current(r)'
    BY <1>8, <1>10
  <2> QED BY <1>9, <2>1, <2>2, <2>3 DEF GenerationsHold
<1>12. StartsHold'
  <2>1. Current(c)' /\ isRunning'
    BY <1>1, <1>3, <1>4 DEF Current
  <2>2. ASSUME NEW d \in Starts, d # c, Flags!Outstanding(d)' \/ calls'[d].step = "done",
               ~calls'[d].stopped
        PROVE  FALSE
    <3>1. calls'[d] = calls[d]
      BY <1>4, <2>2
    <3>2. (Flags!Outstanding(d) \/ calls[d].step = "done") /\ ~calls[d].stopped
      BY <2>2, <3>1 DEF Flags!Outstanding, Flags!InFlight
    <3> QED BY <1>1, <3>2 DEF FlagsInv, PollingInv, StartsHold
  <2> QED BY <2>1, <2>2 DEF StartsHold
<1>13. Flags!PollersStop' /\ Flags!RunningPolls'
  <2>1. Flags!PollersStop'
    BY <1>1 DEF Flags!PollersStop
  <2>2. Flags!Outstanding(c)' /\ calls'[c].generation = lifecycleGeneration'
    BY <1>3, <1>4 DEF Flags!Outstanding, Flags!InFlight
  <2> QED BY <2>1, <2>2 DEF Flags!RunningPolls
<1>14. FlagsTyped'
  <2>1. isRunning' \in BOOLEAN
    BY <1>1
  <2>2. userPoller' \in BOOLEAN
    BY <1>1
  <2> QED BY <1>1, <2>1, <2>2 DEF FlagsInv, FlagsTyped
<1>15. AnswersHold'
  <2>1. \A d \in Starts \cup Rounds : calls'[d].step = "answered" => d # c
    BY <1>3, <1>4
  <2> QED BY <1>1, <1>4, <1>8, <2>1 DEF FlagsInv, AnswersHold
<1>16. Flags!InitialFlagStays'
  <2>1. \A d \in Starts \cup Rounds : calls[d].step = "storing" => calls'[d].step = "storing"
    BY <1>1, <1>4
  <2> QED BY <1>1, <2>1 DEF FlagsInv, Flags!InitialFlagStays, Flags!Calls
<1> QED BY <1>5, <1>6, <1>11, <1>12, <1>13, <1>14, <1>15, <1>16 DEF FlagsInv, PollingInv

\* A round that the poller begins; a start may end with it.
LEMMA RoundBegins ==
  ASSUME FlagsInv, NEW r \in Flags!FreeRounds, poller' = TRUE, isRunning = TRUE,
         \A d \in Rounds : Flags!InFlight(d) => ~Current(d),
         UNCHANGED <<isRunning, lifecycleGeneration, userPoller, listening, loading, flag,
                     flagOnDisk, applied, unmerged, flagServer, stops>>,
         CallsTyped', calls'[r].step = "asked", Current(r)',
         \A d \in Starts \cup Rounds : d # r =>
            \/ calls'[d] = calls[d]
            \/ /\ d \in Starts /\ Current(d) /\ calls[d].step = "ready" /\ calls'[d].step = "done"
               /\ calls'[d].generation = calls[d].generation
               /\ calls'[d].stopped = calls[d].stopped,
         \A d \in Starts : ~ (Current(d)' /\ Flags!Outstanding(d)')
  PROVE  FlagsInv'
<1>1. r \in Rounds /\ calls[r].step = "idle" /\ r \notin Starts
  BY FlagConstants DEF Flags!FreeRounds
<1>2. calls \in [Starts \cup Rounds -> FlagCall] /\ lifecycleGeneration \in Nat
  BY DEF FlagsInv, PollingInv, CallsTyped
<1>3. \A d \in Starts : /\ calls'[d].generation = calls[d].generation
                        /\ calls'[d].stopped = calls[d].stopped
                        /\ calls'[d].step = "idle" <=> calls[d].step = "idle"
                        /\ calls'[d].step = "failed" <=> calls[d].step = "failed"
                        /\ Current(d)' <=> Current(d)
  BY <1>1 DEF Current
<1>4. \A d \in Rounds : d # r => calls'[d] = calls[d] /\ (Current(d)' <=> Current(d))
  BY FlagConstants DEF Current
<1>5. \A d \in Starts : Flags!Outstanding(d)' \/ calls'[d].step = "done" =>
                          Flags!Outstanding(d) \/ calls[d].step = "done"
  <2> SUFFICES ASSUME NEW d \in Starts, Flags!Outstanding(d)' \/ calls'[d].step = "done"
               PROVE  Flags!Outstanding(d) \/ calls[d].step = "done"
    OBVIOUS
  <2>1. CASE calls'[d] = calls[d]
    BY <2>1 DEF Flags!Outstanding, Flags!InFlight
  <2>2. CASE calls[d].step = "ready"
    BY <2>2 DEF Flags!Outstanding
  <2> QED BY <1>1, <2>1, <2>2
<1>6. GenerationBound'
  <2>1. Started' = Started /\ Failed' = Failed
    BY <1>3 DEF Started, Failed
  <2> QED BY <2>1 DEF FlagsInv, PollingInv, GenerationBound
<1>7. GenerationsHold'
  <2>1. \A d \in Starts \cup Rounds : calls'[d].generation <= lifecycleGeneration'
    BY <1>2, <1>3, <1>4 DEF FlagsInv, PollingInv, GenerationsHold, Current
  <2>2. \A d, e \in Starts : calls'[d].step # "idle" /\ calls'[e].step # "idle"
                             /\ calls'[d].generation = calls'[e].generation => d = e
    BY <1>3 DEF FlagsInv, PollingInv, GenerationsHold
  <2>3. \A d \in Rounds : d # r /\ Flags!InFlight(d)' => ~Current(d)'
    BY <1>4 DEF Flags!InFlight
  <2> QED BY <2>1, <2>2, <2>3 DEF GenerationsHold
<1>8. StartsHold'
  BY <1>3, <1>5 DEF FlagsInv, PollingInv, StartsHold
<1>9. Flags!PollersStop' /\ Flags!RunningPolls'
  BY DEF Flags!PollersStop, Flags!RunningPolls
<1>10. FlagsTyped'
  <2>1. poller' \in BOOLEAN
    OBVIOUS
  <2> QED BY <2>1 DEF FlagsInv, FlagsTyped
<1>11. \A d \in Starts \cup Rounds :
         /\ calls'[d].step = "answered" => calls'[d] = calls[d] /\ (Current(d)' <=> Current(d))
         /\ calls[d].step = "storing" => calls'[d].step = "storing"
  <2> SUFFICES ASSUME NEW d \in Starts \cup Rounds
               PROVE  /\ calls'[d].step = "answered" => calls'[d] = calls[d] /\ (Current(d)' <=> Current(d))
                      /\ calls[d].step = "storing" => calls'[d].step = "storing"
    OBVIOUS
  <2>1. CASE d = r
    BY <1>1, <2>1
  <2>2. CASE d # r /\ calls'[d] = calls[d]
    BY <2>2 DEF Current
  <2>3. CASE d # r /\ calls'[d].step = "done" /\ calls[d].step = "ready"
    BY <2>3
  <2> QED BY <2>1, <2>2, <2>3
<1>12. AnswersHold'
  BY <1>11 DEF FlagsInv, AnswersHold
<1>13. Flags!InitialFlagStays'
  BY <1>11 DEF FlagsInv, Flags!InitialFlagStays, Flags!Calls
<1> QED BY <1>6, <1>7, <1>8, <1>9, <1>10, <1>12, <1>13 DEF FlagsInv, PollingInv

LEMMA BegunIs ==
  ASSUME lifecycleGeneration \in Nat
  PROVE  Flags!Begun \in FlagCall /\ Flags!Begun.step = "asked"
         /\ Flags!Begun.generation = lifecycleGeneration
BY AskingIs DEF Flags!Begun

LEMMA TickKeepsFlags ==
  ASSUME FlagsInv, NEW r \in Rounds, Flags!Tick(r)
  PROVE  FlagsInv'
<1>1. /\ calls \in [Starts \cup Rounds -> FlagCall] /\ r \in Flags!FreeRounds /\ poller
      /\ calls' = [calls EXCEPT ![r] = Flags!Begun] /\ lifecycleGeneration \in Nat
      /\ UNCHANGED <<isRunning, lifecycleGeneration, poller, userPoller, listening, loading, flag,
                     flagOnDisk, applied, unmerged, flagServer, stops>>
  BY DEF Flags!Tick, Flags!Due, Flags!cache, FlagsInv, PollingInv, CallsTyped
<1>2. poller \in BOOLEAN /\ isRunning \in BOOLEAN /\ isRunning
  BY <1>1 DEF FlagsInv, FlagsTyped, PollingInv, Flags!PollersStop
<1>3. poller' = TRUE /\ isRunning = TRUE
  BY <1>1, <1>2
<1>4. \A d \in Rounds : Flags!InFlight(d) => ~Current(d)
  BY DEF Flags!Tick, Flags!Due, Current
<1>5. /\ calls' \in [Starts \cup Rounds -> FlagCall] /\ calls'[r] = Flags!Begun
      /\ \A d \in Starts \cup Rounds : d # r => calls'[d] = calls[d]
  BY <1>1, BegunIs
<1>6. CallsTyped' /\ calls'[r].step = "asked" /\ Current(r)'
  BY <1>1, <1>5, BegunIs DEF CallsTyped, Current
<1>7. \A d \in Starts : ~ (Current(d)' /\ Flags!Outstanding(d)')
  <2> SUFFICES ASSUME NEW d \in Starts, Current(d)', Flags!Outstanding(d)' PROVE FALSE
    OBVIOUS
  <2>1. calls'[d] = calls[d]
    BY <1>5, FlagConstants
  <2>2. Current(d) /\ Flags!Outstanding(d)
    BY <1>1, <2>1 DEF Current, Flags!Outstanding, Flags!InFlight
  <2> QED BY <1>1, <2>2 DEF FlagsInv, PollingInv, GenerationsHold
<1> QED BY <1>1, <1>3, <1>4, <1>5, <1>6, <1>7, RoundBegins


LEMMA ResumeKeepsFlags ==
  ASSUME FlagsInv, NEW c \in Starts, Flags!Resume(c)
  PROVE  FlagsInv'
<1>1. /\ calls \in [Starts \cup Rounds -> FlagCall] /\ calls[c].step = "ready"
      /\ lifecycleGeneration \in Nat
      /\ UNCHANGED <<isRunning, lifecycleGeneration, userPoller, listening, loading, flag,
                     flagOnDisk, applied, unmerged, flagServer, stops>>
  BY DEF Flags!Resume, Flags!cache, FlagsInv, PollingInv, CallsTyped
<1> DEFINE new == [calls[c] EXCEPT !.step = "done"]
<1>2. new \in FlagCall /\ new.step = "done"
      /\ new.generation = calls[c].generation /\ new.stopped = calls[c].stopped
  <2>1. calls[c] \in FlagCall
    BY <1>1
  <2> QED BY <2>1 DEF FlagCall, Flags!Steps
<1>3. CASE Flags!MayPoll(c)
  <2>1. /\ Current(c) /\ isRunning /\ ~poller /\ poller' = TRUE
        /\ isRunning \in BOOLEAN
    BY <1>3 DEF Flags!Resume, Flags!MayPoll, Flags!IsCurrent, Current, FlagsInv, FlagsTyped
  <2>2. PICK r \in Flags!FreeRounds :
          calls' = [calls EXCEPT ![c].step = "done", ![r] = Flags!Begun]
    BY <1>3 DEF Flags!Resume
  <2>3. r \in Rounds /\ r # c /\ calls[r].step = "idle"
    BY FlagConstants DEF Flags!FreeRounds
  <2>4. /\ calls' \in [Starts \cup Rounds -> FlagCall]
        /\ calls'[r] = Flags!Begun /\ calls'[c] = new
        /\ \A d \in Starts \cup Rounds : d # r /\ d # c => calls'[d] = calls[d]
    <3>1. calls' = [calls EXCEPT ![c] = new, ![r] = Flags!Begun]
      BY <1>1, <2>2
    <3> HIDE DEF new
    <3> QED BY <1>1, <1>2, <2>3, <3>1, BegunIs
  <2>5. CallsTyped' /\ calls'[r].step = "asked" /\ Current(r)'
    BY <1>1, <2>4, BegunIs DEF CallsTyped, Current
  <2>6. \A d \in Rounds : Flags!InFlight(d) => ~Current(d)
    BY <2>1 DEF FlagsInv, PollingInv, GenerationsHold, Flags!InFlight
  <2>7. \A d \in Starts : ~ (Current(d)' /\ Flags!Outstanding(d)')
    <3> SUFFICES ASSUME NEW d \in Starts, Current(d)', Flags!Outstanding(d)' PROVE FALSE
      OBVIOUS
    <3>1. d # c
      BY <1>2, <2>4 DEF Flags!Outstanding, Flags!InFlight
    <3>2. calls'[d] = calls[d]
      BY <2>3, <2>4, <3>1, FlagConstants
    <3>3. calls[d].generation = calls[c].generation /\ calls[d].step # "idle"
      BY <1>1, <2>1, <3>2 DEF Current, Flags!Outstanding, Flags!InFlight
    <3> QED BY <1>1, <3>1, <3>3 DEF FlagsInv, PollingInv, GenerationsHold
  <2>8. isRunning = TRUE
    BY <2>1
  <2> HIDE DEF new
  <2> QED BY <1>1, <1>2, <2>1, <2>2, <2>4, <2>5, <2>6, <2>7, <2>8, RoundBegins
<1>4. CASE ~Flags!MayPoll(c)
  <2>1. calls' = [calls EXCEPT ![c] = new] /\ poller' = poller
    BY <1>1, <1>4 DEF Flags!Resume
  <2> HIDE DEF new
  <2>2. /\ calls' \in [Starts \cup Rounds -> FlagCall] /\ calls'[c] = new
        /\ \A d \in Starts \cup Rounds : d # c => calls'[d] = calls[d]
    BY <1>1, <1>2, <2>1
  <2>3. \A d \in Starts \cup Rounds :
          /\ calls'[d].generation = calls[d].generation /\ calls'[d].stopped = calls[d].stopped
          /\ calls'[d].step = "idle" <=> calls[d].step = "idle"
          /\ calls'[d].step = "failed" <=> calls[d].step = "failed"
          /\ calls'[d].step = "answered" => d # c
          /\ calls'[d].step = "storing" <=> calls[d].step = "storing"
          /\ Current(d)' <=> Current(d)
    BY <1>1, <1>2, <2>2 DEF Current
  <2>4. \A d \in Starts \cup Rounds :
          /\ Flags!InFlight(d)' <=> Flags!InFlight(d)
          /\ Flags!Outstanding(d)' <=> Flags!Outstanding(d) /\ d # c
    BY <1>1, <1>2, <2>2 DEF Flags!InFlight, Flags!Outstanding
  <2>5. CallsTyped'
    BY <1>1, <2>2 DEF CallsTyped
  <2>6. GenerationBound'
    <3>1. Started' = Started /\ Failed' = Failed
      BY <2>3 DEF Started, Failed
    <3> QED BY <1>1, <3>1 DEF FlagsInv, PollingInv, GenerationBound
  <2>7. GenerationsHold'
    BY <1>1, <2>1, <2>3, <2>4 DEF FlagsInv, PollingInv, GenerationsHold
  <2>8. StartsHold'
    <3>1. Flags!Outstanding(c)
      BY <1>1 DEF Flags!Outstanding
    <3>2. \A d \in Starts : Flags!Outstanding(d)' \/ calls'[d].step = "done" =>
                              Flags!Outstanding(d) \/ calls[d].step = "done"
      BY <2>2, <2>4, <3>1
    <3> QED BY <1>1, <2>3, <3>2 DEF FlagsInv, PollingInv, StartsHold
  <2>9. Flags!PollersStop'
    BY <1>1, <2>1 DEF FlagsInv, PollingInv, Flags!PollersStop
  <2>10. Flags!RunningPolls'
    <3>1. isRunning /\ Current(c) => poller
      BY <1>4 DEF Flags!MayPoll, Flags!IsCurrent, Current
    <3> QED BY <1>1, <2>1, <2>3, <2>4, <3>1 DEF FlagsInv, PollingInv, Flags!RunningPolls, Current
  <2>11. FlagsTyped'
    BY <1>1, <2>1 DEF FlagsInv, FlagsTyped
  <2>12. AnswersHold'
    BY <1>1, <2>2, <2>3 DEF FlagsInv, AnswersHold
  <2>13. Flags!InitialFlagStays'
    BY <1>1, <2>3 DEF FlagsInv, Flags!InitialFlagStays, Flags!Calls
  <2> QED BY <2>5, <2>6, <2>7, <2>8, <2>9, <2>10, <2>11, <2>12, <2>13 DEF FlagsInv, PollingInv
<1> QED BY <1>3, <1>4

LEMMA EndRoundKeepsFlags ==
  ASSUME FlagsInv, NEW r \in Rounds, Flags!EndRound(r)
  PROVE  FlagsInv'
<1>1. /\ calls \in [Starts \cup Rounds -> FlagCall] /\ calls[r].step \in {"ready", "rejected"}
      /\ lifecycleGeneration \in Nat /\ calls' = [calls EXCEPT ![r] = Flags!Idle]
      /\ UNCHANGED <<isRunning, lifecycleGeneration, poller, userPoller, listening, loading, flag,
                     flagOnDisk, applied, unmerged, flagServer, stops>>
  BY DEF Flags!EndRound, Flags!EndsTheRound, Flags!cache, FlagsInv, PollingInv, CallsTyped
<1>2. /\ calls' \in [Starts \cup Rounds -> FlagCall] /\ calls'[r] = Flags!Idle
      /\ \A d \in Starts \cup Rounds : d # r => calls'[d] = calls[d]
      /\ \A d \in Starts : calls'[d] = calls[d]
  BY <1>1, IdleCall, FlagConstants
<1>3. \A d \in Starts : Flags!Outstanding(d)' <=> Flags!Outstanding(d)
  BY <1>2 DEF Flags!Outstanding, Flags!InFlight
<1>4. \A d \in Rounds : /\ Flags!InFlight(d)' => calls'[d] = calls[d] /\ Flags!InFlight(d)
                        /\ calls'[d].step # "idle" => calls'[d] = calls[d]
  BY <1>2, IdleCall DEF Flags!InFlight
<1>5. CallsTyped'
  BY <1>1, <1>2 DEF CallsTyped
<1>6. GenerationBound'
  <2>1. Started' = Started /\ Failed' = Failed
    BY <1>2 DEF Started, Failed
  <2> QED BY <1>1, <2>1 DEF FlagsInv, PollingInv, GenerationBound
<1>7. GenerationsHold'
  <2>1. \A d \in Starts \cup Rounds : calls'[d].generation <= lifecycleGeneration'
    BY <1>1, <1>2, IdleCall DEF FlagsInv, PollingInv, GenerationsHold
  <2>2. \A d, e \in Starts : calls'[d].step # "idle" /\ calls'[e].step # "idle"
                             /\ calls'[d].generation = calls'[e].generation => d = e
    BY <1>2 DEF FlagsInv, PollingInv, GenerationsHold
  <2>3. \A d \in Rounds : calls'[d].step # "idle" /\ Current(d)' => poller'
    BY <1>1, <1>4 DEF FlagsInv, PollingInv, GenerationsHold, Current
  <2>4. \A d \in Starts : Flags!Outstanding(d)' /\ Current(d)' => ~poller'
    BY <1>1, <1>2, <1>3 DEF FlagsInv, PollingInv, GenerationsHold, Current
  <2>5. \A d, e \in Rounds : Flags!InFlight(d)' /\ Current(d)' /\ Flags!InFlight(e)' /\ Current(e)'
                               => d = e
    BY <1>1, <1>4 DEF FlagsInv, PollingInv, GenerationsHold, Current
  <2> QED BY <2>1, <2>2, <2>3, <2>4, <2>5 DEF GenerationsHold
<1>8. StartsHold'
  BY <1>1, <1>2, <1>3 DEF FlagsInv, PollingInv, StartsHold, Current
<1>9. Flags!PollersStop' /\ Flags!RunningPolls'
  BY <1>1, <1>2, <1>3 DEF FlagsInv, PollingInv, Flags!PollersStop, Flags!RunningPolls
<1>10. FlagsTyped'
  BY <1>1 DEF FlagsInv, FlagsTyped
<1>11. \A d \in Starts \cup Rounds : /\ calls'[d].step = "answered" => calls'[d] = calls[d]
                                     /\ calls[d].step = "storing" => calls'[d] = calls[d]
  BY <1>1, <1>2, IdleCall
<1>12. AnswersHold'
  BY <1>1, <1>11 DEF FlagsInv, AnswersHold, Current
<1>13. Flags!InitialFlagStays'
  BY <1>1, <1>11 DEF FlagsInv, Flags!InitialFlagStays, Flags!Calls
<1> QED BY <1>5, <1>6, <1>7, <1>8, <1>9, <1>10, <1>12, <1>13 DEF FlagsInv, PollingInv

\* The load of the cache and what the server publishes leave the client alone.
LEMMA SurroundingsKeepFlags ==
  ASSUME FlagsInv, Flags!ReadFlags \/ Flags!Load \/ Flags!Publish
  PROVE  FlagsInv'
<1>1. UNCHANGED <<isRunning, lifecycleGeneration, poller, userPoller, listening, calls, flagOnDisk,
                  applied, stops>>
  BY DEF Flags!ReadFlags, Flags!Load, Flags!Publish, Flags!client, Flags!cache
<1>2. PollingInv'
  <2>1. CallsTyped' /\ GenerationBound'
    BY <1>1 DEF FlagsInv, PollingInv, CallsTyped, GenerationBound, Started, Failed
  <2>2. GenerationsHold' /\ StartsHold'
    BY <1>1 DEF FlagsInv, PollingInv, GenerationsHold, StartsHold, Current, Flags!InFlight,
                Flags!Outstanding
  <2>3. Flags!PollersStop' /\ Flags!RunningPolls'
    BY <1>1 DEF FlagsInv, PollingInv, Flags!PollersStop, Flags!RunningPolls, Flags!InFlight,
                Flags!Outstanding
  <2> QED BY <2>1, <2>2, <2>3 DEF PollingInv
<1>3. CASE Flags!Load
  <2>1. /\ loading.found \in Flags!ServerFlags
        /\ loading' = [step |-> "ended", found |-> NoFlag] /\ flagServer' = flagServer
        /\ flag' \in {Flags!Loaded, InitialFlag} /\ unmerged' = FALSE
    BY <1>3 DEF Flags!Load, FlagsInv, FlagsTyped, FlagLoad
  <2>2. flag' \in Flags!ServerFlags \cup {InitialFlag} /\ flag' # NoFlag
    BY <2>1, FlagConstants DEF Flags!Loaded
  <2>3. loading' \in FlagLoad
    BY <2>1 DEF FlagLoad, Flags!ServerFlags
  <2>4. unmerged' \in BOOLEAN
    BY <2>1
  <2>5. FlagsTyped'
    BY <1>1, <2>1, <2>2, <2>3, <2>4 DEF FlagsInv, FlagsTyped
  <2>6. AnswersHold'
    BY <1>1, <2>1 DEF FlagsInv, AnswersHold, Current
  <2>7. Flags!InitialFlagStays'
    BY <2>2 DEF Flags!InitialFlagStays
  <2> QED BY <1>2, <2>5, <2>6, <2>7 DEF FlagsInv
<1>4. CASE Flags!ReadFlags
  <2>1. flag' = flag /\ flagServer' = flagServer
    BY <1>4 DEF Flags!ReadFlags
  <2>2. flagOnDisk \in Flags!ServerFlags /\ NoFlag \in Flags!ServerFlags
    BY DEF FlagsInv, FlagsTyped, Flags!ServerFlags
  <2>3. AnswersHold'
    BY <1>1, <2>1 DEF FlagsInv, AnswersHold, Current
  <2>4. CASE loading' = [step |-> "read", found |-> flagOnDisk] /\ unmerged' = unmerged
    <3>1. loading' \in FlagLoad /\ loading'.step = "read"
      BY <2>2, <2>4 DEF FlagLoad
    <3>2. FlagsTyped'
      BY <1>1, <2>1, <2>4, <3>1 DEF FlagsInv, FlagsTyped
    <3>3. Flags!InitialFlagStays'
      BY <3>1 DEF Flags!InitialFlagStays
    <3> QED BY <1>2, <2>3, <3>2, <3>3 DEF FlagsInv
  <2>5. CASE /\ loading' = [step |-> "ended", found |-> NoFlag]
             /\ unmerged' = (unmerged \/ flag = NoFlag)
    <3>1. loading' \in FlagLoad
      BY <2>2, <2>5 DEF FlagLoad
    <3>2. unmerged' \in BOOLEAN
      BY <2>5
    <3>3. FlagsTyped'
      BY <1>1, <2>1, <3>1, <3>2 DEF FlagsInv, FlagsTyped
    <3>4. Flags!InitialFlagStays'
      BY <2>1, <2>5 DEF Flags!InitialFlagStays
    <3> QED BY <1>2, <2>3, <3>3, <3>4 DEF FlagsInv
  <2> QED BY <1>4, <2>4, <2>5 DEF Flags!ReadFlags
<1>5. CASE Flags!Publish
  <2>1. flagServer \in Flags!Served /\ flagServer.version < MaxVersions
        /\ UNCHANGED <<loading, flag, unmerged>> /\ flagServer.version \in Nat
    BY <1>5, FlagConstants DEF Flags!Publish, Flags!cache, FlagsInv, FlagsTyped, Flags!Served
  <2>2. PICK f \in {flagServer.version + 1, NoFlag} :
          flagServer' = [version |-> flagServer.version + 1, flag |-> f]
    BY <1>5 DEF Flags!Publish
  <2>3. flagServer' \in Flags!Served /\ flagServer'.version = flagServer.version + 1
    BY <2>1, <2>2, FlagConstants DEF Flags!Served, Flags!ServerFlags
  <2>4. FlagsTyped'
    BY <1>1, <2>1, <2>3 DEF FlagsInv, FlagsTyped
  <2>5. AnswersHold'
    <3>1. \A d \in Starts \cup Rounds : calls[d].answer.version \in Nat
      BY FlagConstants DEF FlagsInv, PollingInv, CallsTyped, FlagCall, Flags!Served
    <3>2. applied \in Nat
      BY FlagConstants DEF FlagsInv, FlagsTyped
    <3> QED BY <1>1, <2>1, <2>3, <3>1, <3>2 DEF FlagsInv, AnswersHold, Current
  <2>6. Flags!InitialFlagStays'
    BY <1>1, <2>1 DEF FlagsInv, Flags!InitialFlagStays
  <2> QED BY <1>2, <2>4, <2>5, <2>6 DEF FlagsInv
<1> QED BY <1>3, <1>4, <1>5

\* A client that was just made.
LEMMA NewClient ==
  ASSUME isRunning = FALSE, lifecycleGeneration = 0, poller = FALSE, userPoller = FALSE,
         calls = [c \in Flags!Calls |-> Flags!Idle], stops \in 0 .. MaxStops
  PROVE  PollingInv
<1>1. CallsTyped
  BY IdleCall DEF CallsTyped, Flags!Calls
<1>2. \A d \in Starts \cup Rounds : calls[d].step = "idle" /\ calls[d].generation = 0
                                    /\ ~Flags!Outstanding(d) /\ ~Flags!InFlight(d)
  BY IdleCall DEF Flags!Calls, Flags!Outstanding, Flags!InFlight
<1>3. GenerationBound
  <2>1. Cardinality(Started) \in Nat /\ Cardinality(Failed) \in Nat /\ stops \in Nat
    BY BoundsAreNat, FlagConstants
  <2> QED BY <2>1 DEF GenerationBound
<1>4. GenerationsHold /\ StartsHold
  BY <1>2 DEF GenerationsHold, StartsHold
<1> QED BY <1>1, <1>3, <1>4 DEF PollingInv, Flags!PollersStop, Flags!RunningPolls

LEMMA InitKeepsFlags == Flags!Init => FlagsInv
<1> SUFFICES ASSUME Flags!Init PROVE FlagsInv
  OBVIOUS
<1>1. PollingInv
  <2>1. /\ isRunning = FALSE /\ lifecycleGeneration = 0 /\ poller = FALSE /\ userPoller = FALSE
        /\ calls = [c \in Flags!Calls |-> Flags!Idle] /\ stops = 0
    BY DEF Flags!Init
  <2>2. stops \in 0 .. MaxStops
    BY <2>1, FlagConstants
  <2> QED BY <2>1, <2>2, NewClient
<1>2. flagServer \in Flags!Served /\ applied \in 0..MaxVersions
      /\ flag \in Flags!ServerFlags /\ flagOnDisk \in Flags!ServerFlags
  BY FlagConstants DEF Flags!Init, Flags!Served, Flags!ServerFlags
<1>3. FlagsTyped
  <2>1. /\ isRunning = FALSE /\ poller = FALSE /\ userPoller = FALSE /\ listening = TRUE
        /\ loading = Flags!NotLoaded /\ unmerged = FALSE
    BY DEF Flags!Init
  <2>2. isRunning \in BOOLEAN /\ poller \in BOOLEAN /\ userPoller \in BOOLEAN
    BY <2>1
  <2>3. listening \in BOOLEAN /\ loading \in FlagLoad /\ unmerged \in BOOLEAN
    BY <2>1 DEF Flags!NotLoaded, FlagLoad, Flags!ServerFlags
  <2> QED BY <1>2, <2>2, <2>3 DEF FlagsTyped
<1>4. AnswersHold
  BY IdleCall DEF AnswersHold, Flags!Init, Flags!Calls
<1>5. Flags!InitialFlagStays
  BY DEF Flags!Init, Flags!InitialFlagStays, Flags!NotLoaded
<1> QED BY <1>1, <1>3, <1>4, <1>5 DEF FlagsInv


LEMMA DieKeepsFlags == ASSUME FlagsInv, Flags!Die PROVE FlagsInv'
<1>1. /\ isRunning' = FALSE /\ lifecycleGeneration' = 0 /\ poller' = FALSE /\ userPoller' = FALSE
      /\ listening' = TRUE /\ calls' = [c \in Flags!Calls |-> Flags!Idle]
      /\ loading' = Flags!NotLoaded /\ flag' = NoFlag /\ applied' = 0 /\ unmerged' = FALSE
      /\ UNCHANGED <<flagOnDisk, flagServer, stops>>
  BY DEF Flags!Die
<1>2. CallsTyped'
  BY <1>1, IdleCall DEF CallsTyped, Flags!Calls
<1>3. \A d \in Starts \cup Rounds :
        calls'[d].step = "idle" /\ calls'[d].generation = 0 /\ ~Flags!Outstanding(d)'
        /\ ~Flags!InFlight(d)'
  BY <1>1, IdleCall DEF Flags!Calls, Flags!Outstanding, Flags!InFlight
<1>4. GenerationBound'
  <2>1. Started' = {} /\ Failed' = {}
    BY <1>3 DEF Started, Failed
  <2>2. Cardinality(Started)' = 0 /\ Cardinality(Failed)' = 0
    BY <2>1, FS_EmptySet
  <2>3. stops \in Nat
    BY FlagConstants DEF FlagsInv, PollingInv, GenerationBound
  <2> QED BY <1>1, <2>2, <2>3 DEF FlagsInv, PollingInv, GenerationBound
<1>5. GenerationsHold' /\ StartsHold'
  BY <1>1, <1>3 DEF GenerationsHold, StartsHold
<1>6. Flags!PollersStop' /\ Flags!RunningPolls'
  BY <1>1 DEF Flags!PollersStop, Flags!RunningPolls
<1>7. FlagsTyped'
  <2>1. isRunning' \in BOOLEAN /\ poller' \in BOOLEAN /\ userPoller' \in BOOLEAN
    BY <1>1
  <2>2. listening' \in BOOLEAN /\ loading' \in FlagLoad /\ unmerged' \in BOOLEAN
    BY <1>1 DEF Flags!NotLoaded, FlagLoad, Flags!ServerFlags
  <2>3. applied' \in 0..MaxVersions /\ flag' \in Flags!ServerFlags
    BY <1>1, FlagConstants DEF Flags!ServerFlags
  <2> QED BY <1>1, <2>1, <2>2, <2>3 DEF FlagsInv, FlagsTyped
<1>8. AnswersHold'
  <2>1. flagServer.version \in Nat
    BY FlagConstants DEF FlagsInv, FlagsTyped, Flags!Served
  <2> QED BY <1>1, <1>3, <2>1 DEF AnswersHold
<1>9. Flags!InitialFlagStays'
  BY <1>1 DEF Flags!InitialFlagStays, Flags!NotLoaded
<1> QED BY <1>2, <1>4, <1>5, <1>6, <1>7, <1>8, <1>9 DEF FlagsInv, PollingInv

LEMMA FlagsInvSuffices ==
  ASSUME FlagsInv
  PROVE  /\ Flags!TypeOK /\ Flags!PollersStop /\ Flags!RunningPolls
         /\ Flags!StartHolds /\ Flags!InitialFlagStays
<1>1. Flags!PollersStop /\ Flags!RunningPolls /\ Flags!InitialFlagStays
  BY DEF FlagsInv, PollingInv
<1>2. Flags!StartHolds
  BY DEF FlagsInv, PollingInv, StartsHold, Flags!StartHolds
<1>3. /\ {isRunning, poller, userPoller, listening, unmerged} \subseteq BOOLEAN
      /\ loading \in [step : {"asked", "read", "ended"}, found : Flags!ServerFlags]
  BY DEF FlagsInv, FlagsTyped, FlagLoad
<1>4. calls \in [Flags!Calls -> [step : Flags!Steps, generation : Nat, answer : Flags!Served,
                                 fetching : BOOLEAN, stopped : BOOLEAN]]
  BY DEF FlagsInv, PollingInv, CallsTyped, FlagCall, Flags!Calls
<1>5. lifecycleGeneration \in 0 .. (MaxStops + 2 * Flags!Cardinality(Starts))
  <2>1. Started \subseteq Starts /\ Failed \subseteq Starts
    BY DEF Started, Failed
  <2>2. Cardinality(Started) <= Cardinality(Starts)
    BY <2>1, FlagConstants, FS_Subset
  <2>3. Cardinality(Failed) <= Cardinality(Starts)
    BY <2>1, FlagConstants, FS_Subset
  <2>4. Cardinality(Starts) \in Nat
    BY FlagConstants, FS_CardinalityType
  <2>5. Flags!Cardinality(Starts) = Cardinality(Starts)
    BY DEF Flags!Cardinality, Cardinality
  <2>6. /\ lifecycleGeneration \in Nat /\ stops \in 0 .. MaxStops
        /\ lifecycleGeneration <= stops + Cardinality(Started) + Cardinality(Failed)
    BY DEF FlagsInv, PollingInv, CallsTyped, GenerationBound
  <2> QED BY <2>2, <2>3, <2>4, <2>5, <2>6, BoundsAreNat, FlagConstants
<1>6. Flags!TypeOK
  BY <1>3, <1>4, <1>5 DEF FlagsInv, FlagsTyped, Flags!TypeOK
<1> QED BY <1>1, <1>2, <1>6

LEMMA DeathsCounted == ASSUME deaths \in Nat, [Flags!Next]_Flags!vars PROVE deaths' \in Nat
<1>1. ASSUME NEW c \in Starts, Flags!StartStep(c) PROVE deaths' = deaths
  BY <1>1 DEF Flags!StartStep, Flags!Start, Flags!Fetched, Flags!Resume, Flags!Fail
<1>2. ASSUME NEW r \in Rounds, Flags!RoundStep(r) PROVE deaths' = deaths
  BY <1>2 DEF Flags!RoundStep, Flags!Tick, Flags!EndRound
<1>3. ASSUME NEW c \in Starts \cup Rounds, Flags!FlagsStep(c) PROVE deaths' = deaths
  BY <1>3 DEF Flags!FlagsStep, Flags!Answer, Flags!Receive, Flags!Stored
<1>4. ASSUME Flags!Stop \/ Flags!ReadFlags \/ Flags!Load \/ Flags!Publish PROVE deaths' = deaths
  BY <1>4 DEF Flags!Stop, Flags!ReadFlags, Flags!Load, Flags!Publish
<1>5. ASSUME Flags!Die PROVE deaths' \in Nat
  BY <1>5 DEF Flags!Die
<1>6. CASE UNCHANGED Flags!vars
  BY <1>6 DEF Flags!vars
<1> QED BY <1>1, <1>2, <1>3, <1>4, <1>5, <1>6 DEF Flags!Next, Flags!Calls

\* The cache is filled by the answer to the one call of the generation that runs.
LEMMA FlagsAdvance ==
  ASSUME FlagsInv, deaths \in Nat, Flags!Next
  PROVE  applied' >= applied \/ deaths' # deaths
<1>1. applied \in Nat
  BY FlagConstants DEF FlagsInv, FlagsTyped
<1>2. ASSUME UNCHANGED applied PROVE applied' >= applied
  BY <1>1, <1>2
<1>3. ASSUME NEW c \in Starts \cup Rounds, Flags!Receive(c) PROVE applied' >= applied
  <2>1. CASE Flags!Dropped(c)
    BY <1>2, <2>1 DEF Flags!Dropped, Flags!cache
  <2>2. CASE Flags!Applied(c)
    <3>1. calls[c].step = "answered" /\ Current(c) /\ applied' = calls[c].answer.version
      BY <2>2 DEF Flags!Applied, Flags!IsCurrent, Current
    <3>2. calls[c].answer.version \in Nat
      BY FlagConstants DEF FlagsInv, PollingInv, CallsTyped, FlagCall, Flags!Served
    <3> QED BY <1>1, <3>1, <3>2 DEF FlagsInv, AnswersHold
  <2> QED BY <1>3, <2>1, <2>2 DEF Flags!Receive
<1>4. ASSUME Flags!Die PROVE deaths' # deaths
  BY <1>4 DEF Flags!Die
<1>5. ASSUME NEW c \in Starts, Flags!StartStep(c) PROVE UNCHANGED applied
  BY <1>5 DEF Flags!StartStep, Flags!Start, Flags!Fetched, Flags!Resume, Flags!Fail, Flags!cache
<1>6. ASSUME NEW r \in Rounds, Flags!RoundStep(r) PROVE UNCHANGED applied
  BY <1>6 DEF Flags!RoundStep, Flags!Tick, Flags!EndRound, Flags!cache
<1>7. ASSUME NEW c \in Starts \cup Rounds, Flags!Answer(c) \/ Flags!Stored(c) PROVE UNCHANGED applied
  BY <1>7 DEF Flags!Answer, Flags!Stored, Flags!cache
<1>8. ASSUME Flags!Stop \/ Flags!ReadFlags \/ Flags!Load \/ Flags!Publish PROVE UNCHANGED applied
  BY <1>8 DEF Flags!Stop, Flags!ReadFlags, Flags!Load, Flags!Publish, Flags!cache
<1> QED BY <1>2, <1>3, <1>4, <1>5, <1>6, <1>7, <1>8 DEF Flags!Next, Flags!FlagsStep, Flags!Calls

\* Whatever order stops, starts, late answers and failures come in: pollers run only
\* while the client does, a client that runs polls or is on its way to it, an old
\* start that fails does not stop a newer one, a flag of initialFlags is missing only
\* while the flags are loaded or written, or when that failed, and no answer replaces a
\* newer one.
THEOREM FlagsStayCurrent == Spec => FlagsHold
<1>1. Flags!Init => FlagsInv
  BY InitKeepsFlags
<1>2. FlagsInv /\ [Flags!Next]_Flags!vars => FlagsInv'
  <2> SUFFICES ASSUME FlagsInv, [Flags!Next]_Flags!vars PROVE FlagsInv'
    OBVIOUS
  <2>1. ASSUME NEW c \in Starts, Flags!StartStep(c) PROVE FlagsInv'
    BY <2>1, StartKeepsFlags, FetchedKeepsFlags, ResumeKeepsFlags, FailKeepsFlags
       DEF Flags!StartStep
  <2>2. ASSUME NEW r \in Rounds, Flags!RoundStep(r) PROVE FlagsInv'
    BY <2>2, TickKeepsFlags, EndRoundKeepsFlags DEF Flags!RoundStep
  <2>3. ASSUME NEW c \in Starts \cup Rounds, Flags!FlagsStep(c) PROVE FlagsInv'
    BY <2>3, AnswerKeepsFlags, ReceiveKeepsFlags, StoredKeepsFlags DEF Flags!FlagsStep
  <2>4. CASE UNCHANGED Flags!vars
    <3>1. UNCHANGED <<isRunning, lifecycleGeneration, poller, userPoller, listening, calls, loading,
                      flag, flagOnDisk, applied, unmerged, flagServer, stops>>
      BY <2>4 DEF Flags!vars, Flags!client, Flags!cache
    <3>2. PollingInv'
      BY <3>1 DEF FlagsInv, PollingInv, CallsTyped, GenerationBound, Started, Failed,
                  GenerationsHold, StartsHold, Current, Flags!InFlight, Flags!Outstanding,
                  Flags!PollersStop, Flags!RunningPolls
    <3>3. FlagsTyped' /\ AnswersHold' /\ Flags!InitialFlagStays'
      BY <3>1 DEF FlagsInv, FlagsTyped, AnswersHold, Current, Flags!InitialFlagStays
    <3> QED BY <3>2, <3>3 DEF FlagsInv
  <2> QED BY <2>1, <2>2, <2>3, <2>4, StopKeepsFlags, SurroundingsKeepFlags, DieKeepsFlags
          DEF Flags!Next, Flags!Calls
<1>3. FlagsInv => /\ Flags!TypeOK /\ Flags!PollersStop /\ Flags!RunningPolls
                  /\ Flags!StartHolds /\ Flags!InitialFlagStays
  BY FlagsInvSuffices
<1> DEFINE Advance == applied' >= applied \/ deaths' # deaths
<1>4. FlagsInv /\ deaths \in Nat /\ [Flags!Next]_Flags!vars => [Advance]_Flags!vars
  BY FlagsAdvance
<1>5. Flags!Init => deaths \in Nat
  BY DEF Flags!Init
<1>6. deaths \in Nat /\ [Flags!Next]_Flags!vars => (deaths \in Nat)'
  BY DeathsCounted
<1>7. Flags!Spec => /\ [](Flags!TypeOK /\ Flags!PollersStop /\ Flags!RunningPolls)
                    /\ [](Flags!StartHolds /\ Flags!InitialFlagStays)
                    /\ [][Advance]_Flags!vars
  <2> HIDE DEF Advance
  <2> QED BY <1>1, <1>2, <1>3, <1>4, <1>5, <1>6, PTL DEF Flags!Spec
<1> QED BY <1>7, EachPartRuns DEF FlagsHold, Flags!FlagsNeverGoBack
=============================================================================
