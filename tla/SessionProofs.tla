---------------------------- MODULE SessionProofs ----------------------------
(* What TLAPS proves of Session, for any users, session ids, delays and     *)
(* bounds.                                                                  *)
EXTENDS Session, TLAPS

-----------------------------------------------------------------------------
(* The inductive invariant.                                                 *)

Times == 0 .. MaxTime
SettingFields == {"userId", "deviceId", "optOut"}

\* TypeOK and the types of what it leaves out.
TypeInv ==
    /\ TypeOK
    /\ clock \in Times /\ devices \in 0 .. MaxDevices
    /\ activity \in Times \cup {NoValue}
    /\ wish = [f \in SettingFields |-> wish[f]]
    /\ connector = [userId |-> connector.userId, deviceId |-> connector.deviceId]

\* What the settings will be once the stored session has been read: those that
\* hold.  While it is unread that is more than RestoreKeeps says.
WishInv ==
    status # "down" =>
        \A f \in SettingFields : wish[f] = IF readFailed THEN Fill(f) ELSE session[f]

\* An opted-out choice is honoured while it is unread because a client that
\* cannot read starts opted out, and every later choice is noted.
IdentityInv == WishInv /\ StoredFollows /\ OptOutHonoured /\ ConnectorAgrees

\* A session began no later than the clock, and no event of it is so far back
\* that its start lies more than one delay after the last one.
Recent(s) ==
    /\ s.sessionId # NoValue => s.lastEventTime # NoValue
    /\ s.sessionId \in Times =>
          s.sessionId <= clock /\ \E delay \in Delays : s.sessionId <= s.lastEventTime + delay

\* lastEventTime as it is once the stored session has been read.
LastEventTime ==
    IF status = "down" THEN stored.lastEventTime
    ELSE IF readFailed /\ "lastEventTime" \notin changed THEN stored.lastEventTime
    ELSE session.lastEventTime

\* What a late restore finds in memory for the fields that it fills.
UnreadInv ==
    readFailed =>
        /\ "sessionId" \in changed => "lastEventTime" \in changed
        /\ \A f \in {"sessionId", "lastEventTime"} \ changed : session[f] = NoValue
        /\ "lastEventTime" \in changed =>
              /\ session.lastEventTime # NoValue
              /\ stored.sessionId \in Times =>
                    \E delay \in Delays : stored.sessionId <= session.lastEventTime + delay

TimeInv == Recent(session) /\ Recent(stored) /\ activity = LastEventTime /\ UnreadInv
-----------------------------------------------------------------------------
(* What the helpers do.                                                     *)

\* The setters: the session in memory changes, and the stored one follows it
\* or stays; an unread one is left alone and the fields are noted.
LEMMA AssignOutcome ==
    ASSUME TypeInv, NEW fields \in SUBSET Fields, NEW new \in SessionType,
           Assign(fields, new)
    PROVE  /\ session' = new /\ readFailed' = readFailed
           /\ changed' = IF readFailed THEN changed \cup fields ELSE changed
           /\ changed' \subseteq Fields
           /\ stored' \in {stored, new}
           /\ writeLost' \in BOOLEAN /\ retrying' \in BOOLEAN
           /\ readFailed => stored' = stored
           /\ ~readFailed => retrying' = retrying /\ changed' = {}
           /\ ~readFailed /\ (writeLost \/ stored = session) => writeLost' \/ stored' = new
<1>1. /\ session' = new /\ readFailed' = readFailed
      /\ changed' = IF readFailed THEN changed \cup fields ELSE changed
  BY DEF Assign, Noted
<1>2. /\ stored' \in {stored, new} /\ writeLost' \in BOOLEAN /\ retrying' \in BOOLEAN
      /\ readFailed => stored' = stored
      /\ ~readFailed => retrying' = retrying
      /\ ~readFailed /\ (writeLost \/ stored = session) => writeLost' \/ stored' = new
  BY DEF Assign, Unread, Write, TypeInv, TypeOK
<1> QED BY <1>1, <1>2 DEF TypeInv, TypeOK

\* Sessions that the client assigns are of their type.
LEMMA SessionTypes ==
    ASSUME TypeInv, NEW time \in Times
    PROVE  /\ [session EXCEPT !.lastEventTime = time] \in SessionType
           /\ \A id \in ExplicitIds \cup Times : InSession(id, time) \in SessionType
           /\ \A user \in Users \cup {NoValue} : [session EXCEPT !.userId = user] \in SessionType
           /\ \A optOut \in BOOLEAN : [session EXCEPT !.optOut = optOut] \in SessionType
           /\ \A id \in 1 .. MaxDevices :
                 [session EXCEPT !.userId = NoValue, !.deviceId = id] \in SessionType
BY DEF TypeInv, TypeOK, SessionType, InSession, Ids, Times

\* A session is started or extended by an assignment that leaves the settings.
LEMMA StartsOrExtends ==
    ASSUME TypeInv, NEW time \in Times, startNewSessionIfNeeded(time)
    PROVE  \E fields \in SUBSET {"sessionId", "lastEventTime"}, new \in SessionType :
              /\ Assign(fields, new)
              /\ \A f \in SettingFields : new[f] = session[f]
<1> DEFINE id == Or(explicitId, time)
<1>1. id \in ExplicitIds \cup Times
  BY DEF Or, TypeInv, TypeOK
<1>2. session \in SessionType
  BY DEF TypeInv, TypeOK
<1>3. CASE shouldStartNewSession(time)
  <2>1. Assign(FieldsOf(id), InSession(id, time))
    BY <1>3 DEF startNewSessionIfNeeded
  <2>2. FieldsOf(id) \in SUBSET {"sessionId", "lastEventTime"} /\ InSession(id, time) \in SessionType
    BY <1>1, SessionTypes DEF FieldsOf
  <2>3. \A f \in SettingFields : InSession(id, time)[f] = session[f]
    BY <1>2 DEF InSession, SettingFields, SessionType
  <2> QED BY <2>1, <2>2, <2>3
<1>4. CASE ~shouldStartNewSession(time)
  <2> DEFINE new == [session EXCEPT !.lastEventTime = time]
  <2>1. Assign({"lastEventTime"}, new)
    BY <1>4 DEF startNewSessionIfNeeded
  <2>2. new \in SessionType
    BY SessionTypes
  <2>3. \A f \in SettingFields : new[f] = session[f]
    BY <1>2 DEF SettingFields, SessionType
  <2> QED BY <2>1, <2>2, <2>3
<1> QED BY <1>3, <1>4

-----------------------------------------------------------------------------
(* Types.                                                                   *)

ConfigTypes ==
    /\ {session, stored} \subseteq SessionType
    /\ changed \subseteq Fields
    /\ {readFailed, retrying, writeLost} \subseteq BOOLEAN
    /\ ~readFailed => changed = {} /\ ~retrying

\* Assignments keep the types of the configuration.
LEMMA AssignTypes ==
    ASSUME TypeInv, NEW fields \in SUBSET Fields, NEW new \in SessionType,
           Assign(fields, new)
    PROVE  ConfigTypes'
<1>1. /\ session' \in SessionType /\ stored' \in SessionType /\ changed' \subseteq Fields
      /\ readFailed' \in BOOLEAN /\ writeLost' \in BOOLEAN /\ retrying' \in BOOLEAN
  BY AssignOutcome DEF TypeInv, TypeOK
<1>2. ~readFailed' => changed' = {} /\ ~retrying'
  BY AssignOutcome DEF TypeInv, TypeOK
<1> QED BY <1>1, <1>2 DEF ConfigTypes

\* So does the start of a session.
LEMMA StartTypes ==
    ASSUME TypeInv, NEW time \in Times, startNewSessionIfNeeded(time)
    PROVE  ConfigTypes'
<1>1. PICK fields \in SUBSET {"sessionId", "lastEventTime"}, new \in SessionType :
        Assign(fields, new)
  BY StartsOrExtends
<1>2. fields \in SUBSET Fields
  BY DEF Fields
<1> QED BY <1>1, <1>2, AssignTypes

\* A stopped or unstarted client holds nothing.
LEMMA TypeInit == Init => TypeInv
<1> SUFFICES ASSUME Init PROVE TypeInv
  OBVIOUS
<1>1. NoSession \in SessionType
  BY DEF NoSession, SessionType, Fields, Ids
<1>2. TypeOK
  BY <1>1 DEF Init, TypeOK
<1>3. /\ wish = [f \in SettingFields |-> wish[f]]
      /\ connector = [userId |-> connector.userId, deviceId |-> connector.deviceId]
  BY DEF Init, Identity, Settings, SettingFields
<1> QED BY <1>2, <1>3, SessionAssumption DEF Init, TypeInv, Times

\* Every step keeps the types.
LEMMA TypeStep == TypeInv /\ [Next]_vars => TypeInv'
<1> SUFFICES ASSUME TypeInv, [Next]_vars PROVE TypeInv'
  OBVIOUS
<1> DEFINE Rest == /\ status' \in {"down", "configured", "ready"} /\ kept' \in SessionType
                   /\ explicitId' \in ExplicitIds \cup {NoValue}
                   /\ appState' \in {"active", "background"}
                   /\ clock' \in Times /\ devices' \in 0 .. MaxDevices
                   /\ activity' \in Times \cup {NoValue}
                   /\ wish' = [f \in SettingFields |-> wish'[f]]
                   /\ connector' = [userId |-> connector'.userId, deviceId |-> connector'.deviceId]
<1>a. ConfigTypes' /\ Rest => TypeInv'
  BY DEF ConfigTypes, TypeInv, TypeOK
<1>b. /\ status \in {"down", "configured", "ready"} /\ kept \in SessionType
      /\ explicitId \in ExplicitIds \cup {NoValue} /\ appState \in {"active", "background"}
      /\ clock \in Times /\ devices \in 0 .. MaxDevices
      /\ activity \in Times \cup {NoValue}
      /\ wish = [f \in SettingFields |-> wish[f]]
      /\ connector = [userId |-> connector.userId, deviceId |-> connector.deviceId]
      /\ session \in SessionType /\ stored \in SessionType
      /\ changed \subseteq Fields /\ {readFailed, retrying, writeLost} \subseteq BOOLEAN
      /\ ~readFailed => changed = {} /\ ~retrying
  BY DEF TypeInv, TypeOK
<1>c. NoSession \in SessionType
  BY DEF NoSession, SessionType, Fields, Ids
<1>1. ASSUME NEW user \in Users \cup {NoValue}, NEW optOut \in BOOLEAN \cup {NoValue},
             NEW id \in ExplicitIds \cup {NoValue}, NEW reads \in BOOLEAN,
             useReactNativeConfig(user, optOut, id, reads)
      PROVE  TypeInv'
  <2> DEFINE found == IF reads THEN stored ELSE NoSession
             new == [found EXCEPT !.userId = Or(user, @),
                                  !.optOut = OptOutAtStart(optOut, reads),
                                  !.deviceId = Or(@, devices + 1)]
  <2>1. found \in SessionType
    BY <1>b, <1>c
  <2>2. devices < MaxDevices \/ found.deviceId # NoValue
    BY <1>1 DEF useReactNativeConfig
  <2>3. /\ Or(user, found.userId) \in Users \cup {NoValue}
        /\ OptOutAtStart(optOut, reads) \in BOOLEAN
        /\ Or(found.deviceId, devices + 1) \in 1 .. MaxDevices
    <3>1. Or(user, found.userId) \in Users \cup {NoValue}
      BY <2>1 DEF Or, SessionType
    <3>2. OptOutAtStart(optOut, reads) \in BOOLEAN
      BY <1>b DEF OptOutAtStart, Or, SessionType
    <3>3. Or(found.deviceId, devices + 1) \in 1 .. MaxDevices
      BY <1>b, <2>1, <2>2, SessionAssumption DEF Or, SessionType
    <3> QED BY <3>1, <3>2, <3>3
  <2>4. new \in SessionType
    <3> HIDE DEF found
    <3> QED BY <2>1, <2>3 DEF SessionType
  <2>5. session' = new /\ stored' \in {stored, new} /\ writeLost' \in BOOLEAN
    BY <1>1, <1>b DEF useReactNativeConfig, Write
  <2>6. ConfigTypes'
    <3> HIDE DEF new
    <3>1. readFailed' = ~reads /\ retrying' = FALSE
          /\ changed' = IF reads THEN {} ELSE Explicit(user, optOut)
      BY <1>1 DEF useReactNativeConfig
    <3> QED BY <1>b, <2>4, <2>5, <3>1 DEF ConfigTypes, Explicit, Fields
  <2>7. Rest
    <3>1. devices' \in 0 .. MaxDevices
      BY <1>1, <1>b, <2>2, SessionAssumption DEF useReactNativeConfig
    <3> QED BY <1>1, <1>b, <3>1 DEF useReactNativeConfig, SettingFields
  <2> QED BY <1>a, <2>6, <2>7
<1>2. ASSUME NEW state \in {"active", "background"}, BeginSession(state) PROVE TypeInv'
  <2>1. ConfigTypes'
    BY <1>2, <1>b, StartTypes DEF BeginSession
  <2>2. Rest
    BY <1>2, <1>b DEF BeginSession, Identity, ghosts
  <2> QED BY <1>a, <2>1, <2>2
<1>3. ASSUME NEW state \in {"active", "background"}, handleAppStateChange(state) PROVE TypeInv'
  <2>1. ConfigTypes'
    BY <1>3, <1>b, StartTypes, AssignTypes, SessionTypes DEF handleAppStateChange, Fields
  <2>2. Rest
    BY <1>3, <1>b DEF handleAppStateChange, ghosts
  <2> QED BY <1>a, <2>1, <2>2
<1>4. ASSUME NEW delay \in Delays, Track(delay) PROVE TypeInv'
  <2>1. clock - delay \in Times
    BY <1>4, <1>b, SessionAssumption DEF Track, Times
  <2>2. ConfigTypes'
    BY <1>4, <2>1, StartTypes, AssignTypes, SessionTypes DEF Track, Fields
  <2>3. Rest
    BY <1>4, <1>b, <2>1 DEF Track, ghosts
  <2> QED BY <1>a, <2>2, <2>3
<1>5. ASSUME NEW id \in ExplicitIds, setSessionId(id) PROVE TypeInv'
  <2>1. InSession(id, clock) \in SessionType /\ FieldsOf(id) \in SUBSET Fields
    BY <1>b, SessionTypes DEF FieldsOf, Fields
  <2>2. ConfigTypes'
    BY <1>5, <2>1, AssignTypes DEF setSessionId
  <2>3. Rest
    BY <1>5, <1>b DEF setSessionId, ghosts
  <2> QED BY <1>a, <2>2, <2>3
<1>6. ASSUME extendSession PROVE TypeInv'
  <2>1. ConfigTypes'
    BY <1>6, <1>b, AssignTypes, SessionTypes DEF extendSession, Fields
  <2>2. Rest
    BY <1>6, <1>b DEF extendSession, ghosts
  <2> QED BY <1>a, <2>1, <2>2
<1>7. ASSUME NEW user \in Users \cup {NoValue}, setUserId(user) PROVE TypeInv'
  <2>1. ConfigTypes'
    BY <1>7, <1>b, AssignTypes, SessionTypes DEF setUserId, Fields
  <2>2. Rest
    BY <1>7, <1>b DEF setUserId
  <2> QED BY <1>a, <2>1, <2>2
<1>8. ASSUME reset PROVE TypeInv'
  <2>1. devices' \in 1 .. MaxDevices /\ devices' \in 0 .. MaxDevices
    BY <1>8, <1>b, SessionAssumption DEF reset
  <2>2. ConfigTypes'
    BY <1>8, <1>b, <2>1, AssignTypes, SessionTypes DEF reset, Fields
  <2>3. Rest
    <3>1. wish' = [f \in SettingFields |-> wish'[f]]
      BY <1>8, <1>b DEF reset
    <3>2. connector' = [userId |-> connector'.userId, deviceId |-> connector'.deviceId]
      BY <1>8 DEF reset
    <3>3. UNCHANGED <<status, explicitId, appState, clock, kept, activity>>
      BY <1>8 DEF reset
    <3> QED BY <1>b, <2>1, <3>1, <3>2, <3>3
  <2> QED BY <1>a, <2>2, <2>3
<1>9. ASSUME NEW optOut \in BOOLEAN, setOptOut(optOut) PROVE TypeInv'
  <2>1. ConfigTypes'
    BY <1>9, <1>b, AssignTypes, SessionTypes DEF setOptOut, Fields
  <2>2. Rest
    BY <1>9, <1>b DEF setOptOut
  <2> QED BY <1>a, <2>1, <2>2
<1>10. ASSUME RetryReads PROVE TypeInv'
  <2> DEFINE new == [f \in Fields |-> Fill(f)]
  <2>1. \A f \in Fields : Fill(f) \in {session[f], stored[f]}
    BY DEF Fill, Fields
  <2>2. new \in SessionType
    BY <1>b, <2>1 DEF SessionType, Fields
  <2>3. session' = new /\ stored' \in {stored, new} /\ writeLost' \in BOOLEAN
    BY <1>10, <1>b DEF RetryReads, Write
  <2>4. ConfigTypes'
    <3> HIDE DEF new
    <3> QED BY <1>10, <1>b, <2>2, <2>3 DEF RetryReads, ConfigTypes, Remembered
  <2>5. Rest
    BY <1>10, <1>b DEF RetryReads, Synced, Identity, ghosts
  <2> QED BY <1>a, <2>4, <2>5
<1>11. ASSUME RetryFails PROVE TypeInv'
  <2>1. ConfigTypes'
    BY <1>11, <1>b DEF RetryFails, ConfigTypes
  <2>2. Rest
    BY <1>11, <1>b DEF RetryFails, ghosts
  <2> QED BY <1>a, <2>1, <2>2
<1>12. ASSUME Stop PROVE TypeInv'
  <2>1. ConfigTypes'
    BY <1>12, <1>b, <1>c DEF Stop, ConfigTypes
  <2>2. activity' \in Times \cup {NoValue}
    BY <1>12, <1>b DEF Stop, SessionType, Times
  <2>3. Rest
    BY <1>12, <1>b, <1>c, <2>2 DEF Stop, Identity, Settings, SettingFields
  <2> QED BY <1>a, <2>1, <2>3
<1>13. ASSUME Tick PROVE TypeInv'
  <2>1. ConfigTypes'
    BY <1>13, <1>b DEF Tick, ConfigTypes, configVars
  <2>2. clock' \in Times
    BY <1>13, <1>b, SessionAssumption DEF Tick, Times
  <2>3. Rest
    BY <1>13, <1>b, <2>2 DEF Tick, ghosts
  <2> QED BY <1>a, <2>1, <2>3
<1>14. ASSUME UNCHANGED vars PROVE TypeInv'
  BY <1>14 DEF vars, configVars, ghosts, TypeInv, TypeOK
<1> QED BY <1>1, <1>2, <1>3, <1>4, <1>5, <1>6, <1>7, <1>8, <1>9, <1>10, <1>11, <1>12,
           <1>13, <1>14 DEF Next

-----------------------------------------------------------------------------
(* Identity and opt-out.                                                    *)

\* An assignment keeps wish and session together when it notes every setting
\* that it changes, and every setting it notes is what the application wants.
LEMMA AssignKeepsWish ==
    ASSUME TypeInv, WishInv, StoredFollows, OptOutHonoured, status # "down", kept' = kept,
           NEW fields \in SUBSET Fields, NEW new \in SessionType, Assign(fields, new),
           \A f \in SettingFields \cap fields : wish'[f] = new[f],
           \A f \in SettingFields \ fields : new[f] = session[f] /\ wish'[f] = wish[f]
    PROVE  WishInv' /\ StoredFollows' /\ OptOutHonoured'
<1>1. /\ session' = new /\ readFailed' = readFailed
      /\ changed' = IF readFailed THEN changed \cup fields ELSE changed
      /\ readFailed => stored' = stored
      /\ ~readFailed /\ (writeLost \/ stored = session) => writeLost' \/ stored' = new
  BY AssignOutcome
<1>2. WishInv'
  <2> SUFFICES ASSUME NEW f \in SettingFields
               PROVE  wish'[f] = IF readFailed' THEN Fill(f)' ELSE session'[f]
    BY DEF WishInv
  <2>1. wish[f] = IF readFailed THEN Fill(f) ELSE session[f]
    BY DEF WishInv
  <2>2. CASE f \in fields
    BY <1>1, <2>2 DEF Fill
  <2>3. CASE f \notin fields
    BY <1>1, <2>1, <2>3 DEF Fill
  <2> QED BY <2>2, <2>3
<1>3. StoredFollows'
  BY <1>1 DEF StoredFollows
<1>4. OptOutHonoured'
  <2>1. "optOut" \in SettingFields
    BY DEF SettingFields
  <2>2. CASE "optOut" \in fields
    BY <1>1, <2>1, <2>2 DEF OptOutHonoured
  <2>3. CASE "optOut" \notin fields
    BY <1>1, <2>1, <2>3 DEF OptOutHonoured
  <2> QED BY <2>2, <2>3
<1> QED BY <1>2, <1>3, <1>4

\* Starting and extending sessions leaves the settings alone.
LEMMA SessionKeepsIdentity ==
    ASSUME TypeInv, IdentityInv, status # "down", UNCHANGED ghosts,
           NEW fields \in SUBSET {"sessionId", "lastEventTime"}, NEW new \in SessionType,
           Assign(fields, new), \A f \in SettingFields : new[f] = session[f],
           \/ status' = status /\ connector' = connector
           \/ connector' = Identity(session)
    PROVE  IdentityInv'
<1>1. fields \in SUBSET Fields /\ SettingFields \cap fields = {}
  BY DEF Fields, SettingFields
<1>2. wish' = wish /\ kept' = kept
  BY DEF ghosts
<1>3. WishInv' /\ StoredFollows' /\ OptOutHonoured'
  BY <1>1, <1>2, AssignKeepsWish DEF IdentityInv
<1>4. session' = new
  BY <1>1, AssignOutcome
<1>5. Identity(session)' = Identity(session)
  BY <1>4 DEF Identity, SettingFields
<1>6. ConnectorAgrees'
  BY <1>5 DEF ConnectorAgrees, IdentityInv
<1> QED BY <1>3, <1>6 DEF IdentityInv

\* So do the events that only move lastEventTime, and startNewSessionIfNeeded.
LEMMA EventKeepsIdentity ==
    ASSUME TypeInv, IdentityInv, status # "down", UNCHANGED ghosts, NEW time \in Times,
           \/ startNewSessionIfNeeded(time)
           \/ Assign({"lastEventTime"}, [session EXCEPT !.lastEventTime = time]),
           \/ status' = status /\ connector' = connector
           \/ connector' = Identity(session)
    PROVE  IdentityInv'
<1>1. CASE startNewSessionIfNeeded(time)
  BY <1>1, StartsOrExtends, SessionKeepsIdentity
<1>2. CASE Assign({"lastEventTime"}, [session EXCEPT !.lastEventTime = time])
  <2>1. \A f \in SettingFields : [session EXCEPT !.lastEventTime = time][f] = session[f]
    BY DEF TypeInv, TypeOK, SessionType, SettingFields
  <2> QED BY <1>2, <2>1, SessionTypes, SessionKeepsIdentity
<1> QED BY <1>1, <1>2

\* Every step keeps identity and opt-out.
LEMMA IdentityStep == TypeInv /\ IdentityInv /\ [Next]_vars => IdentityInv'
<1> SUFFICES ASSUME TypeInv, IdentityInv, [Next]_vars PROVE IdentityInv'
  OBVIOUS
<1>a. /\ clock \in Times /\ session \in SessionType /\ stored \in SessionType
      /\ wish = [f \in SettingFields |-> wish[f]]
      /\ ~readFailed => changed = {} /\ ~retrying
  BY DEF TypeInv, TypeOK
<1>1. ASSUME NEW user \in Users \cup {NoValue}, NEW optOut \in BOOLEAN \cup {NoValue},
             NEW id \in ExplicitIds \cup {NoValue}, NEW reads \in BOOLEAN,
             useReactNativeConfig(user, optOut, id, reads)
      PROVE  IdentityInv'
  <2> DEFINE found == IF reads THEN stored ELSE NoSession
             new == [found EXCEPT !.userId = Or(user, @),
                                  !.optOut = OptOutAtStart(optOut, reads),
                                  !.deviceId = Or(@, devices + 1)]
  <2>1. /\ session' = new /\ readFailed' = ~reads /\ status' = "configured" /\ kept' = stored
        /\ changed' = IF reads THEN {} ELSE Explicit(user, optOut)
        /\ wish' = [userId |-> Or(user, stored.userId), optOut |-> Or(optOut, stored.optOut),
                    deviceId |-> Or(stored.deviceId, session'.deviceId)]
    BY <1>1 DEF useReactNativeConfig
  <2>2. IF reads THEN Write(new) ELSE stored' = stored
    BY <1>1 DEF useReactNativeConfig
  <2>3. /\ new.userId = Or(user, found.userId) /\ new.deviceId = Or(found.deviceId, devices + 1)
        /\ new.optOut = OptOutAtStart(optOut, reads)
    <3>1. found \in SessionType
      BY <1>a DEF NoSession, SessionType, Fields, Ids
    <3> HIDE DEF found
    <3> QED BY <3>1 DEF SessionType
  <2>4. StoredFollows'
    BY <2>1, <2>2 DEF StoredFollows, Write
  <2>5. WishInv' /\ OptOutHonoured'
    <3>1. CASE reads
      <4>1. found = stored
        BY <3>1
      <4>2. /\ wish'.userId = session'.userId /\ wish'.optOut = session'.optOut
            /\ wish'.deviceId = session'.deviceId
        <5> HIDE DEF new
        <5> QED BY <2>1, <2>3, <3>1, <4>1 DEF OptOutAtStart, Or
      <4> HIDE DEF new
      <4> QED BY <2>1, <3>1, <4>2 DEF WishInv, OptOutHonoured, SettingFields
    <3>2. CASE ~reads
      <4>1. found.userId = NoValue /\ found.deviceId = NoValue
        BY <3>2 DEF NoSession, Fields
      <4> HIDE DEF found, new
      <4>2. stored' = stored /\ stored.optOut \in BOOLEAN
        BY <1>a, <2>2, <3>2 DEF SessionType
      <4>3. wish'.userId = Fill("userId")'
        BY <2>1, <2>3, <3>2, <4>1, <4>2 DEF Fill, Or, Explicit
      <4>4. wish'.deviceId = Fill("deviceId")'
        BY <2>1, <2>3, <3>2, <4>1, <4>2 DEF Fill, Or, Explicit
      <4>5. wish'.optOut = Fill("optOut")'
        BY <2>1, <2>3, <3>2, <4>2 DEF Fill, Or, Explicit, OptOutAtStart
      <4>6. wish'.optOut => session'.optOut
        BY <2>1, <2>3, <3>2, <4>2 DEF Or, OptOutAtStart
      <4> QED BY <2>1, <3>2, <4>3, <4>4, <4>5, <4>6 DEF WishInv, OptOutHonoured, SettingFields
    <3> QED BY <3>1, <3>2
  <2>6. ConnectorAgrees'
    BY <2>1 DEF ConnectorAgrees
  <2> QED BY <2>4, <2>5, <2>6 DEF IdentityInv
<1>2. ASSUME NEW state \in {"active", "background"}, BeginSession(state) PROVE IdentityInv'
  BY <1>2, <1>a, EventKeepsIdentity DEF BeginSession
<1>3. ASSUME NEW state \in {"active", "background"}, handleAppStateChange(state)
      PROVE  IdentityInv'
  BY <1>3, <1>a, EventKeepsIdentity DEF handleAppStateChange
<1>4. ASSUME NEW delay \in Delays, Track(delay) PROVE IdentityInv'
  <2>1. clock - delay \in Times
    BY <1>4, <1>a, SessionAssumption DEF Track, Times
  <2> QED BY <1>4, <2>1, EventKeepsIdentity DEF Track
<1>5. ASSUME NEW id \in ExplicitIds, setSessionId(id) PROVE IdentityInv'
  <2>1. InSession(id, clock) \in SessionType /\ FieldsOf(id) \in SUBSET {"sessionId", "lastEventTime"}
    BY <1>a, SessionTypes DEF FieldsOf
  <2>2. \A f \in SettingFields : InSession(id, clock)[f] = session[f]
    BY <1>a DEF InSession, SettingFields, SessionType
  <2> QED BY <1>5, <2>1, <2>2, SessionKeepsIdentity DEF setSessionId
<1>6. ASSUME extendSession PROVE IdentityInv'
  BY <1>6, <1>a, EventKeepsIdentity DEF extendSession
<1>7. ASSUME NEW user \in Users \cup {NoValue}, setUserId(user) PROVE IdentityInv'
  <2> DEFINE new == [session EXCEPT !.userId = user]
  <2>1. new \in SessionType /\ {"userId"} \in SUBSET Fields
    BY <1>a, SessionTypes DEF Fields
  <2>2. /\ new.userId = user /\ wish'.userId = user /\ new.deviceId = session.deviceId
        /\ \A f \in SettingFields \ {"userId"} : new[f] = session[f] /\ wish'[f] = wish[f]
    BY <1>7, <1>a DEF setUserId, SettingFields, SessionType
  <2>3. WishInv' /\ StoredFollows' /\ OptOutHonoured'
    BY <1>7, <2>1, <2>2, AssignKeepsWish DEF setUserId, IdentityInv
  <2>4. ConnectorAgrees'
    <3>1. session' = new
      BY <1>7, <2>1, AssignOutcome DEF setUserId
    <3> HIDE DEF new
    <3> QED BY <1>7, <2>2, <3>1 DEF setUserId, ConnectorAgrees, Identity, IdentityInv
  <2> QED BY <2>3, <2>4 DEF IdentityInv
<1>8. ASSUME reset PROVE IdentityInv'
  <2> DEFINE new == [session EXCEPT !.userId = NoValue, !.deviceId = devices']
             fields == {"userId", "deviceId"}
  <2>1. new \in SessionType /\ fields \in SUBSET Fields
    <3>1. devices' \in 1 .. MaxDevices
      BY <1>8, SessionAssumption DEF reset, TypeInv
    <3> QED BY <1>a, <3>1, SessionTypes DEF Fields
  <2>2. /\ new.userId = NoValue /\ new.deviceId = devices'
        /\ wish'.userId = NoValue /\ wish'.deviceId = devices'
        /\ \A f \in SettingFields \ fields : new[f] = session[f] /\ wish'[f] = wish[f]
    BY <1>8, <1>a DEF reset, SettingFields, SessionType
  <2>3. Assign(fields, new) /\ kept' = kept /\ status' = status /\ status # "down"
    BY <1>8 DEF reset
  <2>4. WishInv' /\ StoredFollows' /\ OptOutHonoured'
    <3> HIDE DEF new
    <3>1. \A f \in SettingFields \cap fields : wish'[f] = new[f]
      BY <2>2
    <3> QED BY <2>1, <2>2, <2>3, <3>1, AssignKeepsWish DEF IdentityInv
  <2>5. ConnectorAgrees'
    <3>1. session' = new
      BY <2>1, <2>3, AssignOutcome
    <3> HIDE DEF new
    <3> QED BY <1>8, <2>2, <3>1 DEF reset, ConnectorAgrees, Identity
  <2> QED BY <2>4, <2>5 DEF IdentityInv
<1>9. ASSUME NEW optOut \in BOOLEAN, setOptOut(optOut) PROVE IdentityInv'
  <2> DEFINE new == [session EXCEPT !.optOut = optOut]
  <2>1. new \in SessionType /\ {"optOut"} \in SUBSET Fields
    BY <1>a, SessionTypes DEF Fields
  <2>2. /\ new.optOut = optOut /\ wish'.optOut = optOut
        /\ \A f \in SettingFields \ {"optOut"} : new[f] = session[f] /\ wish'[f] = wish[f]
    BY <1>9, <1>a DEF setOptOut, SettingFields, SessionType
  <2>3. WishInv' /\ StoredFollows' /\ OptOutHonoured'
    BY <1>9, <2>1, <2>2, AssignKeepsWish DEF setOptOut, IdentityInv
  <2>4. ConnectorAgrees'
    <3>1. session' = new
      BY <1>9, <2>1, AssignOutcome DEF setOptOut
    <3>2. new.userId = session.userId /\ new.deviceId = session.deviceId
      BY <2>2 DEF SettingFields
    <3> HIDE DEF new
    <3> QED BY <1>9, <3>1, <3>2 DEF setOptOut, ConnectorAgrees, Identity, IdentityInv
  <2> QED BY <2>3, <2>4 DEF IdentityInv
<1>10. ASSUME RetryReads PROVE IdentityInv'
  <2> DEFINE new == [f \in Fields |-> Fill(f)]
  <2>1. /\ session' = new /\ Write(new) /\ readFailed' = FALSE
        /\ status' = status /\ status # "down" /\ wish' = wish
        /\ connector' = IF status = "ready" THEN Identity(new) ELSE connector
    BY <1>10 DEF RetryReads, Synced, ghosts
  <2>2. readFailed
    BY <1>10, <1>a DEF RetryReads
  <2>3. \A f \in SettingFields : wish'[f] = session'[f]
    BY <2>1, <2>2 DEF IdentityInv, WishInv, SettingFields, Fields
  <2> HIDE DEF new
  <2>4. WishInv' /\ OptOutHonoured'
    BY <2>1, <2>3 DEF WishInv, OptOutHonoured, SettingFields
  <2>5. StoredFollows'
    BY <2>1 DEF StoredFollows, Write
  <2>6. ConnectorAgrees'
    BY <2>1 DEF ConnectorAgrees
  <2> QED BY <2>4, <2>5, <2>6 DEF IdentityInv
<1>11. ASSUME Stop PROVE IdentityInv'
  BY <1>11 DEF Stop, IdentityInv, WishInv, StoredFollows, OptOutHonoured, ConnectorAgrees
<1>12. ASSUME RetryFails \/ Tick \/ UNCHANGED vars PROVE IdentityInv'
  <2>1. UNCHANGED <<status, session, stored, readFailed, changed, connector, writeLost, wish, kept>>
    BY <1>12 DEF RetryFails, Tick, vars, configVars, ghosts
  <2> QED BY <2>1 DEF IdentityInv, WishInv, Fill, StoredFollows, OptOutHonoured,
                      ConnectorAgrees, Identity
<1> QED BY <1>1, <1>2, <1>3, <1>4, <1>5, <1>6, <1>7, <1>8, <1>9, <1>10, <1>11, <1>12 DEF Next

-----------------------------------------------------------------------------
(* When sessions are cut.                                                   *)

\* Events are not given a time a whole session timeout back.
DelaysAreShort == \A delay \in Delays : delay < SessionTimeout

\* A session that is cut is a new one: the time it starts at is later than the
\* start of the one before.
LEMMA CutIsNew ==
    ASSUME DelaysAreShort, TypeInv, Recent(session), NEW time \in Times,
           shouldStartNewSession(time)
    PROVE  session.sessionId # Or(explicitId, time)
<1>1. /\ session.sessionId \in ExplicitIds \cup Times \cup {NoValue}
      /\ session.lastEventTime \in Times \cup {NoValue}
      /\ explicitId \in ExplicitIds \cup {NoValue}
  BY DEF TypeInv, TypeOK, SessionType, Ids, Times
<1>2. NoValue \notin ExplicitIds \cup Times /\ SessionTimeout \in Nat /\ Delays \subseteq Nat
      /\ \A t \in Times : t \in Nat
  BY SessionAssumption DEF Times
<1>3. CASE session.sessionId = NoValue
  BY <1>1, <1>2, <1>3 DEF Or
<1>4. CASE session.sessionId # NoValue /\ explicitId # NoValue
  BY <1>4 DEF Or, shouldStartNewSession, inSession
<1>5. CASE session.sessionId # NoValue /\ explicitId = NoValue
  <2>1. session.lastEventTime \in Times /\ session.lastEventTime + SessionTimeout <= time
    <3>1. ~isWithinMinTimeBetweenSessions(time)
      BY <1>5 DEF shouldStartNewSession, inSession
    <3>2. session.lastEventTime \in Times
      BY <1>1, <1>5 DEF Recent
    <3>3. session.lastEventTime # NoValue
      BY <1>2, <3>2
    <3> QED BY <1>2, <3>1, <3>2, <3>3 DEF isWithinMinTimeBetweenSessions
  <2>2. ASSUME session.sessionId \in Times PROVE session.sessionId < time
    <3>1. PICK delay \in Delays : session.sessionId <= session.lastEventTime + delay
      BY <2>2 DEF Recent
    <3>2. delay < SessionTimeout
      BY DEF DelaysAreShort
    <3> QED BY <1>2, <2>1, <2>2, <3>1, <3>2
  <2>3. Or(explicitId, time) = time
    BY <1>5 DEF Or
  <2> QED BY <1>2, <2>2, <2>3
<1> QED BY <1>3, <1>4, <1>5

\* What starting or extending a session assigns.
LEMMA StartedSession ==
    ASSUME DelaysAreShort, TypeInv, Recent(session), NEW time \in Times,
           startNewSessionIfNeeded(time)
    PROVE  \E fields \in SUBSET {"sessionId", "lastEventTime"}, new \in SessionType :
              /\ Assign(fields, new)
              /\ "lastEventTime" \in fields /\ new.lastEventTime = time
              /\ IF shouldStartNewSession(time)
                 THEN /\ "sessionId" \in fields /\ new.sessionId # session.sessionId
                      /\ new.sessionId \in ExplicitIds \cup {time}
                 ELSE new.sessionId = session.sessionId
<1> DEFINE id == Or(explicitId, time)
<1>1. id \in ExplicitIds \cup {time} /\ id \in ExplicitIds \cup Times
  BY DEF Or, TypeInv, TypeOK
<1>2. session \in SessionType
  BY DEF TypeInv, TypeOK
<1>3. CASE shouldStartNewSession(time)
  <2>1. Assign(FieldsOf(id), InSession(id, time))
    BY <1>3 DEF startNewSessionIfNeeded
  <2>2. session.sessionId # id
    BY <1>3, CutIsNew
  <2> HIDE DEF id
  <2>3. FieldsOf(id) = {"sessionId", "lastEventTime"} /\ InSession(id, time) \in SessionType
    BY <1>1, <2>2, SessionTypes DEF FieldsOf
  <2>4. InSession(id, time).sessionId = id /\ InSession(id, time).lastEventTime = time
    BY <1>2, <2>2 DEF InSession, SessionType
  <2> QED BY <1>1, <1>3, <2>1, <2>2, <2>3, <2>4
<1>4. CASE ~shouldStartNewSession(time)
  <2> DEFINE new == [session EXCEPT !.lastEventTime = time]
  <2>1. Assign({"lastEventTime"}, new)
    BY <1>4 DEF startNewSessionIfNeeded
  <2>2. new \in SessionType
    BY SessionTypes
  <2>3. new.lastEventTime = time /\ new.sessionId = session.sessionId
    BY <1>2 DEF SessionType
  <2> QED BY <1>4, <2>1, <2>2, <2>3
<1> QED BY <1>3, <1>4

\* An activity, delayed or not, keeps session, storage and clock in step.
LEMMA ActivityKeepsTime ==
    ASSUME TypeInv, TypeInv', TimeInv, status # "down", status' # "down", clock' = clock,
           NEW fields \in SUBSET {"sessionId", "lastEventTime"}, NEW new \in SessionType,
           Assign(fields, new),
           NEW delay \in Delays, NEW time \in Times, time = clock - delay,
           activity' = time, "lastEventTime" \in fields, new.lastEventTime = time,
           \/ new.sessionId = session.sessionId
           \/ "sessionId" \in fields /\ new.sessionId \in ExplicitIds \cup {time}
    PROVE  TimeInv'
<1>1. /\ session' = new /\ readFailed' = readFailed
      /\ changed' = IF readFailed THEN changed \cup fields ELSE changed
      /\ stored' \in {stored, new}
      /\ readFailed => stored' = stored
  <2>1. fields \in SUBSET Fields
    BY DEF Fields
  <2> QED BY <2>1, AssignOutcome
<1>2. /\ clock \in Times /\ Times \subseteq Nat /\ Delays \subseteq Nat
      /\ NoValue \notin Times /\ ExplicitIds \cap Times = {}
      /\ stored \in SessionType /\ session \in SessionType
  BY SessionAssumption DEF Times, TypeInv, TypeOK
<1>3. Recent(new)'
  <2>1. new.lastEventTime # NoValue
    BY <1>2
  <2>2. ASSUME new.sessionId \in Times
        PROVE  new.sessionId <= clock /\ new.sessionId <= new.lastEventTime + delay
    <3>1. new.sessionId <= clock
      BY <1>2, <2>2 DEF TimeInv, Recent
    <3> QED BY <1>2, <2>2, <3>1
  <2> QED BY <2>1, <2>2 DEF Recent
<1>4. Recent(stored)'
  <2>1. CASE stored' = stored
    BY <2>1 DEF TimeInv, Recent
  <2>2. CASE stored' = new
    BY <1>3, <2>2 DEF Recent
  <2> QED BY <1>1, <2>1, <2>2
<1>5. activity' = LastEventTime'
  BY <1>1 DEF LastEventTime, TimeInv
<1>6. UnreadInv'
  <2> SUFFICES ASSUME readFailed PROVE UnreadInv'
    BY <1>1 DEF UnreadInv
  <2>1. changed' = changed \cup fields /\ stored' = stored
    BY <1>1
  <2>2. "sessionId" \notin changed' => session'.sessionId = NoValue
    BY <1>1, <2>1 DEF TimeInv, UnreadInv
  <2>3. stored.sessionId \in Times => stored.sessionId <= new.lastEventTime + delay
    BY <1>2 DEF TimeInv, Recent
  <2>4. session'.lastEventTime # NoValue
    BY <1>1, <1>2
  <2> QED BY <1>1, <2>1, <2>2, <2>3, <2>4 DEF UnreadInv
<1> QED BY <1>1, <1>3, <1>4, <1>5, <1>6 DEF TimeInv, Recent

\* An assignment to settings does not concern it.
LEMMA SettingKeepsTime ==
    ASSUME TypeInv, TimeInv, status # "down", status' = status, UNCHANGED <<clock, activity>>,
           NEW fields \in SUBSET SettingFields, NEW new \in SessionType, Assign(fields, new),
           new.sessionId = session.sessionId, new.lastEventTime = session.lastEventTime
    PROVE  TimeInv'
<1>1. /\ session' = new /\ readFailed' = readFailed
      /\ changed' = IF readFailed THEN changed \cup fields ELSE changed
      /\ stored' \in {stored, new}
      /\ readFailed => stored' = stored
  <2>1. fields \in SUBSET Fields
    BY DEF Fields, SettingFields
  <2> QED BY <2>1, AssignOutcome
<1>2. "sessionId" \notin fields /\ "lastEventTime" \notin fields
  BY DEF SettingFields
<1>3. Recent(session)'
  BY <1>1 DEF TimeInv, Recent
<1>4. Recent(stored)'
  <2>1. CASE stored' = stored
    BY <2>1 DEF TimeInv, Recent
  <2>2. CASE stored' = new
    BY <2>2 DEF TimeInv, Recent
  <2> QED BY <1>1, <2>1, <2>2
<1>5. activity' = LastEventTime'
  BY <1>1, <1>2 DEF TimeInv, LastEventTime
<1>6. UnreadInv'
  <2> SUFFICES ASSUME readFailed PROVE UnreadInv'
    BY <1>1 DEF UnreadInv
  <2> QED BY <1>1, <1>2 DEF TimeInv, UnreadInv
<1> QED BY <1>3, <1>4, <1>5, <1>6 DEF TimeInv

\* Every step keeps them in step.
LEMMA TimeStep ==
    ASSUME DelaysAreShort
    PROVE  TypeInv /\ StoredFollows /\ TimeInv /\ [Next]_vars => TimeInv'
<1> SUFFICES ASSUME TypeInv, StoredFollows, TimeInv, [Next]_vars PROVE TimeInv'
  OBVIOUS
<1>a. /\ clock \in Times /\ Times \subseteq Nat /\ Delays \subseteq Nat /\ 0 \in Delays
      /\ clock - 0 = clock /\ NoValue \notin Times
      /\ session \in SessionType /\ stored \in SessionType
      /\ ~readFailed => changed = {} /\ ~retrying
  BY SessionAssumption DEF TypeInv, TypeOK, Times
<1>b. TypeInv'
  BY TypeStep
<1>c. ASSUME status # "down", status' # "down", clock' = clock,
             NEW delay \in Delays, NEW time \in Times, time = clock - delay, activity' = time,
             \/ startNewSessionIfNeeded(time)
             \/ Assign({"lastEventTime"}, [session EXCEPT !.lastEventTime = time])
      PROVE  TimeInv'
  <2>1. CASE startNewSessionIfNeeded(time)
    <3>1. PICK fields \in SUBSET {"sessionId", "lastEventTime"}, new \in SessionType :
            /\ Assign(fields, new)
            /\ "lastEventTime" \in fields /\ new.lastEventTime = time
            /\ IF shouldStartNewSession(time)
               THEN /\ "sessionId" \in fields /\ new.sessionId # session.sessionId
                    /\ new.sessionId \in ExplicitIds \cup {time}
               ELSE new.sessionId = session.sessionId
      BY <2>1, StartedSession DEF TimeInv
    <3> QED BY <1>b, <1>c, <3>1, ActivityKeepsTime
  <2>2. CASE Assign({"lastEventTime"}, [session EXCEPT !.lastEventTime = time])
    <3> DEFINE new == [session EXCEPT !.lastEventTime = time]
    <3>1. new \in SessionType /\ new.lastEventTime = time /\ new.sessionId = session.sessionId
      BY <1>a, SessionTypes DEF SessionType
    <3> HIDE DEF new
    <3> QED BY <1>b, <1>c, <2>2, <3>1, ActivityKeepsTime DEF new
  <2> QED BY <1>c, <2>1, <2>2
<1>1. ASSUME NEW user \in Users \cup {NoValue}, NEW optOut \in BOOLEAN \cup {NoValue},
             NEW id \in ExplicitIds \cup {NoValue}, NEW reads \in BOOLEAN,
             useReactNativeConfig(user, optOut, id, reads)
      PROVE  TimeInv'
  <2> DEFINE found == IF reads THEN stored ELSE NoSession
             new == [found EXCEPT !.userId = Or(user, @),
                                  !.optOut = OptOutAtStart(optOut, reads),
                                  !.deviceId = Or(@, devices + 1)]
  <2>1. /\ session' = new /\ readFailed' = ~reads /\ status' = "configured" /\ status = "down"
        /\ changed' = IF reads THEN {} ELSE Explicit(user, optOut)
        /\ stored' \in {stored, new}
        /\ ~reads => stored' = stored
        /\ clock' = clock /\ activity' = activity
    BY <1>1 DEF useReactNativeConfig, Write
  <2>2. new.sessionId = found.sessionId /\ new.lastEventTime = found.lastEventTime
    <3>1. found \in SessionType
      BY <1>a DEF NoSession, SessionType, Fields, Ids
    <3> HIDE DEF found
    <3> QED BY <3>1 DEF SessionType
  <2>3. NoSession.sessionId = NoValue /\ NoSession.lastEventTime = NoValue
    BY DEF NoSession, Fields
  <2>4. activity = stored.lastEventTime
    BY <2>1 DEF TimeInv, LastEventTime
  <2>5. reads \in BOOLEAN /\ (reads => found = stored) /\ (~reads => found = NoSession)
    OBVIOUS
  <2> HIDE DEF new, found
  <2>6. Recent(session)'
    BY <1>a, <2>1, <2>2, <2>3, <2>5 DEF TimeInv, Recent
  <2>7. Recent(stored)'
    <3>1. CASE stored' = stored
      BY <2>1, <3>1 DEF TimeInv, Recent
    <3>2. CASE stored' = new
      BY <2>1, <2>6, <3>2 DEF Recent
    <3> QED BY <2>1, <3>1, <3>2
  <2>8. "sessionId" \notin changed' /\ "lastEventTime" \notin changed'
    BY <2>1 DEF Explicit
  <2>9. activity' = LastEventTime'
    <3>1. CASE reads
      BY <2>1, <2>2, <2>4, <2>5, <3>1 DEF LastEventTime
    <3>2. CASE ~reads
      BY <2>1, <2>4, <2>8, <3>2 DEF LastEventTime
    <3> QED BY <3>1, <3>2
  <2>10. UnreadInv'
    BY <2>1, <2>2, <2>3, <2>5, <2>8 DEF UnreadInv
  <2> QED BY <2>6, <2>7, <2>9, <2>10 DEF TimeInv
<1>2. ASSUME NEW state \in {"active", "background"},
             BeginSession(state) \/ handleAppStateChange(state)
      PROVE  TimeInv'
  <2>1. /\ status # "down" /\ status' # "down" /\ clock' = clock /\ activity' = clock
        /\ \/ startNewSessionIfNeeded(clock)
           \/ Assign({"lastEventTime"}, [session EXCEPT !.lastEventTime = clock])
    BY <1>2 DEF BeginSession, handleAppStateChange
  <2> QED BY <1>a, <1>c, <2>1
<1>3. ASSUME NEW delay \in Delays, Track(delay) PROVE TimeInv'
  <2>1. clock - delay \in Times
    BY <1>3, <1>a, SessionAssumption DEF Track, Times
  <2>2. /\ status # "down" /\ status' # "down" /\ clock' = clock /\ activity' = clock - delay
        /\ \/ startNewSessionIfNeeded(clock - delay)
           \/ Assign({"lastEventTime"}, [session EXCEPT !.lastEventTime = clock - delay])
    BY <1>3 DEF Track
  <2> QED BY <1>c, <2>1, <2>2
<1>4. ASSUME extendSession PROVE TimeInv'
  <2>1. /\ status # "down" /\ status' # "down" /\ clock' = clock /\ activity' = clock
        /\ Assign({"lastEventTime"}, [session EXCEPT !.lastEventTime = clock])
    BY <1>4 DEF extendSession
  <2> QED BY <1>a, <1>c, <2>1
<1>5. ASSUME NEW id \in ExplicitIds, setSessionId(id) PROVE TimeInv'
  <2>1. /\ status # "down" /\ status' = status /\ clock' = clock
        /\ activity' = IF FieldsOf(id) = {} THEN activity ELSE clock
        /\ Assign(FieldsOf(id), InSession(id, clock))
    BY <1>5 DEF setSessionId
  <2>2. InSession(id, clock) \in SessionType
    BY <1>a, SessionTypes
  <2>3. CASE session.sessionId = id
    <3>1. FieldsOf(id) = {} /\ InSession(id, clock) = session
      BY <2>3 DEF FieldsOf, InSession
    <3> QED BY <2>1, <2>2, <3>1, SettingKeepsTime
  <2>4. CASE session.sessionId # id
    <3> DEFINE new == InSession(id, clock)
    <3>1. FieldsOf(id) = {"sessionId", "lastEventTime"}
      BY <2>4 DEF FieldsOf
    <3>2. new.sessionId = id /\ new.lastEventTime = clock
      BY <1>a, <2>4 DEF InSession, SessionType
    <3> HIDE DEF new
    <3>3. new \in SessionType /\ Assign({"sessionId", "lastEventTime"}, new) /\ activity' = clock
      BY <2>1, <2>2, <3>1 DEF new
    <3> QED BY <1>a, <1>b, <2>1, <3>2, <3>3, ActivityKeepsTime
  <2> QED BY <2>3, <2>4
<1>6. ASSUME \/ \E user \in Users \cup {NoValue} : setUserId(user)
             \/ \E optOut \in BOOLEAN : setOptOut(optOut)
             \/ reset
      PROVE  TimeInv'
  <2>1. \E fields \in SUBSET SettingFields, new \in SessionType :
          /\ Assign(fields, new) /\ status # "down" /\ status' = status
          /\ UNCHANGED <<clock, activity>>
          /\ new.sessionId = session.sessionId /\ new.lastEventTime = session.lastEventTime
    <3>1. CASE \E user \in Users \cup {NoValue} : setUserId(user)
      <4>1. PICK user \in Users \cup {NoValue} : setUserId(user)
        BY <3>1
      <4> DEFINE new == [session EXCEPT !.userId = user]
      <4>2. new \in SessionType
        BY <1>a, SessionTypes
      <4>3. new.sessionId = session.sessionId /\ new.lastEventTime = session.lastEventTime
        BY <1>a DEF SessionType
      <4>4. {"userId"} \in SUBSET SettingFields /\ Assign({"userId"}, new)
        BY <4>1 DEF setUserId, SettingFields
      <4> HIDE DEF new
      <4> QED BY <4>1, <4>2, <4>3, <4>4 DEF setUserId
    <3>2. CASE \E optOut \in BOOLEAN : setOptOut(optOut)
      <4>1. PICK optOut \in BOOLEAN : setOptOut(optOut)
        BY <3>2
      <4> DEFINE new == [session EXCEPT !.optOut = optOut]
      <4>2. new \in SessionType
        BY <1>a, SessionTypes
      <4>3. new.sessionId = session.sessionId /\ new.lastEventTime = session.lastEventTime
        BY <1>a DEF SessionType
      <4>4. {"optOut"} \in SUBSET SettingFields /\ Assign({"optOut"}, new)
        BY <4>1 DEF setOptOut, SettingFields
      <4> HIDE DEF new
      <4> QED BY <4>1, <4>2, <4>3, <4>4 DEF setOptOut
    <3>3. CASE reset
      <4> DEFINE new == [session EXCEPT !.userId = NoValue, !.deviceId = devices']
      <4>1. devices' \in 1 .. MaxDevices
        BY <3>3, SessionAssumption DEF reset, TypeInv
      <4>2. new \in SessionType
        BY <1>a, <4>1, SessionTypes
      <4>3. new.sessionId = session.sessionId /\ new.lastEventTime = session.lastEventTime
        BY <1>a DEF SessionType
      <4>4. {"userId", "deviceId"} \in SUBSET SettingFields /\ Assign({"userId", "deviceId"}, new)
        BY <3>3 DEF reset, SettingFields
      <4> HIDE DEF new
      <4> QED BY <3>3, <4>2, <4>3, <4>4 DEF reset
    <3> QED BY <1>6, <3>1, <3>2, <3>3
  <2> QED BY <2>1, SettingKeepsTime
<1>7. ASSUME RetryReads PROVE TimeInv'
  <2> DEFINE new == [f \in Fields |-> Fill(f)]
  <2>1. /\ session' = new /\ stored' \in {stored, new} /\ readFailed' = FALSE
        /\ status' = status /\ status # "down" /\ UNCHANGED <<clock, activity>>
    BY <1>7 DEF RetryReads, Write
  <2>2. readFailed
    BY <1>7, <1>a DEF RetryReads
  <2>3. /\ new.sessionId = IF "sessionId" \notin changed /\ stored.sessionId # NoValue
                           THEN stored.sessionId ELSE session.sessionId
        /\ new.lastEventTime = IF "lastEventTime" \notin changed /\ stored.lastEventTime # NoValue
                               THEN stored.lastEventTime ELSE session.lastEventTime
    BY DEF Fill, Fields
  <2> HIDE DEF new
  <2>4. /\ "sessionId" \in changed => "lastEventTime" \in changed
        /\ "sessionId" \notin changed => session.sessionId = NoValue
        /\ "lastEventTime" \notin changed => session.lastEventTime = NoValue
    BY <2>2 DEF TimeInv, UnreadInv
  <2>5. Recent(session)'
    <3>1. CASE "sessionId" \in changed
      BY <2>1, <2>3, <2>4, <3>1 DEF TimeInv, Recent
    <3>2. CASE "lastEventTime" \notin changed
      BY <1>a, <2>1, <2>3, <2>4, <3>2 DEF TimeInv, Recent
    <3>3. CASE "sessionId" \notin changed /\ "lastEventTime" \in changed
      <4>1. new.sessionId = stored.sessionId /\ new.lastEventTime = session.lastEventTime
        BY <2>3, <2>4, <3>3
      <4> QED BY <2>1, <2>2, <3>3, <4>1 DEF TimeInv, Recent, UnreadInv
    <3> QED BY <2>4, <3>1, <3>2, <3>3
  <2>6. Recent(stored)'
    <3>1. CASE stored' = stored
      BY <2>1, <3>1 DEF TimeInv, Recent
    <3>2. CASE stored' = new
      BY <2>1, <2>5, <3>2 DEF Recent
    <3> QED BY <2>1, <3>1, <3>2
  <2>7. activity' = LastEventTime'
    <3>1. LastEventTime' = new.lastEventTime
      BY <2>1 DEF LastEventTime
    <3>2. LastEventTime = new.lastEventTime
      BY <2>1, <2>2, <2>3, <2>4 DEF LastEventTime
    <3> QED BY <2>1, <3>1, <3>2 DEF TimeInv
  <2> QED BY <2>1, <2>5, <2>6, <2>7 DEF TimeInv, UnreadInv
<1>8. ASSUME Stop PROVE TimeInv'
  <2>1. /\ status # "down" /\ status' = "down" /\ session' = NoSession /\ readFailed' = FALSE
        /\ stored' = stored /\ clock' = clock
        /\ activity' = IF readFailed \/ writeLost THEN stored.lastEventTime ELSE activity
    BY <1>8 DEF Stop
  <2>2. NoSession.sessionId = NoValue
    BY DEF NoSession, Fields
  <2>3. Recent(session)' /\ Recent(stored)'
    BY <1>a, <2>1, <2>2 DEF TimeInv, Recent
  <2>4. ~readFailed /\ ~writeLost => activity = stored.lastEventTime
    BY <2>1 DEF TimeInv, LastEventTime, StoredFollows
  <2> QED BY <2>1, <2>3, <2>4 DEF TimeInv, LastEventTime, UnreadInv
<1>9. ASSUME RetryFails \/ Tick \/ UNCHANGED vars PROVE TimeInv'
  <2>1. /\ UNCHANGED <<status, session, stored, readFailed, changed, activity>>
        /\ clock' = clock \/ clock' = clock + 1
    BY <1>9 DEF RetryFails, Tick, vars, configVars, ghosts
  <2>2. Recent(session)' /\ Recent(stored)'
    <3>1. \A t \in Times : t <= clock => t <= clock'
      BY <1>a, <2>1
    <3> QED BY <2>1, <3>1 DEF TimeInv, Recent
  <2> QED BY <2>1, <2>2 DEF TimeInv, LastEventTime, UnreadInv
<1> QED BY <1>1, <1>2, <1>3, <1>4, <1>5, <1>6, <1>7, <1>8, <1>9 DEF Next

-----------------------------------------------------------------------------
(* The theorems.                                                            *)

\* The invariant of identity and opt-out holds of the specification.
LEMMA IdentityInductive == Spec => [](TypeInv /\ IdentityInv)
<1>1. Init => TypeInv /\ IdentityInv
  <2> SUFFICES ASSUME Init PROVE TypeInv /\ IdentityInv
    OBVIOUS
  <2>1. IdentityInv
    BY DEF Init, IdentityInv, WishInv, StoredFollows, OptOutHonoured, ConnectorAgrees
  <2> QED BY <2>1, TypeInit
<1>2. TypeInv /\ IdentityInv /\ [Next]_vars => (TypeInv /\ IdentityInv)'
  BY TypeStep, IdentityStep
<1> QED BY <1>1, <1>2, PTL DEF Spec

\* A user who has opted out stays opted out: also while the stored choice cannot
\* be read, when it is read late, and whatever is set or fails meanwhile.
THEOREM OptOutIsHonoured == Spec => []OptOutHonoured
<1>1. IdentityInv => OptOutHonoured
  BY DEF IdentityInv
<1> QED BY <1>1, IdentityInductive, PTL

\* Nothing that was stored, set or given is lost or contradicted.
THEOREM NothingIsLost == Spec => []SessionIsKept
<1>1. TypeInv /\ IdentityInv => SessionIsKept
  <2> SUFFICES ASSUME TypeInv, IdentityInv PROVE SessionIsKept
    OBVIOUS
  <2>1. RestoreKeeps
    <3> SUFFICES ASSUME status # "down", ~readFailed PROVE Settings(session) = wish
      BY DEF RestoreKeeps
    <3>1. \A f \in SettingFields : wish[f] = session[f]
      BY DEF IdentityInv, WishInv
    <3>2. wish = [f \in SettingFields |-> session[f]]
      BY <3>1 DEF TypeInv
    <3> QED BY <3>2 DEF Settings, SettingFields
  <2> QED BY <2>1 DEF SessionIsKept, TypeInv, IdentityInv
<1> QED BY <1>1, IdentityInductive, PTL

\* So does that of the times, when delays are short.
LEMMA TimeInductive == ASSUME DelaysAreShort PROVE Spec => [](TypeInv /\ TimeInv)
<1>1. Init => TimeInv
  <2> SUFFICES ASSUME Init PROVE TimeInv
    OBVIOUS
  <2>1. session = NoSession /\ stored = NoSession /\ status = "down" /\ activity = NoValue
        /\ readFailed = FALSE
    BY DEF Init
  <2>2. NoSession.sessionId = NoValue /\ NoSession.lastEventTime = NoValue
    BY DEF NoSession, Fields
  <2>3. NoValue \notin Times
    BY SessionAssumption DEF Times
  <2> QED BY <2>1, <2>2, <2>3 DEF TimeInv, Recent, LastEventTime, UnreadInv
<1>2. TypeInv /\ IdentityInv /\ TimeInv /\ [Next]_vars => TimeInv'
  BY TimeStep DEF IdentityInv
<1> QED BY <1>1, <1>2, IdentityInductive, PTL DEF Spec

\* Starting or extending a session cuts it exactly when it should be.
LEMMA StartCutsRightly ==
    ASSUME DelaysAreShort, TypeInv, TimeInv, NEW time \in Times, startNewSessionIfNeeded(time),
           session.sessionId # NoValue => session.lastEventTime = activity
    PROVE  CutIsRight(time)
<1>1. PICK fields \in SUBSET {"sessionId", "lastEventTime"}, new \in SessionType :
        /\ Assign(fields, new)
        /\ shouldStartNewSession(time) <=> new.sessionId # session.sessionId
  BY StartedSession DEF TimeInv
<1>2. session' = new
  <2>1. fields \in SUBSET Fields
    BY DEF Fields
  <2> QED BY <1>1, <2>1, AssignOutcome
<1> SUFFICES ASSUME explicitId = NoValue
             PROVE  shouldStartNewSession(time)
                      <=> session.sessionId = NoValue \/ time >= activity + SessionTimeout
  BY <1>1, <1>2 DEF CutIsRight
<1>3. CASE session.sessionId = NoValue
  BY <1>3 DEF shouldStartNewSession, inSession
<1>4. CASE session.sessionId # NoValue
  <2>1. session.lastEventTime = activity /\ activity # NoValue /\ activity \in Times
    BY <1>4 DEF TimeInv, Recent, TypeInv
  <2>2. shouldStartNewSession(time) <=> ~isWithinMinTimeBetweenSessions(time)
    BY <1>4 DEF shouldStartNewSession, inSession
  <2> QED BY <1>4, <2>1, <2>2, SessionAssumption DEF isWithinMinTimeBetweenSessions, Times
<1> QED BY <1>3, <1>4

\* A session that the application has not set itself is cut when, and only
\* when, the last activity lies a session timeout back, over changes of the app
\* state, delayed events and restarts; as long as no event is given a time a
\* whole timeout back.  Without that a session may begin after its last event.
THEOREM SessionsAreCutOnTime == ASSUME DelaysAreShort PROVE Spec => CutOnTime
<1> DEFINE
      Cuts ==
        /\ \A state \in {"active", "background"} :
              BeginSession(state) /\ ~readFailed => CutIsRight(clock)
        /\ handleAppStateChange("active") => CutIsRight(clock)
        /\ appState = "background" =>
              \A delay \in Delays : Track(delay) => CutIsRight(clock - delay)
<1>1. TypeInv /\ TimeInv => Cuts
  <2> SUFFICES ASSUME TypeInv, TimeInv PROVE Cuts
    OBVIOUS
  <2>1. clock \in Times
    BY DEF TypeInv
  <2>2. ASSUME status # "down", session.sessionId # NoValue
        PROVE  session.lastEventTime = activity
    BY <2>2 DEF TimeInv, LastEventTime, UnreadInv
  <2>3. ASSUME NEW state \in {"active", "background"}, BeginSession(state)
        PROVE  CutIsRight(clock)
    BY <2>1, <2>2, <2>3, StartCutsRightly DEF BeginSession
  <2>4. ASSUME handleAppStateChange("active") PROVE CutIsRight(clock)
    BY <2>1, <2>2, <2>4, StartCutsRightly DEF handleAppStateChange
  <2>5. ASSUME appState = "background", NEW delay \in Delays, Track(delay)
        PROVE  CutIsRight(clock - delay)
    <3>1. clock - delay \in Times
      BY <2>1, <2>5, SessionAssumption DEF Track, Times
    <3> QED BY <2>2, <2>5, <3>1, StartCutsRightly DEF Track
  <2> QED BY <2>3, <2>4, <2>5
<1> QED BY <1>1, TimeInductive, PTL DEF CutOnTime
=============================================================================
