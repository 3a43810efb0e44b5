------------------------------ MODULE Session -------------------------------
(***************************************************************************)
(* The user session of the analytics client: the configuration that caches *)
(* it and writes it to the session storage (ReactNativeConfig and          *)
(* useReactNativeConfig in src/analytics/config.ts), and the client's code *)
(* that starts and extends sessions (src/analytics/react-native-client.ts).*)
(*                                                                         *)
(* When the stored session cannot be read at start, the client goes on     *)
(* with what it has, opted out, and writes nothing; every later change     *)
(* tries to read the session again, and what was stored then fills the     *)
(* fields that nobody has set meanwhile.                                   *)
(*                                                                         *)
(* Left out: lastEventId, cookies of older SDKs, the events themselves.    *)
(***************************************************************************)
EXTENDS Naturals, FiniteSets

CONSTANTS
    Users,          \* user ids the application sets; NoValue is no user
    ExplicitIds,    \* session ids the application sets
    NoValue,        \* undefined
    SessionTimeout, \* config.sessionTimeout
    Delays,         \* how far back the time of a tracked event may lie
    MaxTime,        \* bound: the clock
    MaxDevices,     \* bound: device ids made with UUID()
    MaxFailures     \* bound: reads and writes of the session storage that fail

ASSUME SessionAssumption ==
    /\ SessionTimeout \in Nat /\ MaxTime \in Nat /\ MaxDevices \in Nat /\ MaxFailures \in Nat
    /\ Delays \subseteq Nat /\ 0 \in Delays
    /\ NoValue \notin Users \cup ExplicitIds \cup (0 .. MaxTime) \cup (0 .. MaxDevices)
    /\ NoValue \notin BOOLEAN
    /\ ExplicitIds \cap (0 .. MaxTime) = {}

VARIABLES
    status,         \* of the client: down, configured, ready
    session,        \* the fields that ReactNativeConfig keeps in memory
    stored,         \* what the session storage holds
    readFailed,     \* sessionReadFailed
    changed,        \* changedSinceReadFailure
    retrying,       \* sessionRetry is pending
    explicitId,     \* explicitSessionId
    appState,
    connector,      \* the identity in the store shared with the experiment SDK
    clock, devices, failures,
    \* What the properties remember:
    writeLost,      \* the last write of the session failed
    wish,           \* the identity and opt-out that hold: stored at start unless
                    \* given then, or set since
    kept,           \* what was stored when the client started
    activity        \* time of the latest activity in the session, of those
                    \* that the storage has taken when the client stops

configVars == <<session, stored, readFailed, changed, retrying>>
ghosts == <<wish, kept>>
vars == <<status, configVars, explicitId, appState, connector, clock, devices,
          failures, writeLost, ghosts, activity>>

Fields == {"deviceId", "userId", "optOut", "sessionId", "lastEventTime"}
NoSession == [f \in Fields |-> IF f = "optOut" THEN FALSE ELSE NoValue]
Identity(s) == [userId |-> s.userId, deviceId |-> s.deviceId]
Settings(s) == [f \in {"userId", "deviceId", "optOut"} |-> s[f]]

Init ==
    /\ status = "down" /\ session = NoSession /\ stored = NoSession
    /\ readFailed = FALSE /\ changed = {} /\ retrying = FALSE
    /\ explicitId = NoValue /\ appState = "background"
    /\ connector = Identity(NoSession)
    /\ clock = 0 /\ devices = 0 /\ failures = 0
    /\ writeLost = FALSE /\ wish = Settings(NoSession) /\ kept = NoSession
    /\ activity = NoValue

-----------------------------------------------------------------------------
(* ReactNativeConfig.                                                      *)

\* The session storage takes a write, or fails and keeps what it has.
Write(new) ==
    \/ stored' = new /\ writeLost' = FALSE /\ UNCHANGED failures
    \/ /\ failures < MaxFailures /\ failures' = failures + 1
       /\ writeLost' = TRUE /\ UNCHANGED stored

\* noteChange: every assignment counts, also of the value the field has.
Noted(fields, new) == fields

\* What is stored is unknown: it must not be overwritten.
Unread_Never == FALSE
Unread == readFailed

\* The setters: `fields' are assigned and the session becomes `new'.  It is
\* written, or if the stored one is still unread that is tried again.
Assign(fields, new) ==
    /\ session' = new
    /\ changed' = IF readFailed THEN changed \cup Noted(fields, new) ELSE changed
    /\ IF new = session
       THEN UNCHANGED <<stored, writeLost, failures, retrying>>
       ELSE IF Unread
       THEN retrying' = TRUE /\ UNCHANGED <<stored, writeLost, failures>>
       ELSE Write(new) /\ UNCHANGED retrying
    /\ UNCHANGED readFailed

\* Which value a field has after the stored session could be read.
Fill(f) ==
    IF f \notin changed /\ (f = "optOut" \/ stored[f] # NoValue) THEN stored[f] ELSE session[f]

Synced(new) == Identity(new)

Remembered == {}

\* retrySessionRead: after its await.
RetryReads ==
    /\ retrying /\ status # "down"
    /\ LET new == [f \in Fields |-> Fill(f)] IN
       /\ session' = new
       /\ Write(new)
       /\ connector' = IF status = "ready" THEN Synced(new) ELSE connector
    /\ readFailed' = FALSE /\ changed' = Remembered /\ retrying' = FALSE
    /\ UNCHANGED <<status, explicitId, appState, clock, devices, ghosts, activity>>

RetryFails ==
    /\ retrying /\ status # "down" /\ failures < MaxFailures
    /\ failures' = failures + 1 /\ retrying' = FALSE
    /\ UNCHANGED <<status, session, stored, readFailed, changed, explicitId, appState,
                   connector, clock, devices, writeLost, ghosts, activity>>

-----------------------------------------------------------------------------
(* Starting a client.                                                      *)

Or(option, otherwise) == IF option # NoValue THEN option ELSE otherwise

OptOutAtStart_Open(option, reads) == Or(option, IF reads THEN stored.optOut ELSE FALSE)

\* Without the stored session the client is opted out, unless told otherwise.
OptOutAtStart(option, reads) == Or(option, IF reads THEN stored.optOut ELSE TRUE)

\* The fields that options give, which a late restore leaves alone.
Explicit(user, optOut) ==
    {f \in {"userId", "optOut"} : (IF f = "userId" THEN user ELSE optOut) # NoValue}

\* useReactNativeConfig and the constructor: the stored session is read, the
\* options go before it, and a device id is made up if there is none.
useReactNativeConfig(user, optOut, id, reads) ==
    /\ status = "down"
    /\ LET found == IF reads THEN stored ELSE NoSession
           new == [found EXCEPT
                     !.userId = Or(user, @),
                     !.optOut = OptOutAtStart(optOut, reads),
                     !.deviceId = Or(@, devices + 1)]
       IN
       /\ devices < MaxDevices \/ found.deviceId # NoValue
       /\ devices' = IF found.deviceId = NoValue THEN devices + 1 ELSE devices
       /\ session' = new
       /\ IF reads
          THEN Write(new)
          ELSE /\ failures < MaxFailures /\ failures' = failures + 1
               /\ UNCHANGED <<stored, writeLost>>
    /\ readFailed' = ~reads
    /\ changed' = IF reads THEN {} ELSE Explicit(user, optOut)
    /\ wish' = [userId |-> Or(user, stored.userId), optOut |-> Or(optOut, stored.optOut),
                deviceId |-> Or(stored.deviceId, session'.deviceId)]
    /\ kept' = stored
    /\ status' = "configured" /\ explicitId' = id /\ retrying' = FALSE
    /\ UNCHANGED <<appState, connector, clock, activity>>

-----------------------------------------------------------------------------
(* Sessions.                                                               *)

inSession(s) == s.sessionId # NoValue

isWithinMinTimeBetweenSessions(time) ==
    time < (IF session.lastEventTime = NoValue THEN 0 ELSE session.lastEventTime) + SessionTimeout

shouldStartNewSession_EvenExplicit(time) ==
    ~inSession(session) \/ ~isWithinMinTimeBetweenSessions(time)
shouldStartNewSession(time) ==
    \/ ~inSession(session)
    \/ /\ explicitId # session.sessionId
       /\ explicitId # NoValue \/ ~isWithinMinTimeBetweenSessions(time)

\* setSessionIdInternal; the events of the end and the start of the session
\* assign lastEventTime as well.
InSession(id, time) ==
    IF session.sessionId = id THEN session
    ELSE [session EXCEPT !.sessionId = id, !.lastEventTime = time]
FieldsOf(id) == IF session.sessionId = id THEN {} ELSE {"sessionId", "lastEventTime"}

startNewSessionIfNeeded(time) ==
    LET id == Or(explicitId, time) IN
    IF shouldStartNewSession(time)
    THEN Assign(FieldsOf(id), InSession(id, time))
    ELSE Assign({"lastEventTime"}, [session EXCEPT !.lastEventTime = time])

\* Init goes on: the identity is shared and a session is started or resumed.
BeginSession(state) ==
    /\ status = "configured" /\ status' = "ready"
    /\ appState' = state
    /\ connector' = Identity(session)
    /\ startNewSessionIfNeeded(clock)
    /\ activity' = clock
    /\ UNCHANGED <<explicitId, clock, devices, ghosts>>

\* process: an event is given its session.  Opted-out clients send nothing.
Track(delay) ==
    /\ status = "ready" /\ ~session.optOut /\ delay <= clock
    /\ LET time == clock - delay IN
       /\ IF appState # "active"
          THEN startNewSessionIfNeeded(time)
          ELSE Assign({"lastEventTime"}, [session EXCEPT !.lastEventTime = time])
       /\ activity' = time
    /\ UNCHANGED <<status, explicitId, appState, connector, clock, devices, ghosts>>

\* handleAppStateChange: enterForeground and exitForeground.
handleAppStateChange(next) ==
    /\ status = "ready" /\ next # appState /\ appState' = next
    /\ IF next = "active"
       THEN startNewSessionIfNeeded(clock)
       ELSE Assign({"lastEventTime"}, [session EXCEPT !.lastEventTime = clock])
    /\ activity' = clock
    /\ UNCHANGED <<status, explicitId, connector, clock, devices, ghosts>>

setSessionId(id) ==
    /\ status # "down"
    /\ explicitId' = id
    /\ Assign(FieldsOf(id), InSession(id, clock))
    /\ activity' = IF FieldsOf(id) = {} THEN activity ELSE clock
    /\ UNCHANGED <<status, appState, connector, clock, devices, ghosts>>

extendSession ==
    /\ status # "down"
    /\ Assign({"lastEventTime"}, [session EXCEPT !.lastEventTime = clock])
    /\ activity' = clock
    /\ UNCHANGED <<status, explicitId, appState, connector, clock, devices, ghosts>>

-----------------------------------------------------------------------------
(* Identity and opt-out.                                                   *)

\* setUserId and reset: the configuration and the connector.
setUserId(user) ==
    /\ status # "down"
    /\ Assign({"userId"}, [session EXCEPT !.userId = user])
    /\ connector' = [connector EXCEPT !.userId = user]
    /\ wish' = [wish EXCEPT !.userId = user]
    /\ UNCHANGED <<status, explicitId, appState, clock, devices, kept, activity>>

reset ==
    /\ status # "down" /\ devices < MaxDevices
    /\ devices' = devices + 1
    /\ Assign({"userId", "deviceId"},
              [session EXCEPT !.userId = NoValue, !.deviceId = devices'])
    /\ connector' = [userId |-> NoValue, deviceId |-> devices']
    /\ wish' = [wish EXCEPT !.userId = NoValue, !.deviceId = devices']
    /\ UNCHANGED <<status, explicitId, appState, clock, kept, activity>>

setOptOut(optOut) ==
    /\ status # "down"
    /\ Assign({"optOut"}, [session EXCEPT !.optOut = optOut])
    /\ wish' = [wish EXCEPT !.optOut = optOut]
    /\ UNCHANGED <<status, explicitId, appState, connector, clock, devices, kept, activity>>

\* The process ends, or the client is shut down: only the storage is left.
Stop ==
    /\ status # "down" /\ status' = "down"
    /\ session' = NoSession /\ readFailed' = FALSE /\ changed' = {} /\ retrying' = FALSE
    /\ connector' = Identity(NoSession) /\ appState' = "background"
    /\ explicitId' = NoValue /\ wish' = Settings(NoSession) /\ kept' = NoSession
    /\ activity' = IF readFailed \/ writeLost THEN stored.lastEventTime ELSE activity
    /\ UNCHANGED <<stored, clock, devices, failures, writeLost>>

Tick ==
    /\ clock < MaxTime /\ clock' = clock + 1
    /\ UNCHANGED <<status, configVars, explicitId, appState, connector, devices,
                   failures, writeLost, ghosts, activity>>

Next ==
    \/ \E user \in Users \cup {NoValue}, optOut \in BOOLEAN \cup {NoValue},
          id \in ExplicitIds \cup {NoValue}, reads \in BOOLEAN :
          useReactNativeConfig(user, optOut, id, reads)
    \/ \E state \in {"active", "background"} : BeginSession(state) \/ handleAppStateChange(state)
    \/ \E delay \in Delays : Track(delay)
    \/ \E id \in ExplicitIds : setSessionId(id)
    \/ extendSession
    \/ \E user \in Users \cup {NoValue} : setUserId(user)
    \/ reset
    \/ \E optOut \in BOOLEAN : setOptOut(optOut)
    \/ RetryReads \/ RetryFails
    \/ Stop \/ Tick

Spec == Init /\ [][Next]_vars

-----------------------------------------------------------------------------
(* Properties.                                                             *)

Ids == ExplicitIds \cup (0 .. MaxTime) \cup {NoValue}
SessionType ==
    [deviceId : (1 .. MaxDevices) \cup {NoValue}, userId : Users \cup {NoValue},
     optOut : BOOLEAN, sessionId : Ids, lastEventTime : (0 .. MaxTime) \cup {NoValue}]

\* The types of the variables; only a client that could not read its session
\* remembers changes or tries again.
TypeOK ==
    /\ status \in {"down", "configured", "ready"}
    /\ {session, stored, kept} \subseteq SessionType
    /\ changed \subseteq Fields
    /\ {readFailed, retrying, writeLost} \subseteq BOOLEAN
    /\ explicitId \in ExplicitIds \cup {NoValue} /\ appState \in {"active", "background"}
    /\ ~readFailed => changed = {} /\ ~retrying

\* Whoever has opted out, in this process or an earlier one, is opted out:
\* also while the stored choice cannot be read, and after it could be.
OptOutHonoured == status # "down" /\ wish.optOut => session.optOut

\* What is stored is what the client has, once it has read it; until then
\* the stored session stays as it was.
StoredFollows ==
    status # "down" => IF readFailed THEN stored = kept
                       ELSE writeLost \/ stored = session

\* A failed read costs the user nothing: when the session has been read after
\* all, identity and opt-out are as if it had been read at start, with what
\* the application has given or set since.
RestoreKeeps == status # "down" /\ ~readFailed => Settings(session) = wish

\* The experiment SDK sees the identity that the client has.
ConnectorAgrees == status = "ready" => connector = Identity(session)

\* A session that the application has not set itself is cut when, and only
\* when, the last activity lies SessionTimeout back: from one app state to the
\* other, for events in the background, and over restarts whose session could
\* be read and had been written.
CutIsRight(time) ==
    explicitId = NoValue =>
        (session'.sessionId # session.sessionId
            <=> session.sessionId = NoValue \/ time >= activity + SessionTimeout)
CutOnTime ==
    [][/\ \A state \in {"active", "background"} :
             BeginSession(state) /\ ~readFailed => CutIsRight(clock)
       /\ handleAppStateChange("active") => CutIsRight(clock)
       /\ appState = "background" =>
             \A delay \in Delays : Track(delay) => CutIsRight(clock - delay)]_vars

\* Nothing that was stored, set or given is lost or contradicted: neither on
\* disk nor by a late restore nor by what the connector gives out.
SessionIsKept == TypeOK /\ StoredFollows /\ RestoreKeeps /\ ConnectorAgrees
=============================================================================
