----------------------------- MODULE Credentials -----------------------------
(***************************************************************************)
(* The credential provider (credentials/provider.go) and the loop that     *)
(* hands its credentials to the backend (credentialRefreshLoop of          *)
(* proxy/manager.go), from Start to suspend.                               *)
(*                                                                         *)
(* Timers fire in goroutines of their own, so that loads overlap, and      *)
(* scheduleExpiryRefresh and scheduleRetry replace a timer in two steps    *)
(* without a lock: a timer can stay armed that no variable knows any more, *)
(* an orphan.  Credentials are numbers, the newest of the source being the *)
(* greatest; timers fire and credentials expire at any time.  How long the *)
(* expiry timer runs is RefreshDelay.  The end of the context and Stop are *)
(* left out: the one ends the process, the other stops no timer.           *)
(***************************************************************************)
EXTENDS Integers, FiniteSets

CONSTANTS
    Loaders,      \* goroutines that can be at work at a time
    MaxVersion,   \* bounds the renewals of the credentials
    MaxRemaining  \* the seconds of life for which RefreshDelay is checked

ASSUME CredentialsAssumption == MaxVersion \in Nat \ {0} /\ MaxRemaining \in Nat

VARIABLES
    source, available, \* the AWS files and SSO
    last,              \* lastCreds, 0 before the first
    refreshCh,         \* the channel's only place, 0 if it is empty
    current, orphans,  \* of each kind: its variable's timer is armed, some other is
    loader,
    stage,             \* "starting", "watching", "serving"
    used,              \* the credentials that the backend has
    owed,              \* since the last success, a load failed that has to be retried
    lapsed,            \* the last success scheduled nothing
    alone              \* the last load overlapped with no other

worldVars == <<source, available>>
timerVars == <<current, orphans>>
vars == <<worldVars, last, refreshCh, timerVars, loader, stage, used, owed, lapsed, alone>>

Versions == 1 .. MaxVersion
Kinds    == {"debounce", "expiry", "retry"}

NoLoad      == [pc |-> "idle", kind |-> "start", creds |-> 0]
At(l, pc)   == loader[l].pc = pc
Goto(l, pc) == loader' = [loader EXCEPT ![l].pc = pc]
Then(l, pc) == loader' = [loader EXCEPT ![l] = [NoLoad EXCEPT !.pc = pc]]
Working     == {l \in Loaders : ~At(l, "idle")}

-----------------------------------------------------------------------------
(* Timers.                                                                 *)

\* Mutant: the buffer has no minimum.
RefreshDelay_NoMinimum(remaining) ==
    LET fifth  == remaining \div 5
        buffer == IF fifth > 300 THEN 300 ELSE fifth
        delay  == remaining - buffer
    IN  IF delay < 10 THEN 10 ELSE delay

\* Seconds until credentials with that many seconds to live are refreshed.
RefreshDelay(remaining) ==
    LET fifth  == remaining \div 5
        buffer == IF fifth < 30 THEN 30 ELSE IF fifth > 300 THEN 300 ELSE fifth
        delay  == remaining - buffer
    IN  IF delay < 10 THEN 10 ELSE delay

StopTimer(k) == current' = [current EXCEPT ![k] = FALSE] /\ UNCHANGED orphans

\* The variable gets a new timer; one that it had and that is armed stays so.
ArmTimer(k) ==
    /\ current' = [current EXCEPT ![k] = TRUE]
    /\ orphans' = [orphans EXCEPT ![k] = @ \/ current[k]]

\* A timer fires; its callback begins to load.
Fire(l, k) ==
    /\ At(l, "idle")
    /\ \/ current[k] /\ StopTimer(k)
       \/ /\ orphans[k] /\ orphans' \in {orphans, [orphans EXCEPT ![k] = FALSE]}
          /\ UNCHANGED current
    /\ loader' = [loader EXCEPT ![l] = [pc |-> "load", kind |-> k, creds |-> 0]]
    /\ alone' = (alone /\ Working = {})
    /\ UNCHANGED <<worldVars, last, refreshCh, stage, used, owed, lapsed>>

-----------------------------------------------------------------------------
(* loadAndSend, and what its callers do after it.                          *)

\* Mutant: only a failed refresh before the expiry is retried, not a failed reload.
Load_NoRetry(l) ==
    /\ At(l, "load")
    /\ IF available
       THEN /\ loader' = [loader EXCEPT ![l].pc = "store", ![l].creds = source]
            /\ owed' = FALSE /\ alone' = (Working = {l})
       ELSE /\ IF loader[l].kind \in {"start", "debounce"} THEN Then(l, "idle") ELSE Then(l, "stopRetry")
            /\ owed' = (owed \/ loader[l].kind # "start") /\ UNCHANGED alone
    /\ UNCHANGED <<worldVars, last, refreshCh, timerVars, stage, used, lapsed>>

\* Mutant: a retry that fails is the last one.
Load_RetryOnce(l) ==
    /\ At(l, "load")
    /\ IF available
       THEN /\ loader' = [loader EXCEPT ![l].pc = "store", ![l].creds = source]
            /\ owed' = FALSE /\ alone' = (Working = {l})
       ELSE /\ IF loader[l].kind \in {"start", "retry"} THEN Then(l, "idle") ELSE Then(l, "stopRetry")
            /\ owed' = (owed \/ loader[l].kind # "start") /\ UNCHANGED alone
    /\ UNCHANGED <<worldVars, last, refreshCh, timerVars, stage, used, lapsed>>

\* Mutant: the error is logged and what came with it is used.
Load_NoError(l) ==
    /\ At(l, "load")
    /\ loader' = [loader EXCEPT ![l].pc = "store", ![l].creds = IF available THEN source ELSE 0]
    /\ owed' = FALSE /\ alone' = (Working = {l})
    /\ UNCHANGED <<worldVars, last, refreshCh, timerVars, stage, used, lapsed>>

\* The SDK gives the source's credentials or fails; the caller of Start gives
\* up, a callback will have a retry.
Load(l) ==
    /\ At(l, "load")
    /\ IF available
       THEN /\ loader' = [loader EXCEPT ![l].pc = "store", ![l].creds = source]
            /\ owed' = FALSE /\ alone' = (Working = {l})
       ELSE /\ IF loader[l].kind = "start" THEN Then(l, "idle") ELSE Then(l, "stopRetry")
            /\ owed' = (owed \/ loader[l].kind # "start") /\ UNCHANGED alone
    /\ UNCHANGED <<worldVars, last, refreshCh, timerVars, stage, used, lapsed>>

Store(l) ==
    /\ At(l, "store") /\ Goto(l, "send") /\ last' = loader[l].creds
    /\ UNCHANGED <<worldVars, refreshCh, timerVars, stage, used, owed, lapsed, alone>>

\* Mutant: the expiry timer is not renewed by its own callback.
Loaded_Once(l) ==
    /\ IF loader[l].kind \in {"retry", "expiry"}
       THEN Then(l, "idle") /\ lapsed' = (lapsed \/ loader[l].kind = "retry")
       ELSE Then(l, "stopExpiry") /\ UNCHANGED lapsed
    /\ stage' = IF loader[l].kind = "start" THEN "watching" ELSE stage

\* After a success the next refresh is scheduled, except by a retry.  For the
\* caller of Start stage does it, which begins to watch.
Loaded(l) ==
    /\ IF loader[l].kind = "retry" THEN Then(l, "idle") /\ lapsed' = TRUE
       ELSE Then(l, "stopExpiry") /\ UNCHANGED lapsed
    /\ stage' = IF loader[l].kind = "start" THEN "watching" ELSE stage

\* Mutant: credentials that find the channel full are dropped.
TrySend_Dropped(l) ==
    /\ At(l, "send") /\ Loaded(l)
    /\ refreshCh' = IF refreshCh = 0 THEN loader[l].creds ELSE refreshCh
    /\ UNCHANGED <<worldVars, last, timerVars, used, owed, alone>>

TrySend(l) ==
    /\ At(l, "send")
    /\ IF refreshCh = 0 THEN refreshCh' = loader[l].creds /\ Loaded(l)
       ELSE Goto(l, "drain") /\ UNCHANGED <<refreshCh, stage, lapsed>>
    /\ UNCHANGED <<worldVars, last, timerVars, used, owed, alone>>

\* Takes what is in the channel, if there still is anything.
Drain(l) ==
    /\ At(l, "drain") /\ Goto(l, "block") /\ refreshCh' = 0
    /\ UNCHANGED <<worldVars, last, timerVars, stage, used, owed, lapsed, alone>>

BlockedSend(l) ==
    /\ At(l, "block") /\ refreshCh = 0 /\ refreshCh' = loader[l].creds /\ Loaded(l)
    /\ UNCHANGED <<worldVars, last, timerVars, used, owed, alone>>

\* The first half of scheduleExpiryRefresh and scheduleRetry.
StopExpiry(l) ==
    /\ At(l, "stopExpiry") /\ Goto(l, "armExpiry") /\ StopTimer("expiry")
    /\ UNCHANGED <<worldVars, last, refreshCh, stage, used, owed, lapsed, alone>>

StopRetry(l) ==
    /\ At(l, "stopRetry") /\ Goto(l, "armRetry") /\ StopTimer("retry")
    /\ UNCHANGED <<worldVars, last, refreshCh, stage, used, owed, lapsed, alone>>

\* The second.  No timer for credentials that do not expire or have expired.
ArmExpiry(l) ==
    /\ At(l, "armExpiry") /\ Then(l, "idle")
    /\ \/ UNCHANGED timerVars /\ lapsed' = TRUE
       \/ ArmTimer("expiry") /\ lapsed' = FALSE
    /\ UNCHANGED <<worldVars, last, refreshCh, stage, used, owed, alone>>

ArmRetry(l) ==
    /\ At(l, "armRetry") /\ Then(l, "idle") /\ ArmTimer("retry")
    /\ UNCHANGED <<worldVars, last, refreshCh, stage, used, owed, lapsed, alone>>

LoaderStep(l) ==
    \/ Load(l) \/ Store(l) \/ TrySend(l) \/ Drain(l) \/ BlockedSend(l)
    \/ StopExpiry(l) \/ ArmExpiry(l) \/ StopRetry(l) \/ ArmRetry(l)

-----------------------------------------------------------------------------
(* The manager.                                                            *)

\* initializeProxy makes a backend with the last credentials and starts
\* credentialRefreshLoop.
Serve ==
    /\ stage = "watching" /\ stage' = "serving" /\ used' = last
    /\ UNCHANGED <<worldVars, last, refreshCh, timerVars, loader, owed, lapsed, alone>>

\* Mutant: the loop needs a lock that a loader holds while it sends.
CredentialRefresh_Locked ==
    /\ \A l \in Loaders : ~At(l, "block")
    /\ stage = "serving" /\ refreshCh # 0 /\ used' = refreshCh /\ refreshCh' = 0
    /\ UNCHANGED <<worldVars, last, timerVars, loader, stage, owed, lapsed, alone>>

\* credentialRefreshLoop takes credentials and calls OnCredentialUpdate.
CredentialRefresh ==
    /\ stage = "serving" /\ refreshCh # 0 /\ used' = refreshCh /\ refreshCh' = 0
    /\ UNCHANGED <<worldVars, last, timerVars, loader, stage, owed, lapsed, alone>>

-----------------------------------------------------------------------------
(* The world.                                                              *)

Renew ==
    /\ source < MaxVersion /\ source' = source + 1
    /\ UNCHANGED <<available, last, refreshCh, timerVars, loader, stage, used, owed, lapsed, alone>>

\* They are renewed by a write to a watched file: the debounce timer starts anew.
WatchEvent ==
    /\ stage # "starting" /\ source < MaxVersion /\ source' = source + 1
    /\ current' = [current EXCEPT !["debounce"] = TRUE]
    /\ UNCHANGED <<available, last, refreshCh, orphans, loader, stage, used, owed, lapsed, alone>>

Outage ==
    /\ available' = ~available
    /\ UNCHANGED <<source, last, refreshCh, timerVars, loader, stage, used, owed, lapsed, alone>>

\* Start has just been called.
Init ==
    /\ source = 1 /\ available = TRUE
    /\ last = 0 /\ refreshCh = 0
    /\ current = [k \in Kinds |-> FALSE] /\ orphans = [k \in Kinds |-> FALSE]
    /\ \E l \in Loaders :
        loader = [x \in Loaders |-> IF x = l THEN [NoLoad EXCEPT !.pc = "load"] ELSE NoLoad]
    /\ stage = "starting" /\ used = 0
    /\ owed = FALSE /\ lapsed = FALSE /\ alone = TRUE

Next ==
    \/ \E l \in Loaders : LoaderStep(l) \/ \E k \in Kinds : Fire(l, k)
    \/ WatchEvent
    \/ Serve \/ CredentialRefresh
    \/ Renew \/ Outage

Spec == Init /\ [][Next]_vars

\* Goroutines go on, and timers fire.  Fairness is strong for a loader, since
\* senders that block are served in turn, and for Fire, since that a callback
\* finds all of Loaders at work is due to the bound alone.
FairSpec ==
    /\ Spec
    /\ \A l \in Loaders : SF_vars(LoaderStep(l))
    /\ SF_vars(\E l \in Loaders : Fire(l, "retry"))
    /\ WF_vars(CredentialRefresh)

-----------------------------------------------------------------------------

Labels == {"idle", "load", "store", "send", "drain", "block",
           "stopExpiry", "armExpiry", "stopRetry", "armRetry"}
Loads  == [pc : Labels, kind : Kinds \cup {"start"}, creds : 0 .. MaxVersion]

WorldOK  == source \in Versions /\ available \in BOOLEAN
NumberOK ==
    /\ last \in 0 .. MaxVersion /\ refreshCh \in 0 .. MaxVersion /\ used \in 0 .. MaxVersion
    /\ stage \in {"starting", "watching", "serving"}
TimerOK  == current \in [Kinds -> BOOLEAN] /\ orphans \in [Kinds -> BOOLEAN]
LoaderOK ==
    /\ loader \in [Loaders -> Loads]
    /\ \A l \in Loaders :
        loader[l].pc \in {"store", "send", "drain", "block"} => loader[l].creds \in Versions
FlagOK   == owed \in BOOLEAN /\ lapsed \in BOOLEAN /\ alone \in BOOLEAN

TypeOK == WorldOK /\ NumberOK /\ TimerOK /\ LoaderOK /\ FlagOK

Armed(k) == current[k] \/ orphans[k]

\* Whatever overlaps, a callback whose load failed has a retry: its timer is
\* armed, or it has fired, or somebody is about to arm it (scheduleRetry).
FailureIsRetried ==
    owed =>
        Armed("retry") \/ \E l \in Loaders : loader[l].pc \in {"load", "stopRetry", "armRetry"}

\* However loads overlap, the credentials have a refresh or a retry ahead of
\* them (scheduleExpiryRefresh).  The exceptions are that the last success was a
\* retry's, which schedules nothing, and that it found nothing to schedule.
ExpiryIsWatched ==
    (Working = {} /\ stage # "starting" /\ ~lapsed) => Armed("expiry") \/ Armed("retry")

\* Credentials of a load that no other one overlapped reach the backend, even
\* if older ones were in the channel or on their way (loadAndSend).
NewestReachesBackend ==
    (Working = {} /\ alone /\ stage = "serving") =>
        refreshCh = last \/ (refreshCh = 0 /\ used = last)

-----------------------------------------------------------------------------
(* What these need to be inductive, together with TypeOK.                  *)

LoadLabels == {"load", "store", "send", "drain", "block"}

\* While Start loads, nobody else does, no timer is armed and nothing failed.
StartInv ==
    /\ stage = "starting" =>
        /\ ~owed
        /\ \A k \in Kinds : ~current[k] /\ ~orphans[k]
        /\ \A l, m \in Working : l = m
        /\ \A l \in Working : loader[l].kind = "start" /\ loader[l].pc \in LoadLabels
    /\ \A l \in Loaders : loader[l].kind = "start" /\ loader[l].pc \in LoadLabels
        => stage = "starting"

\* A load that no other one overlaps puts the last credentials where the loop
\* or Serve finds them, or is about to.
NewestInv ==
    alone =>
        /\ \A l, m \in Working : l = m
        /\ \A l \in Loaders : loader[l].pc \in {"send", "drain", "block"} => loader[l].creds = last
        /\ (\A l \in Loaders : loader[l].pc \notin {"store", "send", "drain", "block"}) =>
               refreshCh = last \/ (stage = "serving" /\ refreshCh = 0 /\ used = last)

IndInv == TypeOK /\ StartInv /\ FailureIsRetried /\ ExpiryIsWatched /\ NewestInv

-----------------------------------------------------------------------------
\* A refresh is never due after the expiry if there are more than 10 seconds,
\* comes 30 seconds before it if there are 40, and not earlier than 5 minutes
\* before it or after four fifths of the time (scheduleExpiryRefresh).
RefreshIsTimely ==
    stage = "starting" =>
        \A r \in 1 .. MaxRemaining :
            LET left == r - RefreshDelay(r)
            IN  /\ RefreshDelay(r) >= 10 /\ left <= 300
                /\ r > 10 => left > 0
                /\ r >= 40 => left >= 30
                /\ r >= 150 => 5 * left <= r

\* A loader that found the channel full and filled again is released as long as
\* the loop runs (loadAndSend, credentialRefreshLoop).
SenderIsReleased ==
    \A l \in Loaders : At(l, "block") ~> ~At(l, "block") \/ stage # "serving"

\* After a callback's load failed, credentials are loaded once they are available again,
\* whatever happens to the retry timer meanwhile (scheduleRetry).
RecoversFromOutage == owed ~> ~owed \/ ~available

=============================================================================
