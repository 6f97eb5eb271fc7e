-------------------------- MODULE CredentialsProofs --------------------------
(* Proofs about the credential provider, for any number of loaders that      *)
(* overlap and of renewals.                                                  *)
EXTENDS Credentials, TLAPS

\* However long credentials live, scheduleExpiryRefresh picks the time to
\* refresh them as its comments say.
THEOREM Timely == Spec => []RefreshIsTimely
<1>1. ASSUME NEW r \in 1 .. MaxRemaining
      PROVE  LET left == r - RefreshDelay(r)
             IN  /\ RefreshDelay(r) >= 10 /\ left <= 300
                 /\ r > 10 => left > 0
                 /\ r >= 40 => left >= 30
                 /\ r >= 150 => 5 * left <= r
  <2>1. r \in Nat
    BY CredentialsAssumption
  <2>2. PICK fifth \in Nat : fifth = r \div 5 /\ 5 * fifth <= r /\ r < 5 * fifth + 5
    BY <2>1
  <2>3. RefreshDelay(r) =
          LET buffer == IF fifth < 30 THEN 30 ELSE IF fifth > 300 THEN 300 ELSE fifth
          IN  IF r - buffer < 10 THEN 10 ELSE r - buffer
    BY <2>2 DEF RefreshDelay
  <2> QED
    BY <2>1, <2>2, <2>3
<1>2. RefreshIsTimely
  BY <1>1 DEF RefreshIsTimely
<1> QED
  BY <1>2, PTL

-----------------------------------------------------------------------------
(* The inductive invariant.                                                  *)

LEMMA InitInv == Init => IndInv
<1> SUFFICES ASSUME Init PROVE IndInv
  OBVIOUS
<1> USE CredentialsAssumption DEF Init, Kinds, Versions, Labels
<1>1. PICK x \in Loaders :
        loader = [y \in Loaders |-> IF y = x THEN [NoLoad EXCEPT !.pc = "load"] ELSE NoLoad]
  OBVIOUS
<1>2. /\ loader[x] = [pc |-> "load", kind |-> "start", creds |-> 0]
      /\ \A y \in Loaders \ {x} : loader[y] = [pc |-> "idle", kind |-> "start", creds |-> 0]
  BY <1>1 DEF NoLoad
<1>3. LoaderOK
  <2>1. \A y \in Loaders : loader[y] \in Loads
    BY <1>2 DEF Loads
  <2> QED
    BY <1>1, <1>2, <2>1 DEF LoaderOK
<1>4. TimerOK /\ FlagOK
  BY DEF TimerOK, FlagOK
<1>5. NumberOK /\ WorldOK
  BY DEF NumberOK, WorldOK
<1>6. Working = {x}
  BY <1>2 DEF Working, At
<1>7. StartInv
  BY <1>2, <1>6 DEF StartInv, LoadLabels
<1>8. FailureIsRetried /\ ExpiryIsWatched
  BY DEF FailureIsRetried, ExpiryIsWatched
<1>9. NewestInv
  BY <1>2, <1>6 DEF NewestInv
<1> QED
  BY <1>3, <1>4, <1>5, <1>7, <1>8, <1>9 DEF IndInv, TypeOK

\* What replacing a timer does to all of them.
LEMMA StopStep ==
    ASSUME TimerOK, NEW k \in Kinds, StopTimer(k)
    PROVE  /\ TimerOK' /\ orphans' = orphans /\ ~current'[k]
           /\ \A j \in Kinds \ {k} : current'[j] = current[j]
BY DEF TimerOK, StopTimer

LEMMA ArmStep ==
    ASSUME TimerOK, NEW k \in Kinds, ArmTimer(k)
    PROVE  /\ TimerOK' /\ current'[k]
           /\ \A j \in Kinds : (current[j] => current'[j]) /\ (orphans[j] => orphans'[j])
BY DEF TimerOK, ArmTimer

\* What a step of a loader does to it.
LEMMA GotoStep ==
    ASSUME LoaderOK, NEW l \in Loaders, NEW p \in Labels, Goto(l, p)
    PROVE  /\ loader' \in [Loaders -> Loads]
           /\ loader'[l].pc = p
           /\ loader'[l].kind = loader[l].kind /\ loader'[l].creds = loader[l].creds
           /\ \A m \in Loaders \ {l} : loader'[m] = loader[m]
<1> USE DEF LoaderOK
<1>1. loader[l] \in Loads
  OBVIOUS
<1>2. [loader[l] EXCEPT !.pc = p] \in Loads
  BY <1>1 DEF Loads
<1> QED
  BY <1>1, <1>2 DEF Goto, Loads

LEMMA ThenStep ==
    ASSUME LoaderOK, NEW l \in Loaders, NEW p \in Labels, Then(l, p)
    PROVE  /\ loader' \in [Loaders -> Loads]
           /\ loader'[l].pc = p /\ loader'[l].kind = "start"
           /\ \A m \in Loaders \ {l} : loader'[m] = loader[m]
<1> USE DEF LoaderOK
<1>1. [NoLoad EXCEPT !.pc = p] = [pc |-> p, kind |-> "start", creds |-> 0]
  BY DEF NoLoad
<1>2. [pc |-> p, kind |-> "start", creds |-> 0] \in Loads
  BY CredentialsAssumption DEF Loads
<1> QED
  BY <1>1, <1>2 DEF Then

\* The end of a load that succeeded.
LEMMA LoadedStep ==
    ASSUME LoaderOK, NEW l \in Loaders, Loaded(l)
    PROVE  /\ loader' \in [Loaders -> Loads]
           /\ loader'[l].pc \in {"idle", "stopExpiry"} /\ loader'[l].kind = "start"
           /\ loader'[l].pc = "idle" => lapsed'
           /\ \A m \in Loaders \ {l} : loader'[m] = loader[m]
<1>1. CASE loader[l].kind = "retry"
  <2>1. Then(l, "idle") /\ lapsed'
    BY <1>1 DEF Loaded
  <2> QED
    BY <2>1, ThenStep DEF Labels
<1>2. CASE loader[l].kind # "retry"
  <2>1. Then(l, "stopExpiry")
    BY <1>2 DEF Loaded
  <2> QED
    BY <2>1, ThenStep DEF Labels
<1> QED
  BY <1>1, <1>2

LEMMA StoreInv == ASSUME IndInv, NEW l \in Loaders, Store(l) PROVE IndInv'
<1> USE DEF IndInv, TypeOK
<1>1. /\ loader' \in [Loaders -> Loads]
      /\ loader'[l].pc = "send"
      /\ loader'[l].kind = loader[l].kind /\ loader'[l].creds = loader[l].creds
      /\ \A m \in Loaders \ {l} : loader'[m] = loader[m]
  BY GotoStep DEF Store, Labels
<1>3. WorldOK' /\ NumberOK'
  BY <1>1, CredentialsAssumption DEF Store, WorldOK, NumberOK, LoaderOK, At, Versions, worldVars
<1>4. TimerOK'
  BY <1>1 DEF Store, TimerOK, timerVars, Kinds
<1>5. FlagOK'
  BY <1>1 DEF Store, FlagOK
<1>6. LoaderOK'
  BY <1>1, CredentialsAssumption DEF Store, LoaderOK, WorldOK, At, Versions
<1>7. StartInv'
  BY <1>1 DEF Store, StartInv, LoadLabels, Working, At, timerVars, Kinds
<1>8. FailureIsRetried'
  BY <1>1 DEF Store, FailureIsRetried, StartInv, LoadLabels, Armed, At, timerVars, Kinds
<1>9. ExpiryIsWatched'
  BY <1>1 DEF Store, ExpiryIsWatched, StartInv, LoadLabels, Working, Armed, At, timerVars, Kinds
<1>10. NewestInv'
  BY <1>1 DEF Store, NewestInv, StartInv, LoadLabels, Working, At, NumberOK
<1> QED
  BY <1>3, <1>4, <1>5, <1>6, <1>7, <1>8, <1>9, <1>10

LEMMA DrainInv == ASSUME IndInv, NEW l \in Loaders, Drain(l) PROVE IndInv'
<1> USE DEF IndInv, TypeOK
<1>1. /\ loader' \in [Loaders -> Loads]
      /\ loader'[l].pc = "block"
      /\ loader'[l].kind = loader[l].kind /\ loader'[l].creds = loader[l].creds
      /\ \A m \in Loaders \ {l} : loader'[m] = loader[m]
  BY GotoStep DEF Drain, Labels
<1>3. WorldOK' /\ NumberOK'
  BY <1>1, CredentialsAssumption DEF Drain, WorldOK, NumberOK, LoaderOK, At, Versions, worldVars
<1>4. TimerOK'
  BY <1>1 DEF Drain, TimerOK, timerVars, Kinds
<1>5. FlagOK'
  BY <1>1 DEF Drain, FlagOK
<1>6. LoaderOK'
  BY <1>1, CredentialsAssumption DEF Drain, LoaderOK, WorldOK, At, Versions
<1>7. StartInv'
  BY <1>1 DEF Drain, StartInv, LoadLabels, Working, At, timerVars, Kinds
<1>8. FailureIsRetried'
  BY <1>1 DEF Drain, FailureIsRetried, StartInv, LoadLabels, Armed, At, timerVars, Kinds
<1>9. ExpiryIsWatched'
  BY <1>1 DEF Drain, ExpiryIsWatched, StartInv, LoadLabels, Working, Armed, At, timerVars, Kinds
<1>10. NewestInv'
  BY <1>1 DEF Drain, NewestInv, StartInv, LoadLabels, Working, At, NumberOK
<1> QED
  BY <1>3, <1>4, <1>5, <1>6, <1>7, <1>8, <1>9, <1>10

LEMMA StopExpiryInv == ASSUME IndInv, NEW l \in Loaders, StopExpiry(l) PROVE IndInv'
<1> USE DEF IndInv, TypeOK
<1>1. /\ loader' \in [Loaders -> Loads]
      /\ loader'[l].pc = "armExpiry"
      /\ loader'[l].kind = loader[l].kind /\ loader'[l].creds = loader[l].creds
      /\ \A m \in Loaders \ {l} : loader'[m] = loader[m]
  BY GotoStep DEF StopExpiry, Labels
<1>2. /\ TimerOK' /\ orphans' = orphans /\ ~current'["expiry"]
      /\ \A j \in Kinds \ {"expiry"} : current'[j] = current[j]
  BY StopStep DEF StopExpiry, Kinds
<1>3. WorldOK' /\ NumberOK'
  BY <1>1, CredentialsAssumption DEF StopExpiry, WorldOK, NumberOK, LoaderOK, At, Versions, worldVars
<1>4. TimerOK'
  BY <1>1, <1>2 DEF StopExpiry, TimerOK, timerVars, Kinds
<1>5. FlagOK'
  BY <1>1, <1>2 DEF StopExpiry, FlagOK
<1>6. LoaderOK'
  BY <1>1, CredentialsAssumption DEF StopExpiry, LoaderOK, WorldOK, At, Versions
<1>7. StartInv'
  BY <1>1, <1>2 DEF StopExpiry, StartInv, LoadLabels, Working, At, timerVars, Kinds
<1>8. FailureIsRetried'
  BY <1>1, <1>2 DEF StopExpiry, FailureIsRetried, StartInv, LoadLabels, Armed, At, timerVars, Kinds
<1>9. ExpiryIsWatched'
  BY <1>1, <1>2 DEF StopExpiry, ExpiryIsWatched, StartInv, LoadLabels, Working, Armed, At, timerVars, Kinds
<1>10. NewestInv'
  BY <1>1, <1>2 DEF StopExpiry, NewestInv, StartInv, LoadLabels, Working, At, NumberOK
<1> QED
  BY <1>3, <1>4, <1>5, <1>6, <1>7, <1>8, <1>9, <1>10

LEMMA StopRetryInv == ASSUME IndInv, NEW l \in Loaders, StopRetry(l) PROVE IndInv'
<1> USE DEF IndInv, TypeOK
<1>1. /\ loader' \in [Loaders -> Loads]
      /\ loader'[l].pc = "armRetry"
      /\ loader'[l].kind = loader[l].kind /\ loader'[l].creds = loader[l].creds
      /\ \A m \in Loaders \ {l} : loader'[m] = loader[m]
  BY GotoStep DEF StopRetry, Labels
<1>2. /\ TimerOK' /\ orphans' = orphans /\ ~current'["retry"]
      /\ \A j \in Kinds \ {"retry"} : current'[j] = current[j]
  BY StopStep DEF StopRetry, Kinds
<1>3. WorldOK' /\ NumberOK'
  BY <1>1, CredentialsAssumption DEF StopRetry, WorldOK, NumberOK, LoaderOK, At, Versions, worldVars
<1>4. TimerOK'
  BY <1>1, <1>2 DEF StopRetry, TimerOK, timerVars, Kinds
<1>5. FlagOK'
  BY <1>1, <1>2 DEF StopRetry, FlagOK
<1>6. LoaderOK'
  BY <1>1, CredentialsAssumption DEF StopRetry, LoaderOK, WorldOK, At, Versions
<1>7. StartInv'
  BY <1>1, <1>2 DEF StopRetry, StartInv, LoadLabels, Working, At, timerVars, Kinds
<1>8. FailureIsRetried'
  BY <1>1, <1>2 DEF StopRetry, FailureIsRetried, StartInv, LoadLabels, Armed, At, timerVars, Kinds
<1>9. ExpiryIsWatched'
  BY <1>1, <1>2 DEF StopRetry, ExpiryIsWatched, StartInv, LoadLabels, Working, Armed, At, timerVars, Kinds
<1>10. NewestInv'
  BY <1>1, <1>2 DEF StopRetry, NewestInv, StartInv, LoadLabels, Working, At, NumberOK
<1> QED
  BY <1>3, <1>4, <1>5, <1>6, <1>7, <1>8, <1>9, <1>10

LEMMA ArmExpiryInv == ASSUME IndInv, NEW l \in Loaders, ArmExpiry(l) PROVE IndInv'
<1> USE DEF IndInv, TypeOK
<1>1. /\ loader' \in [Loaders -> Loads]
      /\ loader'[l].pc = "idle" /\ loader'[l].kind = "start"
      /\ \A m \in Loaders \ {l} : loader'[m] = loader[m]
  BY ThenStep DEF ArmExpiry, Labels
<1>2. \/ UNCHANGED timerVars /\ lapsed' = TRUE
      \/ /\ TimerOK' /\ current'["expiry"] /\ lapsed' = FALSE
         /\ \A j \in Kinds : (current[j] => current'[j]) /\ (orphans[j] => orphans'[j])
  BY ArmStep DEF ArmExpiry, Kinds
<1>3. WorldOK' /\ NumberOK'
  BY <1>1, CredentialsAssumption DEF ArmExpiry, WorldOK, NumberOK, LoaderOK, At, Versions, worldVars
<1>4. TimerOK'
  BY <1>1, <1>2 DEF ArmExpiry, TimerOK, timerVars, Kinds
<1>5. FlagOK'
  BY <1>1, <1>2 DEF ArmExpiry, FlagOK
<1>6. LoaderOK'
  BY <1>1, CredentialsAssumption DEF ArmExpiry, LoaderOK, WorldOK, At, Versions
<1>7. StartInv'
  BY <1>1, <1>2 DEF ArmExpiry, StartInv, LoadLabels, Working, At, timerVars, Kinds
<1>8. FailureIsRetried'
  BY <1>1, <1>2 DEF ArmExpiry, FailureIsRetried, StartInv, LoadLabels, Armed, At, timerVars, Kinds
<1>9. ExpiryIsWatched'
  BY <1>1, <1>2 DEF ArmExpiry, ExpiryIsWatched, StartInv, LoadLabels, Working, Armed, At, timerVars, Kinds
<1>10. NewestInv'
  BY <1>1, <1>2 DEF ArmExpiry, NewestInv, StartInv, LoadLabels, Working, At, NumberOK
<1> QED
  BY <1>3, <1>4, <1>5, <1>6, <1>7, <1>8, <1>9, <1>10

LEMMA ArmRetryInv == ASSUME IndInv, NEW l \in Loaders, ArmRetry(l) PROVE IndInv'
<1> USE DEF IndInv, TypeOK
<1>1. /\ loader' \in [Loaders -> Loads]
      /\ loader'[l].pc = "idle" /\ loader'[l].kind = "start"
      /\ \A m \in Loaders \ {l} : loader'[m] = loader[m]
  BY ThenStep DEF ArmRetry, Labels
<1>2. /\ TimerOK' /\ current'["retry"]
      /\ \A j \in Kinds : (current[j] => current'[j]) /\ (orphans[j] => orphans'[j])
  BY ArmStep DEF ArmRetry, Kinds
<1>3. WorldOK' /\ NumberOK'
  BY <1>1, CredentialsAssumption DEF ArmRetry, WorldOK, NumberOK, LoaderOK, At, Versions, worldVars
<1>4. TimerOK'
  BY <1>1, <1>2 DEF ArmRetry, TimerOK, timerVars, Kinds
<1>5. FlagOK'
  BY <1>1, <1>2 DEF ArmRetry, FlagOK
<1>6. LoaderOK'
  BY <1>1, CredentialsAssumption DEF ArmRetry, LoaderOK, WorldOK, At, Versions
<1>7. StartInv'
  BY <1>1, <1>2 DEF ArmRetry, StartInv, LoadLabels, Working, At, timerVars, Kinds
<1>8. FailureIsRetried'
  BY <1>1, <1>2 DEF ArmRetry, FailureIsRetried, StartInv, LoadLabels, Armed, At, timerVars, Kinds
<1>9. ExpiryIsWatched'
  BY <1>1, <1>2 DEF ArmRetry, ExpiryIsWatched, StartInv, LoadLabels, Working, Armed, At, timerVars, Kinds
<1>10. NewestInv'
  BY <1>1, <1>2 DEF ArmRetry, NewestInv, StartInv, LoadLabels, Working, At, NumberOK
<1> QED
  BY <1>3, <1>4, <1>5, <1>6, <1>7, <1>8, <1>9, <1>10

LEMMA BlockedSendInv == ASSUME IndInv, NEW l \in Loaders, BlockedSend(l) PROVE IndInv'
<1> USE DEF IndInv, TypeOK
<1>1. /\ loader' \in [Loaders -> Loads]
      /\ loader'[l].pc \in {"idle", "stopExpiry"} /\ loader'[l].kind = "start"
      /\ loader'[l].pc = "idle" => lapsed'
      /\ \A m \in Loaders \ {l} : loader'[m] = loader[m]
  BY LoadedStep DEF BlockedSend
<1>3. WorldOK' /\ NumberOK'
  BY <1>1, CredentialsAssumption DEF BlockedSend, WorldOK, NumberOK, LoaderOK, At, Versions, worldVars, Loaded
<1>4. TimerOK'
  BY <1>1 DEF BlockedSend, TimerOK, timerVars, Kinds, Loaded
<1>5. FlagOK'
  BY <1>1 DEF BlockedSend, FlagOK, Loaded
<1>6. LoaderOK'
  BY <1>1, CredentialsAssumption DEF BlockedSend, LoaderOK, WorldOK, At, Versions, Loaded
<1>7. StartInv'
  BY <1>1 DEF BlockedSend, StartInv, LoadLabels, Working, At, timerVars, Kinds, Loaded
<1>8. FailureIsRetried'
  BY <1>1 DEF BlockedSend, FailureIsRetried, StartInv, LoadLabels, Armed, At, timerVars, Kinds, Loaded
<1>9. ExpiryIsWatched'
  BY <1>1 DEF BlockedSend, ExpiryIsWatched, StartInv, LoadLabels, Working, Armed, At, timerVars, Kinds, Loaded
<1>10. NewestInv'
  BY <1>1 DEF BlockedSend, NewestInv, StartInv, LoadLabels, Working, At, NumberOK, Loaded
<1> QED
  BY <1>3, <1>4, <1>5, <1>6, <1>7, <1>8, <1>9, <1>10

LEMMA TrySendInv == ASSUME IndInv, NEW l \in Loaders, TrySend(l) PROVE IndInv'
<1> USE DEF IndInv, TypeOK
<1>1. \/ /\ refreshCh' = loader[l].creds /\ Loaded(l)
         /\ loader' \in [Loaders -> Loads]
         /\ loader'[l].pc \in {"idle", "stopExpiry"} /\ loader'[l].kind = "start"
         /\ loader'[l].pc = "idle" => lapsed'
         /\ \A m \in Loaders \ {l} : loader'[m] = loader[m]
      \/ /\ UNCHANGED <<refreshCh, stage, lapsed>>
         /\ loader' \in [Loaders -> Loads]
         /\ loader'[l].pc = "drain"
         /\ loader'[l].kind = loader[l].kind /\ loader'[l].creds = loader[l].creds
         /\ \A m \in Loaders \ {l} : loader'[m] = loader[m]
  <2>1. CASE refreshCh = 0
    BY <2>1, LoadedStep DEF TrySend
  <2>2. CASE refreshCh # 0
    BY <2>2, GotoStep DEF TrySend, Labels
  <2> QED
    BY <2>1, <2>2
<1>3. WorldOK' /\ NumberOK'
  BY <1>1, CredentialsAssumption DEF TrySend, WorldOK, NumberOK, LoaderOK, At, Versions, worldVars, Loaded
<1>4. TimerOK'
  BY <1>1 DEF TrySend, TimerOK, timerVars, Kinds, Loaded
<1>5. FlagOK'
  BY <1>1 DEF TrySend, FlagOK, Loaded
<1>6. LoaderOK'
  BY <1>1, CredentialsAssumption DEF TrySend, LoaderOK, WorldOK, At, Versions, Loaded
<1>7. StartInv'
  BY <1>1 DEF TrySend, StartInv, LoadLabels, Working, At, timerVars, Kinds, Loaded
<1>8. FailureIsRetried'
  BY <1>1 DEF TrySend, FailureIsRetried, StartInv, LoadLabels, Armed, At, timerVars, Kinds, Loaded
<1>9. ExpiryIsWatched'
  BY <1>1 DEF TrySend, ExpiryIsWatched, StartInv, LoadLabels, Working, Armed, At, timerVars, Kinds, Loaded
<1>10. NewestInv'
  BY <1>1 DEF TrySend, NewestInv, StartInv, LoadLabels, Working, At, NumberOK, Loaded
<1> QED
  BY <1>3, <1>4, <1>5, <1>6, <1>7, <1>8, <1>9, <1>10

LEMMA LoadInv == ASSUME IndInv, NEW l \in Loaders, Load(l) PROVE IndInv'
<1> USE DEF IndInv, TypeOK
<1>1. \/ /\ loader' \in [Loaders -> Loads]
         /\ loader'[l].pc = "store"
         /\ loader'[l].kind = loader[l].kind /\ loader'[l].creds = source
         /\ \A m \in Loaders \ {l} : loader'[m] = loader[m]
         /\ owed' = FALSE /\ alone' = (Working = {l})
      \/ /\ loader' \in [Loaders -> Loads]
         /\ \A m \in Loaders \ {l} : loader'[m] = loader[m]
         /\ loader'[l].kind = "start"
         /\ IF loader[l].kind = "start" THEN loader'[l].pc = "idle" ELSE loader'[l].pc = "stopRetry"
         /\ owed' = (owed \/ loader[l].kind # "start") /\ alone' = alone
  <2>1. CASE available
    <3>1. loader[l] \in Loads /\ source \in 0 .. MaxVersion
      BY CredentialsAssumption DEF LoaderOK, WorldOK, Versions
    <3>2. loader' = [loader EXCEPT ![l] =
                       [pc |-> "store", kind |-> loader[l].kind, creds |-> source]]
      BY <2>1, <3>1 DEF Load, Loads, LoaderOK
    <3>3. [pc |-> "store", kind |-> loader[l].kind, creds |-> source] \in Loads
      BY <3>1 DEF Loads, Labels
    <3> QED
      BY <2>1, <3>2, <3>3 DEF Load, LoaderOK
  <2>2. CASE ~available
    BY <2>2, ThenStep DEF Load, Labels
  <2> QED
    BY <2>1, <2>2
<1>2. /\ loader[l].pc = "load" /\ l \in Working /\ Working' \subseteq Working
      /\ stage' = stage /\ UNCHANGED timerVars
      /\ alone' => (\A m, n \in Working : m = n)
  <2>1. loader[l].pc = "load" /\ stage' = stage /\ UNCHANGED timerVars
    BY DEF Load, At
  <2>2. l \in Working /\ Working' \subseteq Working
    BY <1>1, <2>1 DEF Working, At
  <2>3. CASE alone' = (Working = {l})
    BY <2>1, <2>2, <2>3
  <2>4. CASE alone' = alone
    BY <2>1, <2>2, <2>4 DEF NewestInv
  <2> QED
    BY <1>1, <2>3, <2>4
<1>3. WorldOK' /\ NumberOK'
  BY <1>1, CredentialsAssumption DEF Load, WorldOK, NumberOK, LoaderOK, At, Versions, worldVars
<1>4. TimerOK'
  BY <1>1, <1>2 DEF Load, TimerOK, timerVars, Kinds
<1>5. FlagOK'
  BY <1>1, <1>2 DEF Load, FlagOK
<1>6. LoaderOK'
  BY <1>1, CredentialsAssumption DEF Load, LoaderOK, WorldOK, At, Versions
<1>7. StartInv'
  <2>1. stage' = "starting" =>
          /\ ~owed'
          /\ \A k \in Kinds : ~current'[k] /\ ~orphans'[k]
    BY <1>1, <1>2 DEF StartInv, timerVars
  <2>2. stage' = "starting" => \A m, n \in Working' : m = n
    BY <1>2 DEF StartInv
  <2>3. stage' = "starting" => \A m \in Working' : loader'[m].kind = "start" /\ loader'[m].pc \in LoadLabels
    BY <1>1, <1>2 DEF StartInv, LoadLabels, Working, At
  <2>4. \A m \in Loaders : loader'[m].kind = "start" /\ loader'[m].pc \in LoadLabels => stage' = "starting"
    BY <1>1, <1>2 DEF StartInv, LoadLabels
  <2> QED
    BY <2>1, <2>2, <2>3, <2>4 DEF StartInv
<1>8. FailureIsRetried'
  BY <1>1, <1>2 DEF Load, FailureIsRetried, StartInv, LoadLabels, Armed, At, timerVars, Kinds
<1>9. ExpiryIsWatched'
  BY <1>1, <1>2 DEF Load, ExpiryIsWatched, StartInv, LoadLabels, Working, Armed, At, timerVars, Kinds
<1>10. NewestInv'
  BY <1>1, <1>2 DEF Load, NewestInv, StartInv, LoadLabels, Working, At, NumberOK
<1> QED
  BY <1>3, <1>4, <1>5, <1>6, <1>7, <1>8, <1>9, <1>10

LEMMA FireInv == ASSUME IndInv, NEW l \in Loaders, NEW k \in Kinds, Fire(l, k) PROVE IndInv'
<1> USE DEF IndInv, TypeOK
<1>1. /\ loader' \in [Loaders -> Loads]
      /\ loader'[l].pc = "load" /\ loader'[l].kind = k
      /\ \A m \in Loaders \ {l} : loader'[m] = loader[m]
  <2>1. [pc |-> "load", kind |-> k, creds |-> 0] \in Loads
    BY CredentialsAssumption DEF Loads, Labels
  <2> QED
    BY <2>1 DEF Fire, LoaderOK
<1>2. (current[k] \/ orphans[k]) /\ TimerOK'
  <2>1. CASE current[k] /\ StopTimer(k)
    BY <2>1, StopStep
  <2>2. CASE orphans[k] /\ orphans' \in {orphans, [orphans EXCEPT ![k] = FALSE]} /\ UNCHANGED current
    BY <2>2 DEF TimerOK
  <2> QED
    BY <2>1, <2>2 DEF Fire
<1>3. WorldOK' /\ NumberOK'
  BY <1>1, CredentialsAssumption DEF Fire, WorldOK, NumberOK, LoaderOK, At, Versions, worldVars
<1>4. TimerOK'
  BY <1>1, <1>2 DEF Fire, TimerOK, timerVars, Kinds
<1>5. FlagOK'
  BY <1>1, <1>2 DEF Fire, FlagOK
<1>6. LoaderOK'
  BY <1>1, CredentialsAssumption DEF Fire, LoaderOK, WorldOK, At, Versions
<1>7. StartInv'
  BY <1>1, <1>2 DEF Fire, StartInv, LoadLabels, Working, At, timerVars, Kinds
<1>8. FailureIsRetried'
  BY <1>1, <1>2 DEF Fire, FailureIsRetried, StartInv, LoadLabels, Armed, At, timerVars, Kinds
<1>9. ExpiryIsWatched'
  BY <1>1, <1>2 DEF Fire, ExpiryIsWatched, StartInv, LoadLabels, Working, Armed, At, timerVars, Kinds
<1>10. NewestInv'
  <2>1. UNCHANGED <<stage, refreshCh, used, last>> /\ (alone' => alone /\ Working = {})
    BY DEF Fire
  <2>2. SUFFICES ASSUME alone' PROVE NewestInv'
    BY DEF NewestInv
  <2>3. loader[l].pc = "idle" /\ Working' = {l} /\ \A m \in Loaders : loader[m].pc = "idle"
    BY <1>1, <2>1, <2>2 DEF Fire, Working, At
  <2> QED
    BY <1>1, <2>1, <2>2, <2>3 DEF NewestInv
<1> QED
  BY <1>3, <1>4, <1>5, <1>6, <1>7, <1>8, <1>9, <1>10

LEMMA OtherInv ==
    ASSUME IndInv, WatchEvent \/ Serve \/ CredentialRefresh \/ Renew \/ Outage \/ UNCHANGED vars
    PROVE  IndInv'
<1> USE DEF IndInv, TypeOK, WatchEvent, Serve, CredentialRefresh, Renew, Outage, vars, timerVars, worldVars
<1>1. UNCHANGED <<loader, orphans, last, owed, lapsed, alone>>
  OBVIOUS
<1>2. WorldOK' /\ NumberOK'
  <2>1. source' \in Versions /\ NumberOK'
    BY CredentialsAssumption DEF WorldOK, NumberOK, Versions
  <2>2. available' \in BOOLEAN
    BY DEF WorldOK
  <2> QED
    BY <2>1, <2>2 DEF WorldOK
<1>3. TimerOK' /\ LoaderOK' /\ FlagOK'
  BY <1>1 DEF TimerOK, LoaderOK, FlagOK
<1>4. \A k \in Kinds : current'[k] = current[k] \/ (k = "debounce" /\ stage # "starting")
  BY DEF TimerOK, Kinds
<1>5. StartInv'
  BY <1>1, <1>4 DEF StartInv, Working, At
<1>6. FailureIsRetried' /\ ExpiryIsWatched'
  BY <1>1, <1>4 DEF FailureIsRetried, ExpiryIsWatched, Armed, Working, At, Kinds
<1>7. NewestInv'
  BY <1>1 DEF NewestInv, Working, At, NumberOK
<1> QED
  BY <1>2, <1>3, <1>5, <1>6, <1>7

LEMMA StepInv == IndInv /\ [Next]_vars => IndInv'
<1> SUFFICES ASSUME IndInv, [Next]_vars PROVE IndInv'
  OBVIOUS
<1>1. ASSUME NEW l \in Loaders, LoaderStep(l) PROVE IndInv'
  BY <1>1, LoadInv, StoreInv, TrySendInv, DrainInv, BlockedSendInv, StopExpiryInv, ArmExpiryInv,
     StopRetryInv, ArmRetryInv DEF LoaderStep
<1>2. ASSUME NEW l \in Loaders, NEW k \in Kinds, Fire(l, k) PROVE IndInv'
  BY <1>2, FireInv
<1>3. CASE WatchEvent \/ Serve \/ CredentialRefresh \/ Renew \/ Outage \/ UNCHANGED vars
  BY <1>3, OtherInv
<1> QED
  BY <1>1, <1>2, <1>3 DEF Next

THEOREM Inductive == Spec => []IndInv
BY InitInv, StepInv, PTL DEF Spec

-----------------------------------------------------------------------------

\* The provider's state is well-typed, for every number of loaders.
THEOREM TypeCorrect == Spec => []TypeOK
BY Inductive, PTL DEF IndInv

\* However callbacks overlap and whatever the unlocked replacement of timers
\* orphans, a failed load always has a retry ahead of it (scheduleRetry).
THEOREM Retried == Spec => []FailureIsRetried
BY Inductive, PTL DEF IndInv

\* Credentials have a refresh or a retry ahead of them, unless the last success
\* was a retry's or had nothing to schedule (scheduleExpiryRefresh).
THEOREM Watched == Spec => []ExpiryIsWatched
BY Inductive, PTL DEF IndInv

\* What the last of loads that did not overlap has loaded reaches the backend
\* (loadAndSend, credentialRefreshLoop).
THEOREM Newest == Spec => []NewestReachesBackend
<1>1. IndInv => NewestReachesBackend
  BY DEF IndInv, NewestInv, NewestReachesBackend, Working, At
<1> QED
  BY <1>1, Inductive, PTL

=============================================================================
