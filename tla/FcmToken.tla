------------------------------ MODULE FcmToken ------------------------------
(***************************************************************************)
(* How the Android app hands its Firebase Cloud Messaging token to the     *)
(* Waltz SDK: MyApplication asks for the token at every start of the       *)
(* process and gets the answer on the main thread, MyMessagingService is   *)
(* told of every new token on a thread of its own. Nothing orders the two. *)
(*                                                                         *)
(* Tokens are numbered in the order in which Firebase issues them.  The    *)
(* specification is TokenSpec, so that one module can prove theorems about *)
(* it and about MainFragment, which shares nothing with it.                *)
(***************************************************************************)
EXTENDS Naturals, Sequences

CONSTANTS
  MaxToken,  \* bound on the tokens Firebase issues
  MaxStart   \* bound on the starts of the app's process

ASSUME BoundsAssumption == MaxToken \in Nat /\ MaxStart \in Nat

Token == 1 .. MaxToken
NoToken == 0

VARIABLES
  token,      \* the token messages are delivered to now
  sdkToken,   \* the argument of the last WaltzSDK.updateFcmToken
  running,    \* the process runs
  starts,     \* how often it was started
  task,       \* the Task of getInstanceId()
  result,     \* its result
  newTokens,  \* tokens onNewToken has not been called with yet
  overtaken,  \* history: updateFcmToken was called with an older token last
  missed      \* history: the process ended before a call of onNewToken

tokenVars == <<token, sdkToken, running, starts, task, result, newTokens,
               overtaken, missed>>

TaskState == {"none", "fetching", "successful", "failed"}

TokenTypeOK ==
  /\ token \in Token \cup {NoToken}
  /\ sdkToken \in Token \cup {NoToken}
  /\ running \in BOOLEAN
  /\ starts \in 0 .. MaxStart
  /\ task \in TaskState
  /\ result \in Token \cup {NoToken}
  /\ newTokens \in Seq(Token)
  /\ overtaken \in BOOLEAN
  /\ missed \in BOOLEAN

TokenInit ==
  /\ token = NoToken
  /\ sdkToken = NoToken
  /\ running = FALSE
  /\ starts = 0
  /\ task = "none"
  /\ result = NoToken
  /\ newTokens = <<>>
  /\ overtaken = FALSE
  /\ missed = FALSE

-----------------------------------------------------------------------------
(***************************************************************************)
(* MyApplication.                                                          *)
(***************************************************************************)

\* onCreate initialises the SDK, then asks for the token.
OnCreate ==
  /\ ~running
  /\ starts < MaxStart
  /\ running' = TRUE
  /\ starts' = starts + 1
  /\ task' = "fetching"
  /\ result' = NoToken
  /\ UNCHANGED <<token, sdkToken, newTokens, overtaken, missed>>

\* Mutant: the answer is logged but not handed on.
OnComplete_NotForwarded ==
  /\ running
  /\ task \in {"successful", "failed"}
  /\ task' = "none"
  /\ UNCHANGED <<token, sdkToken, running, starts, result, newTokens, overtaken,
                 missed>>

\* The listener, called on the main thread. A failure is not retried.
OnComplete ==
  /\ running
  /\ task \in {"successful", "failed"}
  /\ task' = "none"
  /\ IF task = "successful"
       THEN /\ sdkToken' = result
            /\ overtaken' = (result < sdkToken)
            /\ missed' = FALSE
       ELSE UNCHANGED <<sdkToken, overtaken, missed>>
  /\ UNCHANGED <<token, running, starts, result, newTokens>>

(***************************************************************************)
(* MyMessagingService, on its own thread, one call at a time.              *)
(***************************************************************************)
\* Mutant: only super.onNewToken is called.
OnNewToken_NotForwarded ==
  /\ running
  /\ newTokens # <<>>
  /\ newTokens' = Tail(newTokens)
  /\ UNCHANGED <<token, sdkToken, running, starts, task, result, overtaken, missed>>

OnNewToken ==
  /\ running
  /\ newTokens # <<>>
  /\ sdkToken' = Head(newTokens)
  /\ newTokens' = Tail(newTokens)
  /\ overtaken' = (Head(newTokens) < sdkToken)
  /\ missed' = FALSE
  /\ UNCHANGED <<token, running, starts, task, result>>

-----------------------------------------------------------------------------
(***************************************************************************)
(* Firebase and Android.                                                   *)
(***************************************************************************)

\* Firebase issues a token, the first one or a new one, while the app runs.
IssueToken ==
  /\ running
  /\ token < MaxToken
  /\ token' = token + 1
  /\ newTokens' = Append(newTokens, token + 1)
  /\ UNCHANGED <<sdkToken, running, starts, task, result, overtaken, missed>>

\* The task completes, and its listener is posted to the main thread.
FetchSucceeds ==
  /\ running
  /\ task = "fetching"
  /\ token # NoToken
  /\ task' = "successful"
  /\ result' = token
  /\ UNCHANGED <<token, sdkToken, running, starts, newTokens, overtaken, missed>>

FetchFails ==
  /\ running
  /\ task = "fetching"
  /\ task' = "failed"
  /\ UNCHANGED <<token, sdkToken, running, starts, result, newTokens, overtaken,
                 missed>>

\* Android ends the process: the task and the calls that were due are lost.
Kill ==
  /\ running
  /\ running' = FALSE
  /\ task' = "none"
  /\ newTokens' = <<>>
  /\ missed' = (missed \/ newTokens # <<>>)
  /\ UNCHANGED <<token, sdkToken, starts, result, overtaken>>

-----------------------------------------------------------------------------
TokenNext == \/ OnCreate \/ OnComplete \/ OnNewToken
        \/ IssueToken \/ FetchSucceeds \/ FetchFails \/ Kill

TokenSpec == TokenInit /\ [][TokenNext]_tokenVars

\* The main thread and the service's thread run what is due on them.
FairTokenSpec == TokenSpec /\ WF_tokenVars(OnComplete) /\ WF_tokenVars(OnNewToken)

-----------------------------------------------------------------------------
(***************************************************************************)
(* Properties.                                                             *)
(***************************************************************************)

(***************************************************************************)
(* When the service has no call of onNewToken due, the SDK has the token   *)
(* that messages are delivered to, unless the main thread's answer         *)
(* overtook the service's newer token or a process ended too early. Both   *)
(* sources are needed for it: one finds the token of an earlier start, the *)
(* other the tokens issued since.                                          *)
(***************************************************************************)
SdkHasToken == newTokens = <<>> /\ ~overtaken /\ ~missed => sdkToken = token

(***************************************************************************)
(* Asking for the token at every start mends what an earlier process       *)
(* missed: as soon as the answer of this process has come, the SDK's token *)
(* is at least as new as the one that answer could bring.                  *)
(***************************************************************************)
StartMends ==
  [][OnComplete /\ task = "successful" /\ newTokens = <<>> =>
       sdkToken' = token' \/ overtaken']_tokenVars

(***************************************************************************)
(* In a process that keeps running the SDK ends up with the current token, *)
(* with the same two exceptions.                                           *)
(***************************************************************************)
TokenArrives ==
  <>[]running => <>[](sdkToken = token \/ overtaken \/ missed)
=============================================================================
