------------------------------- MODULE SignIn -------------------------------
(***************************************************************************)
(* Signing in: the restoring of a session (App.jsx), the sign-in screen    *)
(* (screens/AuthScreen.jsx), the Google button and picker                  *)
(* (native/googleAuth.js), the token (native/storage.js) and the consent   *)
(* record (utils/consent.js).                                              *)
(*                                                                         *)
(* Every call to the server is two actions, so that the person may act     *)
(* between them.  What a call may answer is the server's choice.  Names    *)
(* and tokens have no content: there is one or there is none.              *)
(***************************************************************************)
EXTENDS Naturals

CONSTANT MaxCreates  \* bound: account requests in flight

ASSUME SignInAssumption == MaxCreates \in Nat \ {0}

VARIABLES
  native,    \* isNative(): an app, or a web page
  boot,      \* how far the session restore of App has come
  token,     \* cached: there is a token in memory
  stored,    \* there is a token in the storage behind it
  user,      \* user: somebody is signed in
  auth,      \* the state of the sign-in screen
  gis,       \* gisPromise: the outcome of loading Google's script
  consented  \* history: the policy was accepted when the last sign-in began

signInVars == <<native, boot, token, stored, user, auth, gis, consented>>

(* A screen as it is mounted: the state of AuthScreen, then what is under   *)
(* way: the button being loaded, Google's window, and calls to the server.  *)
NewScreen ==
  [page |-> "intro", step |-> "signin", accepted |-> FALSE, busy |-> FALSE,
   loading |-> FALSE, button |-> FALSE, asking |-> FALSE, google |-> FALSE,
   creates |-> 0, agreed |-> FALSE]

SignInInit ==
  /\ native \in BOOLEAN
  /\ boot = "hydrate"
  /\ token = FALSE
  /\ stored = FALSE
  /\ user = FALSE
  /\ auth = NewScreen
  /\ gis = "none"
  /\ consented = FALSE

(* A write to the storage is not waited for and may fail.                   *)
Write(value) == stored' \in {stored, value}

-----------------------------------------------------------------------------
(* The restoring of a session.                                              *)

(* hydrateToken.                                                            *)
Hydrate ==
  /\ boot = "hydrate"
  /\ token' \in IF native THEN {stored, FALSE} ELSE {stored}
  /\ boot' = IF token' THEN "me" ELSE "config"
  /\ UNCHANGED <<native, stored, user, auth, gis, consented>>

(* getMe answers, or fails for whatever reason: then the token is dropped.  *)
MeAnswers ==
  /\ boot = "me"
  /\ boot' = "config"
  /\ \/ user' = TRUE /\ UNCHANGED <<token, stored>>
     \/ token' = FALSE /\ Write(FALSE) /\ UNCHANGED user
  /\ UNCHANGED <<native, auth, gis, consented>>

ConfigAnswers ==
  /\ boot = "config"
  /\ boot' = "done"
  /\ UNCHANGED <<native, token, stored, user, auth, gis, consented>>

-----------------------------------------------------------------------------
(* The sign-in screen.                                                      *)

(* Broken: the place for Google's button is there without the tick.         *)
ButtonPlaceAlways(a) ==
  ~native /\ a.page = "form" /\ a.step = "signin" /\ ~a.busy

(* The element Google's button is drawn into is on the page.                *)
ButtonPlace(a) ==
  /\ ~native
  /\ a.page = "form"
  /\ a.step = "signin"
  /\ a.accepted
  /\ ~a.busy

(* The state a, committed after the present one: the effect draws the       *)
(* button when one of the values it depends on has changed, and a button    *)
(* lasts as long as its element.  busy is not one of those values.          *)
Committed(a) ==
  LET changed == <<a.page, a.step, a.accepted>>
                   # <<auth.page, auth.step, auth.accepted>>
  IN [a EXCEPT !.loading = ButtonPlace(a) /\ (changed \/ @),
               !.button = ButtonPlace(a) /\ ~changed /\ @]

(* Nobody is signed in, and that is certain.                                *)
Mounted == boot = "done" /\ ~user

(* One page is there at a time, the form only without the others.           *)
OnScreen(pages, steps) ==
  /\ Mounted
  /\ auth.page \in pages
  /\ auth.step \in steps

(* A change of the screen's own state, and no other.                        *)
Show(a) ==
  /\ auth' = Committed(a)
  /\ UNCHANGED <<native, boot, token, stored, user, gis, consented>>

IntroEnds ==
  /\ OnScreen({"intro"}, {"signin"})
  /\ Show([auth EXCEPT !.page = "form"])

ReadPolicy ==
  /\ OnScreen({"form"}, {"signin"})
  /\ Show([auth EXCEPT !.page = "policy"])

ReadRules ==
  /\ OnScreen({"form"}, {"signin", "username"})
  /\ Show([auth EXCEPT !.page = "howto"])

LeavePage ==
  /\ OnScreen({"policy", "howto"}, {"signin", "username"})
  /\ Show([auth EXCEPT !.page = "form"])

Tick ==
  /\ OnScreen({"form"}, {"signin"})
  /\ Show([auth EXCEPT !.accepted = ~@])

(* renderGoogleButton, whose script is asked for once: a failure stays.     *)
ButtonLoads ==
  /\ OnScreen({"form"}, {"signin"})
  /\ auth.loading
  /\ gis' \in IF gis = "none" THEN {"ready", "failed"} ELSE {gis}
  /\ auth' = [auth EXCEPT !.loading = FALSE, !.button = gis' = "ready"]
  /\ UNCHANGED <<native, boot, token, stored, user, consented>>

(* A button of the screen's own.                                            *)
Enabled(disabled) == ~disabled /\ ~auth.busy

(* A click on Google's button, or handleNativeSignIn on the screen's own,   *)
(* which is disabled until the policy is accepted.                          *)
AskGoogle ==
  /\ OnScreen({"form"}, {"signin"})
  /\ ~auth.asking
  /\ IF native THEN Enabled(~auth.accepted) ELSE auth.button
  /\ Show([auth EXCEPT !.asking = TRUE, !.agreed = auth.accepted,
                       !.busy = native])

(* Google's window is closed, or fails, without a credential.               *)
GoogleGivesUp ==
  /\ auth.asking
  /\ Show([auth EXCEPT !.asking = FALSE, !.busy = @ /\ ~native])

(* handleCredential, up to its call.                                        *)
CredentialArrives ==
  /\ auth.asking
  /\ Show([auth EXCEPT !.asking = FALSE, !.google = TRUE, !.busy = TRUE])

(* setToken, recordConsent and onLogin; the screen is gone with them.  An   *)
(* account request still in flight is refused: the account exists.  Left    *)
(* out: a Google sign-in that an account request overtakes, "Use another    *)
(* account" having led back to the button, is given up here with the        *)
(* screen, while the code would run handleCredential to its end.            *)
Enter ==
  /\ token' = TRUE
  /\ Write(TRUE)
  /\ user' = TRUE
  /\ consented' = auth.agreed
  /\ auth' = NewScreen
  /\ UNCHANGED <<native, boot, gis>>

(* handleCredential, from the answer: a session, a first visit, a failure.  *)
GoogleAnswers ==
  /\ auth.google
  /\ \/ Enter
     \/ Show([auth EXCEPT !.google = FALSE, !.busy = FALSE,
                          !.step = "username"])
     \/ Show([auth EXCEPT !.google = FALSE, !.busy = FALSE])

(* handleCreateAccount, up to its calls.  The button waits for an answer,   *)
(* the Enter key does not.                                                  *)
CreateAccount ==
  /\ OnScreen({"form"}, {"username"})
  /\ auth.creates < MaxCreates
  /\ Show([auth EXCEPT !.creates = @ + 1, !.busy = TRUE])

(* handleCreateAccount, from the answers: an account, a name that is taken  *)
(* or another failure, or a signup token that has expired.                  *)
CreateAnswers ==
  /\ auth.creates > 0
  /\ \/ Enter
     \/ Show([auth EXCEPT !.creates = @ - 1, !.busy = FALSE])
     \/ Show([auth EXCEPT !.creates = @ - 1, !.busy = FALSE,
                          !.step = "signin"])

UseAnotherAccount ==
  /\ OnScreen({"form"}, {"username"})
  /\ Show([auth EXCEPT !.step = "signin"])

SignInNext ==
  \/ Hydrate \/ MeAnswers \/ ConfigAnswers
  \/ IntroEnds \/ ReadPolicy \/ ReadRules \/ LeavePage \/ Tick \/ ButtonLoads
  \/ AskGoogle \/ GoogleGivesUp \/ CredentialArrives \/ GoogleAnswers
  \/ CreateAccount \/ CreateAnswers \/ UseAnotherAccount
=============================================================================
