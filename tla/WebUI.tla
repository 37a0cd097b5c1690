------------------------------- MODULE WebUI -------------------------------
(***************************************************************************)
(* The key handling of the web pages (internal/web/web/app.js) and the     *)
(* requests it makes of the server: the form, the public key on display,   *)
(* and the pending key that is not to be overwritten by the saved one.     *)
(*                                                                         *)
(* A user clicks when the last click has been answered, or reloads the     *)
(* page; two pages stand for users who do not wait.  What a handler awaits *)
(* after that answer stops nobody: loadPublicKey runs on a timer and after *)
(* clicks, loadConfig after a revocation, and the user goes on meanwhile.  *)
(* Answers arrive in any order, though a page has one loadConfig and one   *)
(* loadPublicKey of each caller on the way at most (a bound).              *)
(***************************************************************************)
EXTENDS KeyRotation

CONSTANTS
  Pages,   \* pages open in browsers
  Pasted   \* the private keys users paste or load from a file

ASSUME PagesAssumption == Pasted \subseteq 1..Found

Callers == {"timer", "click"}

\* The form has no field for the key file.
FormOf(cfg) == [cfg EXCEPT !.path = None]

\* Answers carry keys or errors; Asked waits for one.
Unasked == NKeys + 1
Asked == NKeys + 2
Failed == NKeys + 3

VARIABLES
  form,     \* page -> the configuration in its form
  pending,  \* page -> pendingPublicKey, None for null
  shown,    \* page -> the public key on display, None without one, Failed for an error
  doing,    \* page -> "idle", or the click that is not answered yet
  body,     \* page -> the configuration its PUT carries
  posted,   \* page -> the revocation it waits for, if any
  ask,      \* page -> caller of loadPublicKey -> its request
  fetch     \* page -> the request of its loadConfig

askVars == <<shown, ask>>
clickVars == <<doing, body, posted>>
pageVars == <<form, pending, fetch, clickVars, askVars>>
vars == <<rotationVars, pageVars>>

\* A request of loadConfig, with what its answer carries.
Fetch(s, cfg) == [is |-> s, cfg |-> cfg]
NoConfig == [auth |-> "password", value |-> None, path |-> None]
NotFetched == Fetch("none", NoConfig)
Fetches == [is : {"none", "asked", "answered", "failed"}, cfg : Config]

TypeOK ==
  /\ RotationTypeOK
  /\ form \in [Pages -> Config]
  /\ pending \in [Pages -> Keys \cup {None}] /\ shown \in [Pages -> Keys \cup {None, Failed}]
  /\ doing \in [Pages -> {"idle", "put", "saved", "failed", "revoke"}]
  /\ body \in [Pages -> Config]
  /\ posted \in [Pages -> SUBSET Conns]
  /\ ask \in [Pages -> [Callers -> 0..Failed]]
  /\ fetch \in [Pages -> Fetches]
  /\ \A p \in Pages : /\ pending[p] <= made /\ (shown[p] = Failed \/ shown[p] <= made)
                      /\ form[p].value <= made /\ fetch[p].cfg.value <= made
                      /\ body[p].value <= made

Quiet == [s \in Callers |-> Unasked]
FirstAsk == [Quiet EXCEPT !["timer"] = Asked]

Init ==
  /\ RotationInit
  /\ form = [p \in Pages |-> FormOf(config)]
  /\ pending = [p \in Pages |-> None]
  /\ shown = [p \in Pages |-> None]
  /\ doing = [p \in Pages |-> "idle"]
  /\ body = [p \in Pages |-> NoConfig]
  /\ posted = [p \in Pages |-> {}]
  /\ ask = [p \in Pages |-> FirstAsk]
  /\ fetch = [p \in Pages |-> NotFetched]

-----------------------------------------------------------------------------
(* loadPublicKey.                                                          *)

\* Mutant: a key on display is not asked for again.
LoadPublicKeyOnce(p, s) ==
  IF pending'[p] # None
  THEN shown' = [shown EXCEPT ![p] = pending'[p]] /\ UNCHANGED ask
  ELSE IF shown[p] # None THEN UNCHANGED <<shown, ask>>
  ELSE ask' = [ask EXCEPT ![p][s] = Asked] /\ UNCHANGED shown

\* A pending key is shown; without one the server is asked.
LoadPublicKey(p, s) ==
  IF pending'[p] # None
  THEN shown' = [shown EXCEPT ![p] = pending'[p]] /\ UNCHANGED ask
  ELSE ask' = [ask EXCEPT ![p][s] = Asked] /\ UNCHANGED shown

\* setInterval, every half minute.
Timer(p) ==
  /\ ask[p]["timer"] = Unasked
  /\ UNCHANGED pending
  /\ LoadPublicKey(p, "timer")
  /\ UNCHANGED <<rotationVars, form, fetch, clickVars>>

Answered(p, s, k) ==
  /\ ask[p][s] = Asked
  /\ ask' = [ask EXCEPT ![p][s] = k]
  /\ UNCHANGED <<rotationVars, form, pending, shown, fetch, clickVars>>

\* What loadPublicKey displays of a configuration: a key that does not parse is
\* an error.
Display(k) == IF k \in Garbled THEN Failed ELSE k

\* handleSSHPublicKey derives the key from the saved configuration.
Serve(p, s) == Answered(p, s, Display(KeyOf(config)))

\* The configuration cannot be loaded, or the key file not read, or the answer is
\* lost.
ServeFails(p, s) ==
  /\ FileMayFail(config) \/ Faults \cap {"load", "answer"} # {}
  /\ Answered(p, s, Failed)

\* The key or the error arrives and is displayed, whatever happened meanwhile.
Arrive(p, s) ==
  /\ ask[p][s] \notin {Asked, Unasked}
  /\ shown' = [shown EXCEPT ![p] = ask[p][s]]
  /\ ask' = [ask EXCEPT ![p][s] = Unasked]
  /\ UNCHANGED <<rotationVars, form, pending, fetch, clickVars>>

-----------------------------------------------------------------------------
(* loadConfig, after a revocation.                                         *)

ServeConfig(p) ==
  /\ fetch[p].is = "asked"
  /\ \/ fetch' = [fetch EXCEPT ![p] = Fetch("answered", FormOf(config))]
     \/ /\ Faults \cap {"load", "answer"} # {}
        /\ fetch' = [fetch EXCEPT ![p] = Fetch("failed", NoConfig)]
  /\ UNCHANGED <<rotationVars, form, pending, clickVars, askVars>>

\* The form is what was saved; loadConfig keeps an error to itself, and the form
\* stays.  The public key is loaded next.
ConfigArrives(p) ==
  /\ fetch[p].is \in {"answered", "failed"} /\ ask[p]["click"] = Unasked
  /\ form' = IF fetch[p].is = "answered" THEN [form EXCEPT ![p] = fetch[p].cfg] ELSE form
  /\ fetch' = [fetch EXCEPT ![p] = NotFetched]
  /\ UNCHANGED pending
  /\ LoadPublicKey(p, "click")
  /\ UNCHANGED <<rotationVars, clickVars>>

-----------------------------------------------------------------------------
(* The user.                                                               *)

\* The page is reloaded while something is unanswered: its requests are dropped.
\* It counts as open when its first loadConfig has filled the form; a PUT before
\* that has no host and is refused.
Reopen(p) ==
  /\ doing[p] # "idle" \/ fetch[p] # NotFetched
  /\ MayAct
  /\ form' = [form EXCEPT ![p] = FormOf(config)]
  /\ pending' = [pending EXCEPT ![p] = None]
  /\ shown' = [shown EXCEPT ![p] = None]
  /\ doing' = [doing EXCEPT ![p] = "idle"]
  /\ body' = [body EXCEPT ![p] = NoConfig]
  /\ posted' = [posted EXCEPT ![p] = {}]
  /\ ask' = [ask EXCEPT ![p] = FirstAsk]
  /\ fetch' = [fetch EXCEPT ![p] = NotFetched]
  /\ UNCHANGED rotationVars

Revoked == {KeyOf(held[r]) : r \in {q \in Conns : answer[q] = "ok"}}

\* A key is pasted or loaded from a file, though not one the
\* user has seen revoked.
Edit(p) ==
  /\ doing[p] = "idle"
  /\ form' \in {[form EXCEPT ![p].auth = "key", ![p].value = k] : k \in Pasted \ Revoked}
  /\ UNCHANGED <<rotationVars, pending, fetch, clickVars, askVars>>

Generate(p) ==
  /\ doing[p] = "idle"
  /\ GenerateKeypair
  /\ form' = [form EXCEPT ![p].auth = "key", ![p].value = made']
  /\ pending' = [pending EXCEPT ![p] = made']
  /\ shown' = [shown EXCEPT ![p] = made']
  /\ UNCHANGED <<ask, fetch, clickVars>>

ClickSave(p) ==
  /\ doing[p] = "idle"
  /\ doing' = [doing EXCEPT ![p] = "put"]
  /\ body' = [body EXCEPT ![p] = form[p]]
  /\ UNCHANGED <<rotationVars, form, pending, posted, fetch, askVars>>

\* The server handles the PUT, and answers.
HandlePut(p) ==
  /\ doing[p] = "put"
  /\ \/ /\ Put(body[p])
        /\ \/ doing' = [doing EXCEPT ![p] = "saved"]
           \/ "answer" \in Faults /\ doing' = [doing EXCEPT ![p] = "failed"]
     \/ /\ ~Valid(body[p]) \/ Faults \cap {"save", "answer"} # {}
        /\ doing' = [doing EXCEPT ![p] = "failed"]
        /\ UNCHANGED rotationVars
  /\ body' = [body EXCEPT ![p] = NoConfig]
  /\ UNCHANGED <<form, pending, posted, fetch, askVars>>

SaveAnswered(p) ==
  /\ doing[p] \in {"saved", "failed"} /\ ask[p]["click"] = Unasked
  /\ doing' = [doing EXCEPT ![p] = "idle"]
  /\ IF doing[p] = "saved"
     THEN pending' = [pending EXCEPT ![p] = None] /\ LoadPublicKey(p, "click")
     ELSE UNCHANGED <<pending, askVars>>
  /\ UNCHANGED <<rotationVars, form, body, posted, fetch>>

ClickRevoke(p, r) ==
  /\ doing[p] = "idle" /\ fetch[p] = NotFetched
  /\ Begin(r)
  /\ doing' = [doing EXCEPT ![p] = "revoke"]
  /\ posted' = [posted EXCEPT ![p] = {r}]
  /\ UNCHANGED <<form, pending, body, fetch, askVars>>

\* After a revocation the new key is pending and the configuration is fetched.
RevokeAnswered(p, r) ==
  /\ doing[p] = "revoke" /\ r \in posted[p] /\ at[r] = "done" /\ ~cancelled[r]
  /\ doing' = [doing EXCEPT ![p] = "idle"]
  /\ posted' = [posted EXCEPT ![p] = {}]
  /\ \/ /\ answer[r] = "ok"
        /\ pending' = [pending EXCEPT ![p] = fresh[r]]
        /\ fetch' = [fetch EXCEPT ![p] = Fetch("asked", NoConfig)]
     \/ answer[r] = "error" /\ UNCHANGED <<pending, fetch>>
  /\ UNCHANGED <<rotationVars, form, body, askVars>>

\* The answer is lost: the page reports a failure and stays as it is.
RevokeUnanswered(p) ==
  /\ doing[p] = "revoke" /\ "answer" \in Faults
  /\ doing' = [doing EXCEPT ![p] = "idle"]
  /\ posted' = [posted EXCEPT ![p] = {}]
  /\ UNCHANGED <<rotationVars, form, pending, body, fetch, askVars>>

\* A user copies the key on display and adds it to authorized_keys.
Authorize(p) ==
  /\ shown[p] \in Keys /\ AddToHost(shown[p])
  /\ UNCHANGED pageVars

PageStep(p) ==
  \/ Timer(p) \/ ServeConfig(p) \/ ConfigArrives(p)
  \/ HandlePut(p) \/ SaveAnswered(p) \/ RevokeUnanswered(p)
  \/ \E s \in Callers : Serve(p, s) \/ ServeFails(p, s) \/ Arrive(p, s)
  \/ \E r \in Conns : RevokeAnswered(p, r)

UserStep(p) ==
  \/ Reopen(p) \/ Edit(p) \/ Generate(p) \/ ClickSave(p) \/ Authorize(p)
  \/ \E r \in Conns : ClickRevoke(p, r)

Next ==
  \/ \E p \in Pages : PageStep(p) \/ UserStep(p)
  \/ \E r \in Conns : RevokeStep(r) /\ UNCHANGED pageVars

Spec == Init /\ [][Next]_vars

\* Timers fire and requests are answered; a send to a channel with room ends.
FairSpec ==
  /\ Spec
  /\ \A p \in Pages : WF_vars(Timer(p))
  /\ \A p \in Pages, s \in Callers : WF_vars(Serve(p, s)) /\ WF_vars(Arrive(p, s))
  /\ \A r \in Conns : WF_vars(Deliver(r) /\ UNCHANGED <<keyVars, pageVars>>)

-----------------------------------------------------------------------------
(* Properties.                                                             *)

\* A revocation replaces the current key (app.js:494): the configuration never
\* goes back to a key that a reported revocation has taken off the host, not
\* even when the form that held that key is saved afterwards.
RevokedStaysOut == KeyOf(config) \notin Revoked

\* The 30-second loadPublicKey interval does not overwrite a freshly generated
\* key with the stale saved one (app.js:8).
PendingStays ==
  [][\A p \in Pages :
        pending[p] # None /\ pending'[p] = pending[p] /\ shown[p] = pending[p]
        => shown'[p] = pending[p]]_vars

\* A page that waits for no click comes to show what there is to show of the
\* configuration's key, as long as no other key is pending and from some moment
\* on no request for it fails, and keeps showing it: late answers with older keys
\* and errors are put right.
KeyShown ==
  \A p \in Pages : \A k \in 0..NKeys :
    /\ <>[](doing[p] = "idle" /\ KeyOf(config) = k /\ pending[p] \in {None, k})
    /\ <>[][\A s \in Callers : ~ServeFails(p, s)]_vars
    => <>[](shown[p] = Display(k))
=============================================================================
