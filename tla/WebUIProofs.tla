---------------------------- MODULE WebUIProofs ----------------------------
(***************************************************************************)
(* The pages use the keys as KeyRotation lets users do, so that what is    *)
(* proved of KeyRotation holds of WebUI, for any number of pages.          *)
(***************************************************************************)
EXTENDS WebUI, KeyRotationProofs

\* The keys that are about have come up.
Known ==
  /\ KeyOf(config) <= made
  /\ \A r \in Conns : fresh[r] <= made
  /\ \A p \in Pages, s \in Callers : ask[p][s] \in (0..made) \cup {Asked, Unasked, Failed}

WInv == RInv /\ TypeOK /\ Known

LEMMA FormType ==
  ASSUME NEW cfg \in Config
  PROVE  FormOf(cfg) \in Config /\ FormOf(cfg).value = cfg.value
  BY DEF FormOf, Config

LEMMA KeyBounds ==
  ASSUME RotationTypeOK
  PROVE  /\ NKeys \in Nat /\ made \in Nat /\ Found <= made /\ made <= NKeys /\ KeyFile <= made
         /\ Keys = 1..NKeys /\ None = 0 /\ Unasked = NKeys + 1 /\ Asked = NKeys + 2 /\ Failed = NKeys + 3
         /\ Pasted \subseteq 1..made /\ 1..made \subseteq Keys
  BY KeyNumbers, KeyRotationAssumption, PagesAssumption
  DEF KeyRotationAssumption, PagesAssumption, RotationTypeOK, Keys, None, Asked, Unasked, Failed

LEMMA ValueBound ==
  ASSUME RotationTypeOK, KeyOf(config) <= made
  PROVE  config.value <= made /\ KeyOf(config) \in 0..made
  BY KeyBounds, KeyOfType DEF KeyOf, RotationTypeOK, Config, None

-----------------------------------------------------------------------------
(* Every step of a page is a step of KeyRotation or leaves it alone.       *)

LEMMA PageUsesRotation ==
  ASSUME TypeOK, [Next]_vars
  PROVE  [RotationNext]_rotationVars
  <1>1. ASSUME NEW p \in Pages, HandlePut(p)
        PROVE  [RotationNext]_rotationVars
    BY <1>1 DEF HandlePut, RotationNext, TypeOK
  <1>2. ASSUME NEW p \in Pages, Authorize(p)
        PROVE  [RotationNext]_rotationVars
    BY <1>2 DEF Authorize, RotationNext, TypeOK
  <1>3. ASSUME NEW p \in Pages, Generate(p)
        PROVE  [RotationNext]_rotationVars
    BY <1>3 DEF Generate, RotationNext
  <1>4. ASSUME NEW p \in Pages, NEW r \in Conns, ClickRevoke(p, r)
        PROVE  [RotationNext]_rotationVars
    BY <1>4 DEF ClickRevoke, RotationNext
  <1>5. ASSUME NEW p \in Pages,
               \/ Timer(p) \/ ServeConfig(p) \/ ConfigArrives(p) \/ SaveAnswered(p) \/ RevokeUnanswered(p)
               \/ Reopen(p) \/ Edit(p) \/ ClickSave(p)
               \/ \E s \in Callers : Serve(p, s) \/ ServeFails(p, s) \/ Arrive(p, s)
               \/ \E r \in Conns : RevokeAnswered(p, r)
        PROVE  UNCHANGED rotationVars
    BY <1>5 DEF Timer, ServeConfig, ConfigArrives, SaveAnswered, RevokeUnanswered, Reopen, Edit, ClickSave,
      Answered, Serve, ServeFails, Arrive, RevokeAnswered
  <1>6. ASSUME NEW r \in Conns, RevokeStep(r)
        PROVE  RotationNext
    BY <1>6 DEF RotationNext
  <1>7. CASE UNCHANGED vars
    BY <1>7 DEF vars
  <1> QED
    BY <1>1, <1>2, <1>3, <1>4, <1>5, <1>6, <1>7 DEF Next, PageStep, UserStep

LEMMA KnownKeys ==
  ASSUME RInv, KeyOf(config) <= made, \A r \in Conns : fresh[r] <= made, [RotationNext]_rotationVars
  PROVE  /\ made' \in Nat /\ made <= made' /\ KeyOf(config') <= made'
         /\ \A r \in Conns : fresh'[r] <= made'
  <1>1. made \in Nat /\ fresh \in [Conns -> Keys \cup {None}] /\ KeyOf(config) \in 0..made
        /\ \A r \in Conns : fresh[r] \in Nat
    BY KeyBounds, ValueBound DEF RInv, RotationTypeOK
  <1>2. ASSUME UNCHANGED <<made, fresh>>, KeyOf(config') = KeyOf(config) \/ KeyOf(config') <= made
        PROVE  /\ made' \in Nat /\ made <= made' /\ KeyOf(config') <= made'
               /\ \A r \in Conns : fresh'[r] <= made'
    BY <1>1, <1>2
  <1>3. ASSUME NEW r \in Conns, Begin(r) \/ (RevokeStep(r) /\ ~Save(r))
        PROVE  UNCHANGED <<made, fresh, config>>
    BY <1>3 DEF Begin, RevokeStep, Handshake, Network, OpenTemp, Filter, Move, RunFails, SaveFails, BeginClose,
      Return, keyVars
  <1>4. ASSUME NEW r \in Conns, Save(r)
        PROVE  /\ made' = made + 1 /\ KeyOf(config') = made'
               /\ \A q \in Conns : fresh'[q] = fresh[q] \/ fresh'[q] = made'
    <2>1. made' = made + 1 /\ made' \in Keys
      BY <1>1, <1>4, KeyBounds DEF Save, RInv
    <2>2. KeyOf(config') = made'
      BY <1>4, <2>1, RotatedType DEF Save
    <2> QED
      BY <1>1, <1>4, <2>1, <2>2 DEF Save
  <1>5. ASSUME NEW cfg \in Config, cfg.value <= made, Put(cfg)
        PROVE  UNCHANGED <<made, fresh>> /\ KeyOf(config') <= made
    BY <1>1, <1>5, KeyBounds DEF Put, KeyOf, Config, RInv, None
  <1>6. CASE GenerateKeypair
    BY <1>1, <1>6 DEF GenerateKeypair
  <1>7. ASSUME NEW k \in Keys, AddToHost(k)
        PROVE  UNCHANGED <<made, fresh, config>>
    BY <1>7 DEF AddToHost
  <1>8. CASE UNCHANGED rotationVars
    BY <1>2, <1>8 DEF rotationVars, keyVars
  <1> QED
    BY <1>1, <1>2, <1>3, <1>4, <1>5, <1>6, <1>7, <1>8 DEF RotationNext

-----------------------------------------------------------------------------
(* What the pages hold.                                                    *)

PagesOK ==
  /\ form \in [Pages -> Config]
  /\ pending \in [Pages -> Keys \cup {None}] /\ shown \in [Pages -> Keys \cup {None, Failed}]
  /\ doing \in [Pages -> {"idle", "put", "saved", "failed", "revoke"}]
  /\ body \in [Pages -> Config]
  /\ posted \in [Pages -> SUBSET Conns]
  /\ ask \in [Pages -> [Callers -> 0..Failed]]
  /\ fetch \in [Pages -> Fetches]
  /\ \A p \in Pages : /\ pending[p] <= made /\ (shown[p] = Failed \/ shown[p] <= made)
                      /\ form[p].value <= made /\ fetch[p].cfg.value <= made
                      /\ body[p].value <= made
  /\ \A p \in Pages, s \in Callers : ask[p][s] \in (0..made) \cup {Asked, Unasked, Failed}

\* The same, page by page.
PageOK(p) ==
  /\ form[p] \in Config /\ form[p].value <= made
  /\ pending[p] \in Keys \cup {None} /\ pending[p] <= made
  /\ shown[p] \in Keys \cup {None, Failed} /\ (shown[p] = Failed \/ shown[p] <= made)
  /\ doing[p] \in {"idle", "put", "saved", "failed", "revoke"}
  /\ body[p] \in Config /\ body[p].value <= made
  /\ posted[p] \in SUBSET Conns
  /\ fetch[p] \in Fetches /\ fetch[p].cfg.value <= made
  /\ ask[p] \in [Callers -> 0..Failed]
  /\ \A s \in Callers : ask[p][s] \in (0..made) \cup {Asked, Unasked, Failed}

\* What the pages hold is a function of the page.
PagesShape ==
  /\ form = [p \in Pages |-> form[p]] /\ pending = [p \in Pages |-> pending[p]]
  /\ shown = [p \in Pages |-> shown[p]] /\ doing = [p \in Pages |-> doing[p]]
  /\ body = [p \in Pages |-> body[p]] /\ posted = [p \in Pages |-> posted[p]]
  /\ ask = [p \in Pages |-> ask[p]] /\ fetch = [p \in Pages |-> fetch[p]]

LEMMA PageByPage == PagesOK <=> PagesShape /\ \A p \in Pages : PageOK(p)
  <1>1. ASSUME PagesOK
        PROVE  PagesShape /\ \A p \in Pages : PageOK(p)
    BY <1>1 DEF PagesOK, PagesShape, PageOK
  <1>2. ASSUME PagesShape, \A p \in Pages : PageOK(p)
        PROVE  PagesOK
    <2>1. /\ form \in [Pages -> Config] /\ pending \in [Pages -> Keys \cup {None}]
          /\ shown \in [Pages -> Keys \cup {None, Failed}]
      BY <1>2 DEF PagesShape, PageOK
    <2>2. /\ doing \in [Pages -> {"idle", "put", "saved", "failed", "revoke"}]
          /\ body \in [Pages -> Config] /\ posted \in [Pages -> SUBSET Conns]
      BY <1>2 DEF PagesShape, PageOK
    <2>3. ask \in [Pages -> [Callers -> 0..Failed]] /\ fetch \in [Pages -> Fetches]
      BY <1>2 DEF PagesShape, PageOK
    <2> QED
      BY <1>2, <2>1, <2>2, <2>3 DEF PagesOK, PageOK
  <1> QED
    BY <1>1, <1>2

LEMMA PageByPageNext == PagesShape' /\ (\A p \in Pages : PageOK(p)') => PagesOK'
  <1>1. (PagesShape /\ \A p \in Pages : PageOK(p))' => PagesOK'
    BY PageByPage, PTL
  <1> QED
    BY <1>1

LEMMA KeyNats ==
  /\ \A cfg \in Config : cfg.value \in Nat
  /\ \A f \in Fetches : f.cfg.value \in Nat
  /\ \A k \in Keys \cup {None, Failed} : k \in Nat
  <1>1. NKeys \in Nat /\ Keys \cup {None} \subseteq Nat
    BY KeyNumbers
  <1>2. \A cfg \in Config : cfg.value \in Nat
    BY <1>1 DEF Config
  <1>3. \A f \in Fetches : f.cfg \in Config
    BY DEF Fetches
  <1>4. Failed \in Nat
    BY <1>1 DEF Failed
  <1> QED
    BY <1>1, <1>2, <1>3, <1>4

\* Steps leave other pages alone, and keys that are known stay known: what to
\* show of a step.
LEMMA OnePageSteps ==
  ASSUME PagesOK, made \in Nat, made' \in Nat, made <= made', PagesShape', NEW p \in Pages,
         \A q \in Pages \ {p} :
           /\ form'[q] = form[q] /\ pending'[q] = pending[q] /\ shown'[q] = shown[q]
           /\ doing'[q] = doing[q] /\ body'[q] = body[q] /\ posted'[q] = posted[q]
           /\ ask'[q] = ask[q] /\ fetch'[q] = fetch[q],
         PageOK(p)'
  PROVE  PagesOK'
  <1>1. ASSUME NEW q \in Pages \ {p}
        PROVE  PageOK(q)'
    <2>1. PageOK(q)
      BY PageByPage
    <2>2. /\ form[q].value \in Nat /\ body[q].value \in Nat /\ fetch[q].cfg.value \in Nat
          /\ pending[q] \in Nat /\ shown[q] \in Nat
      BY <2>1, KeyNats DEF PageOK
    <2>3. (0..made) \subseteq (0..made')
      OBVIOUS
    <2> QED
      BY <2>1, <2>2, <2>3 DEF PageOK
  <1>2. \A q \in Pages : PageOK(q)'
    BY <1>1
  <1> QED
    BY <1>2, PageByPageNext

\* No page takes a step.
LEMMA PagesStay ==
  ASSUME PagesOK, made \in Nat, made' \in Nat, made <= made', UNCHANGED pageVars
  PROVE  PagesOK'
  <1>1. UNCHANGED <<form, pending, shown, doing, body, posted, ask, fetch>>
    BY DEF pageVars, clickVars, askVars
  <1>2. PagesShape'
    BY <1>1, PageByPage DEF PagesShape
  <1>3. ASSUME NEW p \in Pages
        PROVE  PageOK(p)'
    <2>1. PageOK(p)
      BY PageByPage
    <2>2. /\ form[p].value \in Nat /\ body[p].value \in Nat /\ fetch[p].cfg.value \in Nat
          /\ pending[p] \in Nat /\ shown[p] \in Nat
      BY <2>1, KeyNats DEF PageOK
    <2>3. (0..made) \subseteq (0..made')
      OBVIOUS
    <2> QED
      BY <1>1, <2>1, <2>2, <2>3 DEF PageOK
  <1> QED
    BY <1>2, <1>3, PageByPageNext

LEMMA LoadsKey ==
  ASSUME PagesOK, UNCHANGED made, NEW p \in Pages, NEW s \in Callers,
         pending'[p] \in Keys \cup {None}, pending'[p] <= made, LoadPublicKey(p, s)
  PROVE  /\ shown' = [q \in Pages |-> shown'[q]] /\ ask' = [q \in Pages |-> ask'[q]]
         /\ \A q \in Pages \ {p} : shown'[q] = shown[q] /\ ask'[q] = ask[q]
         /\ shown'[p] \in Keys \cup {None, Failed} /\ (shown'[p] = Failed \/ shown'[p] <= made)
         /\ ask'[p] \in [Callers -> 0..Failed]
         /\ \A t \in Callers : ask'[p][t] \in (0..made) \cup {Asked, Unasked, Failed}
  <1>1. Asked \in 0..Failed
    BY KeyNumbers DEF Asked, Failed
  <1>2. CASE pending'[p] # None
    <2>1. shown' = [shown EXCEPT ![p] = pending'[p]] /\ UNCHANGED ask
      BY <1>2 DEF LoadPublicKey
    <2> QED
      BY <2>1 DEF PagesOK
  <1>3. CASE pending'[p] = None
    <2>1. ask' = [ask EXCEPT ![p] = [@ EXCEPT ![s] = Asked]] /\ UNCHANGED shown
      BY <1>3 DEF LoadPublicKey
    <2>2. /\ ask' \in [Pages -> [Callers -> 0..Failed]]
          /\ \A q \in Pages \ {p} : ask'[q] = ask[q]
          /\ \A t \in Callers : ask'[p][t] = ask[p][t] \/ ask'[p][t] = Asked
      BY <1>1, <2>1 DEF PagesOK
    <2> QED
      BY <2>1, <2>2 DEF PagesOK
  <1> QED
    BY <1>2, <1>3

\* A key comes into the form of one page.
LEMMA FormTakesKey ==
  ASSUME form \in [Pages -> Config], NEW p \in Pages, NEW k \in Keys,
         form' = [form EXCEPT ![p].auth = "key", ![p].value = k]
  PROVE  /\ form' \in [Pages -> Config] /\ form'[p].value = k
         /\ \A q \in Pages \ {p} : form'[q] = form[q]
  <1> DEFINE filled == [[form[p] EXCEPT !.auth = "key"] EXCEPT !.value = k]
  <1>1. filled \in Config /\ filled.value = k
    BY DEF Config
  <1>2. form' = [form EXCEPT ![p] = filled]
    OBVIOUS
  <1> QED
    BY <1>1, <1>2

\* The configurations that pages hold without having been given one.
LEMMA NoConfigType ==
  /\ NoConfig \in Config /\ NoConfig.value = None
  /\ \A s \in {"none", "asked", "answered", "failed"} : \A cfg \in Config :
       Fetch(s, cfg) \in Fetches /\ Fetch(s, cfg).cfg = cfg
  /\ NotFetched \in Fetches /\ NotFetched.cfg = NoConfig
  BY DEF NoConfig, Config, Fetch, Fetches, NotFetched

LEMMA PageStepKeeps ==
  ASSUME PagesOK, RotationTypeOK, KeyOf(config) <= made, \A r \in Conns : fresh[r] <= made,
         NEW p \in Pages, PageStep(p)
  PROVE  PagesOK'
  <1>1. made \in Nat /\ config \in Config /\ KeyOf(config) \in (0..made) /\ config.value <= made
        /\ (0..made) \subseteq (0..Failed) /\ {Asked, Unasked, Failed} \subseteq (0..Failed)
        /\ (0..made) \subseteq Keys \cup {None} /\ None <= made
        /\ fresh \in [Conns -> Keys \cup {None}]
    BY KeyBounds, ValueBound DEF RotationTypeOK
  <1>2. PagesShape /\ PageOK(p)
    BY PageByPage
  <1>3. UNCHANGED made
    BY DEF PageStep, Timer, ServeConfig, ConfigArrives, HandlePut, Put, SaveAnswered, RevokeUnanswered,
       Answered, Serve, ServeFails, Arrive, RevokeAnswered, rotationVars, keyVars
  <1> DEFINE Others == \A q \in Pages \ {p} :
               /\ form'[q] = form[q] /\ pending'[q] = pending[q] /\ shown'[q] = shown[q]
               /\ doing'[q] = doing[q] /\ body'[q] = body[q] /\ posted'[q] = posted[q]
               /\ ask'[q] = ask[q] /\ fetch'[q] = fetch[q]
  <1> SUFFICES PagesShape' /\ Others /\ PageOK(p)'
    BY <1>1, <1>3, OnePageSteps
  <1> USE <1>1, <1>2, <1>3 DEF PagesShape, PageOK, clickVars, askVars
  <1>4. CASE Timer(p)
    <2>1. UNCHANGED <<form, pending, doing, body, posted, fetch>> /\ LoadPublicKey(p, "timer")
      BY <1>4 DEF Timer
    <2> QED
      BY <2>1, LoadsKey DEF Callers
  <1>5. CASE SaveAnswered(p)
    <2>1. UNCHANGED <<form, body, posted, fetch>> /\ doing' = [doing EXCEPT ![p] = "idle"]
      BY <1>5 DEF SaveAnswered
    <2>2. CASE UNCHANGED <<pending, shown, ask>>
      BY <2>1, <2>2
    <2>3. CASE pending' = [pending EXCEPT ![p] = None] /\ LoadPublicKey(p, "click")
      <3>1. /\ pending'[p] = None /\ \A q \in Pages \ {p} : pending'[q] = pending[q]
            /\ pending' = [q \in Pages |-> pending'[q]]
        BY <2>3
      <3> QED
        BY <2>1, <2>3, <3>1, LoadsKey DEF Callers
    <2> QED
      BY <1>5, <2>2, <2>3 DEF SaveAnswered
  <1>6. CASE HandlePut(p)
    <2>1. /\ UNCHANGED <<form, pending, shown, posted, ask, fetch>>
          /\ doing' = [doing EXCEPT ![p] = "saved"] \/ doing' = [doing EXCEPT ![p] = "failed"]
          /\ body' = [body EXCEPT ![p] = NoConfig]
      BY <1>6 DEF HandlePut
    <2> QED
      BY <2>1, NoConfigType
  <1>7. CASE RevokeUnanswered(p)
    BY <1>7 DEF RevokeUnanswered
  <1>8. ASSUME NEW s \in Callers, NEW k \in (0..made) \cup {Failed}, Answered(p, s, k)
        PROVE  PagesShape' /\ Others /\ PageOK(p)'
    <2>1. /\ UNCHANGED <<form, pending, shown, doing, body, posted, fetch>>
          /\ ask' = [ask EXCEPT ![p] = [@ EXCEPT ![s] = k]]
      BY <1>8 DEF Answered
    <2> QED
      BY <1>8, <2>1
  <1>9. ASSUME NEW s \in Callers, Serve(p, s) \/ ServeFails(p, s)
        PROVE  PagesShape' /\ Others /\ PageOK(p)'
    <2>1. Display(KeyOf(config)) \in (0..made) \cup {Failed}
      BY DEF Display
    <2> QED
      BY <1>8, <1>9, <2>1 DEF Serve, ServeFails
  <1>10. ASSUME NEW s \in Callers, Arrive(p, s)
         PROVE  PagesShape' /\ Others /\ PageOK(p)'
    <2>1. /\ UNCHANGED <<form, pending, doing, body, posted, fetch>>
          /\ ask[p][s] \in (0..made) \cup {Failed}
          /\ shown' = [shown EXCEPT ![p] = ask[p][s]]
          /\ ask' = [ask EXCEPT ![p] = [@ EXCEPT ![s] = Unasked]]
      BY <1>10 DEF Arrive
    <2>2. ask[p][s] \in Keys \cup {None, Failed} /\ (ask[p][s] = Failed \/ ask[p][s] <= made)
      BY <2>1
    <2>3. /\ ask' = [q \in Pages |-> ask'[q]] /\ \A q \in Pages \ {p} : ask'[q] = ask[q]
          /\ ask'[p] \in [Callers -> 0..Failed]
          /\ \A t \in Callers : ask'[p][t] = ask[p][t] \/ ask'[p][t] = Unasked
      BY <2>1
    <2> QED
      BY <2>1, <2>2, <2>3
  <1>11. CASE ServeConfig(p)
    <2>1. FormOf(config) \in Config /\ FormOf(config).value <= made
      BY FormType
    <2>2. PICK cfg \in {FormOf(config), NoConfig}, s \in {"answered", "failed"} :
             /\ UNCHANGED <<form, pending, shown, doing, body, posted, ask>>
             /\ fetch' = [fetch EXCEPT ![p] = Fetch(s, cfg)]
      BY <1>11 DEF ServeConfig
    <2>3. cfg \in Config /\ cfg.value <= made
      BY <2>1, NoConfigType
    <2>4. PICK asked \in Fetches : asked.cfg = cfg /\ fetch' = [fetch EXCEPT ![p] = asked]
      BY <2>2, <2>3, NoConfigType
    <2> QED
      BY <2>2, <2>3, <2>4
  <1>12. CASE ConfigArrives(p)
    <2>1. /\ UNCHANGED <<pending, doing, body, posted>> /\ LoadPublicKey(p, "click")
          /\ form' = [form EXCEPT ![p] = fetch[p].cfg] \/ UNCHANGED form
          /\ fetch' = [fetch EXCEPT ![p] = NotFetched]
      BY <1>12 DEF ConfigArrives
    <2>2. fetch[p].cfg \in Config
      BY DEF Fetches
    <2>3. /\ form' = [q \in Pages |-> form'[q]] /\ \A q \in Pages \ {p} : form'[q] = form[q]
          /\ form'[p] \in Config /\ form'[p].value <= made
      BY <2>1, <2>2
    <2>4. /\ fetch' = [q \in Pages |-> fetch'[q]] /\ \A q \in Pages \ {p} : fetch'[q] = fetch[q]
          /\ fetch'[p] \in Fetches /\ fetch'[p].cfg.value <= made
      BY <2>1, NoConfigType
    <2> QED
      BY <2>1, <2>3, <2>4, LoadsKey DEF Callers
  <1>13. ASSUME NEW r \in Conns, RevokeAnswered(p, r)
         PROVE  PagesShape' /\ Others /\ PageOK(p)'
    <2>1. /\ UNCHANGED <<form, body, shown, ask>>
          /\ doing' = [doing EXCEPT ![p] = "idle"] /\ posted' = [posted EXCEPT ![p] = {}]
          /\ \/ /\ pending' = [pending EXCEPT ![p] = fresh[r]]
                /\ fetch' = [fetch EXCEPT ![p] = Fetch("asked", NoConfig)]
             \/ UNCHANGED <<pending, fetch>>
      BY <1>13 DEF RevokeAnswered
    <2>2. Fetch("asked", NoConfig) \in Fetches /\ Fetch("asked", NoConfig).cfg.value <= made
      BY NoConfigType
    <2>3. /\ pending' = [q \in Pages |-> pending'[q]] /\ fetch' = [q \in Pages |-> fetch'[q]]
          /\ \A q \in Pages \ {p} : pending'[q] = pending[q] /\ fetch'[q] = fetch[q]
          /\ pending'[p] \in Keys \cup {None} /\ pending'[p] <= made
          /\ fetch'[p] \in Fetches /\ fetch'[p].cfg.value <= made
      BY <2>1, <2>2
    <2> QED
      BY <2>1, <2>3
  <1> QED
    BY <1>4, <1>5, <1>6, <1>7, <1>9, <1>10, <1>11, <1>12, <1>13 DEF PageStep

LEMMA UserStepKeeps ==
  ASSUME PagesOK, RotationTypeOK, RotationTypeOK', KeyOf(config) <= made, NEW p \in Pages, UserStep(p)
  PROVE  PagesOK'
  <1>1. /\ made \in Nat /\ config \in Config /\ config.value <= made /\ None <= made
        /\ made' \in Nat
    <2>1. Found..NKeys \subseteq Nat
      BY KeyNumbers
    <2>2. made \in Nat /\ made' \in Nat /\ config \in Config /\ None <= made
      BY <2>1 DEF RotationTypeOK, None
    <2> QED
      BY <2>2, ValueBound
  <1>2. PagesShape /\ PageOK(p)
    BY PageByPage
  <1>3. ASSUME ~Generate(p)
        PROVE  UNCHANGED made
    BY <1>3 DEF UserStep, Reopen, Edit, ClickSave, Authorize, AddToHost, ClickRevoke, Begin, rotationVars, keyVars
  <1>4. made <= made'
    BY <1>1, <1>3 DEF Generate, GenerateKeypair
  <1> DEFINE Others == \A q \in Pages \ {p} :
               /\ form'[q] = form[q] /\ pending'[q] = pending[q] /\ shown'[q] = shown[q]
               /\ doing'[q] = doing[q] /\ body'[q] = body[q] /\ posted'[q] = posted[q]
               /\ ask'[q] = ask[q] /\ fetch'[q] = fetch[q]
  <1> SUFFICES PagesShape' /\ Others /\ PageOK(p)'
    BY <1>1, <1>4, OnePageSteps
  <1> USE <1>1, <1>2 DEF PagesShape, PageOK, clickVars, askVars
  <1>5. CASE Reopen(p)
    <2>1. FirstAsk \in [Callers -> 0..Failed] /\ \A s \in Callers : FirstAsk[s] \in {Asked, Unasked}
      BY KeyBounds DEF FirstAsk, Quiet, Callers
    <2>2. FormOf(config) \in Config /\ FormOf(config).value <= made
      BY FormType
    <2>3. UNCHANGED made
      BY <1>5 DEF Reopen, rotationVars, keyVars
    <2> QED
      BY <1>5, <2>1, <2>2, <2>3, NoConfigType DEF Reopen
  <1>6. CASE Edit(p)
    <2>1. PICK k \in Pasted : form' = [form EXCEPT ![p].auth = "key", ![p].value = k]
      BY <1>6 DEF Edit
    <2>2. UNCHANGED <<pending, shown, doing, body, posted, ask, fetch, made>>
      BY <1>6 DEF Edit, rotationVars, keyVars
    <2>3. k \in Keys /\ k <= made
      BY KeyBounds
    <2>4. form' \in [Pages -> Config] /\ form'[p].value = k /\ \A q \in Pages \ {p} : form'[q] = form[q]
      BY <2>1, <2>3, FormTakesKey DEF PagesOK
    <2> QED
      BY <2>2, <2>3, <2>4
  <1>7. CASE Generate(p)
    <2>1. /\ made' = made + 1 /\ made' \in Keys
          /\ form' = [form EXCEPT ![p].auth = "key", ![p].value = made']
          /\ pending' = [pending EXCEPT ![p] = made'] /\ shown' = [shown EXCEPT ![p] = made']
          /\ UNCHANGED <<doing, body, posted, ask, fetch>>
      BY <1>7, KeyBounds DEF Generate, GenerateKeypair
    <2>2. /\ form' \in [Pages -> Config] /\ form'[p].value = made'
          /\ \A q \in Pages \ {p} : form'[q] = form[q]
      BY <2>1, FormTakesKey DEF PagesOK
    <2>3. body[p].value \in Nat /\ fetch[p].cfg.value \in Nat
      BY KeyNats
    <2>4. \A s \in Callers : ask'[p][s] \in (0..made') \cup {Asked, Unasked, Failed}
      BY <2>1
    <2>5. /\ pending' = [q \in Pages |-> pending'[q]] /\ shown' = [q \in Pages |-> shown'[q]]
          /\ \A q \in Pages \ {p} : pending'[q] = pending[q] /\ shown'[q] = shown[q]
          /\ pending'[p] = made' /\ shown'[p] = made'
      BY <2>1
    <2>6. /\ form'[p] \in Config /\ form'[p].value <= made' /\ form' = [q \in Pages |-> form'[q]]
          /\ body'[p].value <= made' /\ fetch'[p].cfg.value <= made'
      BY <2>1, <2>2, <2>3
    <2> QED
      BY <2>1, <2>2, <2>4, <2>5, <2>6
  <1>8. CASE ClickSave(p)
    BY <1>8 DEF ClickSave, rotationVars, keyVars
  <1>9. CASE Authorize(p)
    BY <1>9 DEF Authorize, AddToHost, pageVars
  <1>10. ASSUME NEW r \in Conns, ClickRevoke(p, r)
         PROVE  PagesShape' /\ Others /\ PageOK(p)'
    BY <1>10 DEF ClickRevoke, Begin
  <1> QED
    BY <1>5, <1>6, <1>7, <1>8, <1>9, <1>10 DEF UserStep

LEMMA WInvStep ==
  ASSUME WInv, [Next]_vars
  PROVE  WInv'
  <1>1. [RotationNext]_rotationVars /\ RInv'
    BY PageUsesRotation, RInvKept DEF WInv
  <1>2. /\ made' \in Nat /\ made <= made' /\ KeyOf(config') <= made'
        /\ \A r \in Conns : fresh'[r] <= made'
    BY <1>1, KnownKeys DEF WInv, Known
  <1>3. PagesOK /\ RotationTypeOK /\ RotationTypeOK' /\ made \in Nat
    BY <1>1, KeyBounds DEF WInv, TypeOK, Known, PagesOK, RInv
  <1>4. PagesOK'
    <2>1. CASE UNCHANGED pageVars
      BY <1>2, <1>3, <2>1, PagesStay
    <2>2. ASSUME NEW p \in Pages, PageStep(p) \/ UserStep(p)
          PROVE  PagesOK'
      BY <1>3, <2>2, PageStepKeeps, UserStepKeeps DEF WInv, Known
    <2> QED
      BY <2>1, <2>2 DEF Next, vars
  <1> QED
    BY <1>1, <1>2, <1>4 DEF WInv, TypeOK, Known, PagesOK, RInv

LEMMA WInvInitially == Init => WInv
  <1> SUFFICES ASSUME Init
               PROVE  WInv
    OBVIOUS
  <1>1. RInv
    BY RotationInitially DEF Init
  <1>2. config \in Initial /\ made = Found /\ fresh = [r \in Conns |-> None]
    BY DEF Init, RotationInit
  <1>3. config.value <= Found /\ config \in Config
    BY <1>2, KeyRotationAssumption DEF KeyRotationAssumption
  <1>4. KeyOf(config) <= made
    BY <1>1, <1>2, <1>3, KeyBounds DEF RInv, KeyOf, Config
  <1>5. FirstAsk \in [Callers -> 0..Failed] /\ \A s \in Callers : FirstAsk[s] \in {Asked, Unasked}
    BY <1>1, KeyBounds DEF RInv, FirstAsk, Quiet, Callers
  <1>6. TypeOK /\ Known
    BY <1>1, <1>2, <1>3, <1>4, <1>5, KeyBounds, FormType, NoConfigType DEF RInv, TypeOK, Known, Init
  <1> QED
    BY <1>1, <1>6 DEF WInv

LEMMA WInvAlways == Spec => []WInv
  <1>1. WInv /\ [Next]_vars => WInv'
    BY WInvStep
  <1> QED
    BY <1>1, WInvInitially, PTL DEF Spec

-----------------------------------------------------------------------------
(* The theorems.                                                           *)

\* Whatever users do in any number of pages, they ask of the server what
\* KeyRotation has them ask.
THEOREM PagesUseRotation == Spec => RotationSpec
  <1>1. Init => RotationInit
    BY DEF Init
  <1>2. WInv /\ [Next]_vars => [RotationNext]_rotationVars
    BY PageUsesRotation DEF WInv
  <1> QED
    BY <1>1, <1>2, WInvAlways, PTL DEF Spec, RotationSpec

\* No page holds, shows or has asked for a key that has not come up.
THEOREM WebTypeCorrect == Spec => []TypeOK
  <1>1. WInv => TypeOK
    BY DEF WInv
  <1> QED
    BY <1>1, WInvAlways, PTL

\* With pages, too, only the configured key goes off the host.
THEOREM OnlyRevokedLeavesHost == ASSUME Patient PROVE Spec => OnlyRevokedRemoved
  BY PagesUseRotation, OnlyRevokedEverRemoved, PTL

\* With pages, too, a reported revocation has replaced the key it found.
THEOREM RotationsReported == ASSUME Patient PROVE Spec => RotationDone
  BY PagesUseRotation, RotationsDone, PTL

\* With pages, too, only connections that Dial gave up stay open.
THEOREM OnlyUnreadStays == Spec => []OnlyUnreadLeft
  BY PagesUseRotation, OnlyUnreadEverLeft, PTL
=============================================================================
