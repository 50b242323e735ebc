------------------------ MODULE MediaResolver_proofs ------------------------
(***************************************************************************)
(* Proofs about MediaResolver, for any number of requests, clean-ups,      *)
(* attempts and faults, any link, and whatever the sites answer.                        *)
(***************************************************************************)
EXTENDS MediaResolver, TLAPS

-----------------------------------------------------------------------------
(***************************************************************************)
(* What the phases of the providers return.  A phase is an operator on the *)
(* answers of the sites, so one lemma per phase covers every answer.       *)
(***************************************************************************)

USE DEF Statuses, MediaKinds, ResultKinds, Sizes

\* An outcome that is not ready.
Refused == {out \in Outcomes : out.status # "ready"}

\* A ready outcome whose bytes are within the limit and that is sent as its
\* kind says, if there are any.
Sendable(out) ==
  out.status = "ready" =>
    out.bytes \in {"small", "empty"} /\ Reply(out) = IF out.kind = "image_post" THEN "image" ELSE "video"

LEMMA OutcomeType ==
  ASSUME NEW s \in Statuses, NEW k \in ResultKinds
  PROVE  /\ Outcome(s, k) \in Outcomes
         /\ Outcome(s, k).status = s /\ Outcome(s, k).kind = k
         /\ Outcome(s, k).bytes = "none" /\ Outcome(s, k).media = "none"
  BY DEF Outcome, Outcomes

LEMMA FixedOutcomes ==
  /\ Unsupported \in Refused /\ PreviewOnly \in Refused /\ TooLarge \in Refused
  /\ NotConfigured \in Refused /\ InvalidLink \in Refused
  /\ \A s \in Statuses \ {"ready"}, k \in ResultKinds : Outcome(s, k) \in Refused
  BY OutcomeType
  DEF Refused, Unsupported, PreviewOnly, TooLarge, NotConfigured, InvalidLink

LEMMA ReadyType ==
  ASSUME NEW k \in ResultKinds
  PROVE  /\ Ready(k) \in Outcomes
         /\ Ready(k).status = "ready" /\ Ready(k).kind = k /\ Ready(k).bytes = "none"
  BY OutcomeType DEF Ready

LEMMA FailureRefused ==
  ASSUME NEW f, NEW k \in ResultKinds
  PROVE  FailedWith(f, k) \in Refused
<1>1. StatusOf(f) \in Statuses \ {"ready"}
  BY DEF StatusOf
<1> DEFINE b == f \in {"timeout", "network", "busy", "stalled"}
<1>2. b \in BOOLEAN
  OBVIOUS
<1>3. FailedWith(f, k) = [Outcome(StatusOf(f), k) EXCEPT !.again = b]
  BY DEF FailedWith
<1> HIDE DEF b
<1>4. Outcome(StatusOf(f), k) \in Outcomes /\ Outcome(StatusOf(f), k).status # "ready"
  BY <1>1, OutcomeType
<1> QED
  BY <1>2, <1>3, <1>4 DEF Refused, Outcomes

LEMMA FetchRefused == \A f : FailedFetch(f) \in Refused /\ Thrown(f) \in Refused
  BY FailureRefused DEF FailedFetch, Thrown

LEMMA PageRefused == \A a : PageUnread(a) \in Refused
  BY FetchRefused, FixedOutcomes DEF PageUnread

\* A ready probe of Instagram names the kind of its media.
LEMMA IgProbeType ==
  ASSUME NEW path, NEW a
  PROVE  /\ IgProbe(path, a) \in Outcomes
         /\ IgProbe(path, a).status = "ready" => IgProbe(path, a).kind \in MediaKinds
<1>1. IgUnresolved(a) \in Refused
  BY FixedOutcomes DEF IgUnresolved
<1>2. /\ IgPage(path, a) \in Outcomes
      /\ IgPage(path, a).status = "ready" => IgPage(path, a).kind \in MediaKinds
  BY <1>1, FixedOutcomes, ReadyType DEF IgPage, IgProbeKind, Refused
<1> QED
  BY <1>2, PageRefused, FixedOutcomes DEF IgProbe, Refused

LEMMA FbProbeType ==
  ASSUME NEW path, NEW graph, NEW a
  PROVE  FbProbe(path, graph, a) \in Outcomes
<1>1. FbPage(path, a) \in Outcomes
  BY FixedOutcomes, ReadyType DEF FbPage, Refused
<1> QED
  BY <1>1, PageRefused, FixedOutcomes DEF FbProbe, Refused

LEMMA HeadRefused ==
  ASSUME NEW k, NEW h, NEW denied \in ResultKinds
  PROVE  HeadVerdict(k, h, denied) = None \/ HeadVerdict(k, h, denied) \in Refused
  BY FailureRefused, FixedOutcomes DEF HeadVerdict

\* A GET that is ready has read the whole body, within the limit.
LEMMA GetType ==
  ASSUME NEW k, NEW g \in GetAnswers
  PROVE  /\ GetVerdict(k, g) \in Outcomes
         /\ GetVerdict(k, g).status = "ready" => GetVerdict(k, g).bytes \in {"small", "empty"}
<1>1. ASSUME g.got = "body"
      PROVE  /\ ReadWithinLimit(g) \in Outcomes
             /\ ReadWithinLimit(g).status = "ready" =>
                  ReadWithinLimit(g).bytes \in {"small", "empty"}
  <2>1. g.body \in {"empty", "small", "big", "cut"}
    BY <1>1 DEF GetAnswers, Bodies, NoBytes, Failures, Refusals
  <2>2. ASSUME NEW b \in {"empty", "small"}
        PROVE  /\ [Ready("unsupported") EXCEPT !.bytes = b] \in Outcomes
               /\ [Ready("unsupported") EXCEPT !.bytes = b].bytes = b
    BY ReadyType DEF Outcomes
  <2> QED
    BY <2>1, <2>2, FixedOutcomes DEF ReadWithinLimit, Refused
<1> QED
  BY <1>1, FetchRefused, FixedOutcomes DEF GetVerdict, Refused

LEMMA DeliverType ==
  ASSUME NEW k \in ResultKinds, NEW out \in Outcomes
  PROVE  /\ Deliver(k, out) \in Outcomes
         /\ Deliver(k, out).kind = k /\ Deliver(k, out).bytes = out.bytes
         /\ Deliver(k, out).status = "ready" =>
              Reply(Deliver(k, out)) = IF k = "image_post" THEN "image" ELSE "video"
<1> DEFINE m == IF k = "image_post" THEN "image" ELSE "video"
<1>1. m \in {"image", "video"}
  OBVIOUS
<1>2. Deliver(k, out) = [out EXCEPT !.kind = k, !.media = m]
  BY DEF Deliver
<1> HIDE DEF m
<1>3. /\ Deliver(k, out) \in Outcomes
      /\ Deliver(k, out).kind = k /\ Deliver(k, out).media = m
      /\ Deliver(k, out).bytes = out.bytes /\ Deliver(k, out).status = out.status
  BY <1>1, <1>2 DEF Outcomes
<1>4. Reply(Deliver(k, out)) = IF out.status # "ready" THEN "text" ELSE m
  BY <1>1, <1>3 DEF Reply
<1> QED
  BY <1>3, <1>4 DEF m

\* What Instagram's and Facebook's own downloads answer, when ready, can be
\* sent as the kind it names.
LEMMA IgExecuteType ==
  ASSUME NEW k \in ResultKinds, NEW h, NEW g \in GetAnswers
  PROVE  IgExecute(k, h, g) \in Outcomes /\ Sendable(IgExecute(k, h, g))
<1>1. CASE IgHead(k, h) # None
  <2>1. IgHead(k, h) \in Refused
    BY <1>1, HeadRefused DEF IgHead
  <2> QED
    BY <1>1, <2>1 DEF IgExecute, Sendable, Refused
<1>2. CASE IgHead(k, h) = None
  <2> DEFINE got == IgGet(k, Hint(h), g)
  <2>1. got \in Refused \/ got = Deliver(k, GetVerdict(k, g))
    BY GetType, FixedOutcomes DEF IgGet, Refused
  <2>2. IgExecute(k, h, g) = [got EXCEPT !.kind = k]
    BY <1>2 DEF IgExecute
  <2>3. CASE got \in Refused
    <3> HIDE DEF got
    <3> QED
      BY <2>2, <2>3 DEF Refused, Sendable, Outcomes
  <2>4. CASE got = Deliver(k, GetVerdict(k, g))
    <3> HIDE DEF got
    <3>1. got \in Outcomes /\ got.kind = k
      BY <2>4, DeliverType, GetType
    <3>2. IgExecute(k, h, g) = got
      BY <2>2, <3>1 DEF Outcomes
    <3>3. got.status = GetVerdict(k, g).status
      BY <2>4, GetType DEF Deliver, Outcomes
    <3> QED
      BY <2>4, <3>1, <3>2, <3>3, DeliverType, GetType DEF Sendable
  <2> QED
    BY <2>1, <2>3, <2>4
<1> QED
  BY <1>1, <1>2

LEMMA FbExecuteType ==
  ASSUME NEW k \in ResultKinds, NEW h, NEW g \in GetAnswers
  PROVE  FbExecute(k, h, g) \in Outcomes /\ Sendable(FbExecute(k, h, g))
<1>1. CASE FbHead(k, h) # None
  <2>1. FbHead(k, h) \in Refused
    BY <1>1, HeadRefused DEF FbHead
  <2> QED
    BY <1>1, <2>1 DEF FbExecute, Sendable, Refused
<1>2. CASE FbHead(k, h) = None
  <2> DEFINE got == FbGet(k, Hint(h), g)
  <2>1. got \in Refused \/ got = Deliver(k, GetVerdict(k, g))
    BY GetType, FixedOutcomes DEF FbGet, Refused
  <2>2. FbExecute(k, h, g) = got
    BY <1>2 DEF FbExecute
  <2>3. CASE got \in Refused
    BY <2>2, <2>3 DEF Refused, Sendable
  <2>4. CASE got = Deliver(k, GetVerdict(k, g))
    <3>1. got.status = GetVerdict(k, g).status
      BY <2>4, GetType DEF Deliver, Outcomes
    <3> HIDE DEF got
    <3> QED
      BY <2>2, <2>4, <3>1, DeliverType, GetType DEF Sendable
  <2> QED
    BY <2>1, <2>3, <2>4
<1> QED
  BY <1>1, <1>2

LEMMA YtProbeType ==
  ASSUME NEW path, NEW api, NEW oe
  PROVE  YtProbe(path, api, oe) \in Outcomes
<1> DEFINE b == {api, oe} \cap {"timeout", "network", "busy"} # {}
<1>1. b \in BOOLEAN
  OBVIOUS
<1>2. [Outcome("error", "unsupported") EXCEPT !.again = b] \in Outcomes
  <2> HIDE DEF b
  <2> QED
    BY <1>1, OutcomeType DEF Outcomes
<1>3. YtMetadata(api, oe) \in Outcomes
  BY <1>2, FetchRefused, FixedOutcomes, ReadyType DEF YtMetadata, Refused
<1> QED
  BY <1>3, FixedOutcomes, ReadyType DEF YtProbe, Refused

LEMMA DirectProbeType ==
  ASSUME NEW a \in DirectAnswers
  PROVE  /\ DirectProbe(a) \in Outcomes
         /\ DirectProbe(a).bytes = "none"
         /\ DirectProbe(a).status = "ready" => a.mime \in {"image", "video", "audio", "document"}
<1>1. CASE a.got \in {"thrown", "refused"}
  BY <1>1, OutcomeType DEF DirectProbe
<1>2. CASE a.got = "ok"
  <2>1. a.mime \in {"none", "image", "video", "audio", "document", "other"}
    BY <1>2 DEF DirectAnswers
  <2>2. CASE a.mime \in {"none", "other"}
    BY <1>2, <2>2, OutcomeType DEF DirectProbe, Unsupported
  <2>3. CASE a.mime = "image"
    BY <1>2, <2>3, ReadyType DEF DirectProbe
  <2>4. CASE a.mime = "video"
    BY <1>2, <2>4, ReadyType DEF DirectProbe
  <2>5. CASE a.mime \in {"audio", "document"}
    BY <1>2, <2>5, ReadyType DEF DirectProbe
  <2> QED
    BY <2>1, <2>2, <2>3, <2>4, <2>5
<1> QED
  BY <1>1, <1>2 DEF DirectAnswers

LEMMA DirectExecuteType ==
  ASSUME NEW a \in DirectAnswers
  PROVE  DirectExecute(a) \in Outcomes /\ DirectExecute(a).bytes = "none"
<1>1. CASE DirectProbe(a).status # "ready"
  BY <1>1, DirectProbeType DEF DirectExecute
<1>2. CASE DirectProbe(a).status = "ready" /\ a.size = "big"
  BY <1>2, OutcomeType DEF DirectExecute, TooLarge
<1>3. CASE DirectProbe(a).status = "ready" /\ a.size # "big"
  <2> DEFINE out == DirectProbe(a)
  <2>1. DirectExecute(a) = [out EXCEPT !.media = a.mime]
    BY <1>3 DEF DirectExecute
  <2>2. out \in Outcomes /\ out.bytes = "none"
        /\ a.mime \in {"image", "video", "audio", "document"}
    BY <1>3, DirectProbeType
  <2> HIDE DEF out
  <2> QED
    BY <2>1, <2>2 DEF Outcomes
<1> QED
  BY <1>1, <1>2, <1>3

LEMMA BridgeProbeType ==
  ASSUME NEW path, NEW p \in Payloads
  PROVE  BridgeProbe(path, p) \in Outcomes
<1>1. BridgeStatus(p) \in Statuses
  BY DEF BridgeStatus, Payloads
<1>2. BridgeKind(p, path) \in ResultKinds
  BY DEF BridgeKind, KindOfReason, Payloads
<1> DEFINE b == BridgeStatus(p) = "error" /\ p.reason = "timeout"
<1>3. b \in BOOLEAN
  OBVIOUS
<1>4. BridgeProbe(path, p) = [Outcome(BridgeStatus(p), BridgeKind(p, path)) EXCEPT !.again = b]
  BY DEF BridgeProbe
<1> HIDE DEF b
<1> QED
  BY <1>1, <1>2, <1>3, <1>4, OutcomeType DEF Outcomes

\* An external service's ready answer is within the limit, too: both the size
\* it claims and the bytes it has are looked at.
LEMMA BridgeExecuteType ==
  ASSUME NEW path, NEW p \in Payloads
  PROVE  /\ BridgeExecute(path, p) \in Outcomes
         /\ BridgeExecute(path, p).status = "ready" => BridgeExecute(path, p).bytes # "big"
<1> DEFINE out == BridgeProbe(path, p)
           media == BridgeMedia(p, out.kind)
           kind == IF out.kind # "unsupported" THEN out.kind
                   ELSE IF KindOfReason(p.reason) # None THEN KindOfReason(p.reason)
                   ELSE IF media = "image" THEN "image_post" ELSE "video_post"
<1>1. out \in Outcomes
  BY BridgeProbeType
<1>2. media \in {"image", "video"}
  BY DEF BridgeMedia, Payloads
<1>3. kind \in ResultKinds
  <2>1. out.kind \in ResultKinds
    BY <1>1 DEF Outcomes
  <2>2. KindOfReason(p.reason) # None => KindOfReason(p.reason) \in ResultKinds
    BY DEF KindOfReason
  <2> QED
    BY <2>1, <2>2
<1>4. p.bytes \in Sizes
  BY DEF Payloads
<1>5. BridgeExecute(path, p) =
        IF out.status # "ready" THEN out
        ELSE IF "big" \in {p.claimed, p.bytes} THEN TooLarge
        ELSE IF ~p.url /\ p.bytes = "none" THEN PreviewOnly
        ELSE [Ready(kind) EXCEPT !.media = media, !.bytes = p.bytes]
  BY DEF BridgeExecute
<1> HIDE DEF out, media, kind
<1>6. [Ready(kind) EXCEPT !.media = media, !.bytes = p.bytes] \in Outcomes
  BY <1>2, <1>3, <1>4, ReadyType DEF Outcomes
<1>7. [Ready(kind) EXCEPT !.media = media, !.bytes = p.bytes].bytes = p.bytes
  BY <1>3, ReadyType DEF Outcomes
<1> QED
  BY <1>1, <1>5, <1>6, <1>7, FixedOutcomes DEF Refused

-----------------------------------------------------------------------------
(***************************************************************************)
(* The phases over all answers.                                            *)
(***************************************************************************)

\* What may be said of an outcome that a link's provider has executed.
Good(p, out) ==
  out.status = "ready" =>
    /\ out.bytes # "big"
    /\ p \in {"ig", "fb"} \ Bridged =>
         /\ out.bytes \in {"small", "empty"}
         /\ Reply(out) = IF out.kind = "image_post" THEN "image" ELSE "video"

LEMMA ProbesType ==
  ASSUME NEW p \in Providers, NEW path \in Paths, NEW out \in ProbeOutcomes[p][path]
  PROVE  /\ out \in Outcomes
         /\ p = "ig" /\ out.status = "ready" => out.kind \in MediaKinds
<1>1. CASE p \in Bridged
  <2>1. out \in {BridgeProbe(path, a) : a \in Payloads}
                \cup {BridgeFailed(f) : f \in CallFailures}
    BY <1>1 DEF ProbeOutcomes
  <2>2. p # "ig"
    BY <1>1, ProvidersAssumption
  <2> QED
    BY <2>1, <2>2, BridgeProbeType, FailureRefused DEF BridgeFailed, Refused
<1>2. CASE p \notin Bridged /\ p = "ig"
  <2>1. out \in {IgProbe(path, a) : a \in PageAnswers}
    BY <1>2 DEF ProbeOutcomes
  <2> QED
    BY <2>1, IgProbeType
<1>3. CASE p \notin Bridged /\ p = "fb"
  <2>1. out \in {FbProbe(path, gr, a) : gr \in GraphAnswers, a \in PageAnswers}
    BY <1>3 DEF ProbeOutcomes
  <2> QED
    BY <1>3, <2>1, FbProbeType
<1>4. CASE p \notin Bridged /\ p = "yt"
  <2>1. out \in {YtProbe(path, api, oe) : api \in DataApiAnswers, oe \in OEmbedAnswers}
    BY <1>4 DEF ProbeOutcomes
  <2> QED
    BY <1>4, <2>1, YtProbeType
<1>5. CASE p \notin Bridged /\ p = "direct"
  <2>1. out \in {DirectProbe(a) : a \in DirectAnswers}
    BY <1>5 DEF ProbeOutcomes
  <2> QED
    BY <1>5, <2>1, DirectProbeType
<1> QED
  BY <1>1, <1>2, <1>3, <1>4, <1>5 DEF Providers

LEMMA IgExecutionsGood ==
  ASSUME NEW k \in MediaKinds, NEW out \in IgExecutions[k]
  PROVE  out \in Outcomes /\ Good("ig", out)
<1>1. PICK h \in HeadAnswers, g \in GetAnswers : out = IgExecute(k, h, g)
  BY DEF IgExecutions
<1>2. out \in Outcomes /\ Sendable(out)
  BY <1>1, IgExecuteType
<1> QED
  BY <1>2 DEF Good, Sendable

LEMMA FbRefreshedGood ==
  ASSUME NEW path \in Paths, NEW out \in FbRefreshed(path)
  PROVE  out \in Outcomes /\ Good("fb", out)
<1>1. PICK probe \in ProbeOutcomes["fb"][path] :
        out \in IF probe.status # "ready" THEN {probe}
                ELSE {FbExecute(probe.kind, h, g) : h \in HeadAnswers, g \in GetAnswers}
  BY DEF FbRefreshed
<1>2. probe \in Outcomes /\ probe.kind \in ResultKinds
  BY ProbesType DEF Providers, Outcomes
<1>3. CASE probe.status # "ready"
  BY <1>1, <1>2, <1>3 DEF Good
<1>4. CASE probe.status = "ready"
  <2>1. PICK h \in HeadAnswers, g \in GetAnswers : out = FbExecute(probe.kind, h, g)
    BY <1>1, <1>4
  <2>2. out \in Outcomes /\ Sendable(out)
    BY <1>2, <2>1, FbExecuteType
  <2> QED
    BY <2>2 DEF Good, Sendable
<1> QED
  BY <1>3, <1>4

LEMMA ExecutionsGood ==
  ASSUME NEW p \in Providers \ {"ig"}, NEW path \in Paths,
         NEW out \in ExecuteOutcomes[p][path]
  PROVE  out \in Outcomes /\ Good(p, out)
<1>1. CASE p \in Bridged
  <2>1. out \in {BridgeExecute(path, a) : a \in Payloads}
                \cup {BridgeFailed(f) : f \in CallFailures}
    BY <1>1 DEF ExecuteOutcomes
  <2> QED
    BY <1>1, <2>1, BridgeExecuteType, FailureRefused DEF BridgeFailed, Refused, Good
<1>2. CASE p \notin Bridged /\ p = "fb"
  <2>1. out \in FbRefreshed(path)
    BY <1>2 DEF ExecuteOutcomes
  <2> QED
    BY <1>2, <2>1, FbRefreshedGood
<1>3. CASE p \notin Bridged /\ p = "yt"
  <2>1. PICK probe \in ProbeOutcomes["yt"][path] : out = YtExecute(probe)
    BY <1>3 DEF ExecuteOutcomes
  <2>2. probe \in Outcomes
    BY <2>1, ProbesType DEF Providers
  <2> QED
    BY <2>1, <2>2, FixedOutcomes DEF YtExecute, Good, Refused
<1>4. CASE p \notin Bridged /\ p = "direct"
  <2>1. PICK a \in DirectAnswers : out = DirectExecute(a)
    BY <1>4 DEF ExecuteOutcomes
  <2> QED
    BY <1>4, <2>1, DirectExecuteType DEF Good
<1> QED
  BY <1>1, <1>2, <1>3, <1>4 DEF Providers

-----------------------------------------------------------------------------
(***************************************************************************)
(* Types and answers.  What a request carries, and what is remembered, is  *)
(* an outcome its link's provider has executed; the link never changes.    *)
(***************************************************************************)

\* Only a link that has a provider is executed; from the end of that on a
\* handler has an outcome.
Ended == {"write", "register", "remember"}
Fit(p, d) ==
  /\ d.stage \in Ended => Good(p, d.out)
  /\ d.stage = "execute" => p \in Providers

Answers ==
  /\ \A r \in Requests : Fit(Provider(link), req[r])
  /\ remembered = None \/ Good(Provider(link), remembered)

Sane == TypeOK /\ Answers

RequestStates == [stage: Stages, attempts: 0..MaxAttempts, out: Outcomes \cup {None}]

LEMMA ProviderType ==
  ASSUME NEW l \in Links
  PROVE  Provider(l) = None \/ Provider(l) \in Providers
<1> DEFINE found == IF l.explicit # None THEN {l.explicit} \cap Enabled
                    ELSE IF l.site \in Enabled THEN {l.site} ELSE {"direct"} \cap Enabled
<1>1. found \subseteq Providers
  BY ProvidersAssumption
<1>2. Provider(l) = IF found = {} THEN None ELSE CHOOSE p \in found : TRUE
  BY DEF Provider
<1> HIDE DEF found
<1> QED
  BY <1>1, <1>2

\* One request's new state in the whole, however it came about.
LEMMA OneRequest ==
  ASSUME Sane, NEW r \in Requests, NEW d \in RequestStates,
         req' = [req EXCEPT ![r] = d],
         Fit(Provider(link), d),
         UNCHANGED <<link, remembered>>
  PROVE  /\ req' \in [Requests -> RequestStates]
         /\ Answers'
<1>1. req \in [Requests -> RequestStates]
  BY DEF Sane, TypeOK, RequestStates
<1>2. req' \in [Requests -> RequestStates]
  BY <1>1
<1>3. \A x \in Requests : req'[x] = IF x = r THEN d ELSE req[x]
  BY <1>1
<1> QED
  BY <1>2, <1>3 DEF Sane, Answers

\* Moving on from one stage to another leaves the outcome as it is.
LEMMA GotoType ==
  ASSUME Sane, NEW r \in Requests, NEW s \in Stages, Goto(r, s),
         s = "execute" => Provider(link) \in Providers,
         s \in Ended => req[r].stage \in Ended,
         UNCHANGED <<link, remembered>>
  PROVE  req' \in [Requests -> RequestStates] /\ Answers'
<1> DEFINE d == [req[r] EXCEPT !.stage = s]
<1>1. req[r] \in RequestStates
  BY DEF Sane, TypeOK, RequestStates
<1>2. d \in RequestStates /\ d.out = req[r].out /\ d.stage = s
  BY <1>1 DEF RequestStates
<1>3. req' = [req EXCEPT ![r] = d]
  BY DEF Goto
<1>4. req[r].stage \in Ended => Good(Provider(link), req[r].out)
  BY DEF Sane, Answers, Fit
<1> HIDE DEF d
<1>5. Fit(Provider(link), d)
  BY <1>2, <1>4 DEF Fit
<1> QED
  BY <1>2, <1>3, <1>5, OneRequest

LEMMA DoneType ==
  /\ Idle \in RequestStates /\ Done \in RequestStates
  /\ \A p : Fit(p, Idle) /\ Fit(p, Done)
  BY ResolverAssumption DEF Idle, Done, RequestStates, Stages, Fit, Ended

LEMMA SettleType ==
  ASSUME Sane, NEW r \in Requests, NEW out \in Outcomes, Settle(r, out),
         Good(Provider(link), out),
         UNCHANGED <<link, remembered>>
  PROVE  req' \in [Requests -> RequestStates] /\ Answers'
<1> DEFINE again == /\ out.status = "error" /\ out.again
                    /\ req[r].attempts < MaxAttempts
           more == [stage |-> "probe", attempts |-> req[r].attempts + 1, out |-> None]
           end == [stage |-> "write", attempts |-> 0, out |-> out]
<1>1. req[r].attempts \in 0..MaxAttempts
  BY DEF Sane, TypeOK
<1>2. end \in RequestStates /\ Fit(Provider(link), end)
  BY ResolverAssumption DEF RequestStates, Stages, Fit
<1>3. again => more \in RequestStates /\ Fit(Provider(link), more)
  <2>1. again => req[r].attempts + 1 \in 0..MaxAttempts
    BY <1>1, ResolverAssumption
  <2> QED
    BY <2>1 DEF RequestStates, Stages, Fit, Ended
<1>4. req' = [req EXCEPT ![r] = IF again THEN more ELSE end]
  BY DEF Settle
<1> HIDE DEF again, more, end
<1>5. CASE again
  BY <1>3, <1>4, <1>5, OneRequest
<1>6. CASE ~again
  BY <1>2, <1>4, <1>6, OneRequest
<1> QED
  BY <1>5, <1>6

LEMMA SaneInit == Init => Sane
<1>1. ASSUME Init PROVE req \in [Requests -> RequestStates] /\ Answers
  BY <1>1, DoneType DEF Init, Answers
<1> QED
  BY <1>1, ResolverAssumption DEF Init, Sane, TypeOK, RequestStates, NoSweep

\* The types that have nothing to do with the request handlers.
Others ==
  /\ link \in Links
  /\ client \in [Requests -> {"idle", "waiting", "answered", "failed"}]
  /\ remembered \in Outcomes \cup {None} /\ page \in MediaKinds \cup {None}
  /\ files \subseteq Requests
  /\ expiry \in [Requests -> {"none", "later", "due"}]
  /\ sweep \in [Sweeps -> [left: SUBSET Requests, doing: Requests \cup {None}]]
  /\ kept \subseteq Requests
  /\ up \in BOOLEAN /\ faults \in 0..MaxFaults /\ crashes \in 0..MaxFaults

LEMMA SaneParts == Sane <=> req \in [Requests -> RequestStates] /\ Others /\ Answers
  BY DEF Sane, TypeOK, Others, RequestStates

LEMMA SaneFrom ==
  ASSUME req' \in [Requests -> RequestStates], Others', Answers'
  PROVE  Sane'
  BY DEF Sane, TypeOK, Others, RequestStates

LEMMA CountFault ==
  ASSUME Sane, faults + crashes < MaxFaults
  PROVE  faults + 1 \in 0..MaxFaults /\ crashes + 1 \in 0..MaxFaults
  BY ResolverAssumption DEF Sane, TypeOK

LEMMA LinkType ==
  ASSUME Sane
  PROVE  /\ link \in Links /\ link.path \in Paths
         /\ Provider(link) = None \/ Provider(link) \in Providers
  BY ProviderType DEF Sane, TypeOK, Links, Paths

LEMMA SaneProbe ==
  ASSUME Sane, NEW r \in Requests, Probe(r)
  PROVE  Sane'
<1> DEFINE p == Provider(link)
<1>1. Others
  BY SaneParts
<1>2. PICK out \in IF p = None THEN {NotConfigured}
                   ELSE IF Foreign(p, link) THEN {InvalidLink} ELSE ProbeOutcomes[p][link.path] :
        /\ IF out.status = "ready" THEN Goto(r, "execute") ELSE Settle(r, out)
        /\ Cache(p, out)
  BY DEF Probe
<1>3. /\ out \in Outcomes
      /\ out.status = "ready" => p \in Providers
      /\ p = "ig" /\ out.status = "ready" => out.kind \in MediaKinds
  BY <1>2, LinkType, ProbesType, FixedOutcomes DEF Refused
<1>4. req' \in [Requests -> RequestStates] /\ Answers'
  <2>1. CASE out.status = "ready"
    BY <1>2, <1>3, <2>1, GotoType DEF Probe, Stages, Ended
  <2>2. CASE out.status # "ready"
    BY <1>2, <1>3, <2>2, SettleType DEF Probe, Good
  <2> QED
    BY <2>1, <2>2
<1>5. page' \in MediaKinds \cup {None}
  BY <1>1, <1>2, <1>3 DEF Cache, Others
<1>6. Others'
  BY <1>1, <1>5 DEF Probe, Others
<1> QED
  BY <1>4, <1>6, SaneFrom

LEMMA SaneExecute ==
  ASSUME Sane, NEW r \in Requests, Execute(r)
  PROVE  Sane'
<1> DEFINE p == Provider(link)
<1>1. PICK out \in ExecuteOutcomes[p][link.path] : Settle(r, out)
  BY DEF Execute
<1>2. p \in Providers \ {"ig"}
  BY DEF Execute, At, Sane, Answers, Fit
<1>3. out \in Outcomes /\ Good(p, out)
  BY <1>1, <1>2, LinkType, ExecutionsGood
<1>4. req' \in [Requests -> RequestStates] /\ Answers'
  BY <1>1, <1>3, SettleType DEF Execute
<1>5. Others'
  BY SaneParts DEF Execute, Others
<1> QED
  BY <1>4, <1>5, SaneFrom

LEMMA SaneExecuteInstagram ==
  ASSUME Sane, NEW r \in Requests, ExecuteInstagram(r)
  PROVE  Sane'
<1>1. Others /\ Provider(link) = "ig"
  BY SaneParts DEF ExecuteInstagram
<1>2. PICK out \in Outcomes :
        /\ Settle(r, out) /\ Good("ig", out)
        /\ page' \in MediaKinds \cup {None}
  <2>1. CASE page # None
    <3>1. PICK out \in IgExecutions[page] : Settle(r, out)
      BY <2>1 DEF ExecuteInstagram
    <3>2. page \in MediaKinds /\ page' = page
      BY <1>1, <2>1 DEF ExecuteInstagram, Others
    <3> QED
      BY <3>1, <3>2, IgExecutionsGood
  <2>2. CASE page = None
    <3>1. PICK probe \in ProbeOutcomes["ig"][link.path] :
            /\ Cache("ig", probe)
            /\ \E out \in IF probe.status = "ready" THEN IgExecutions[probe.kind] ELSE {probe} :
                 Settle(r, out)
      BY <2>2 DEF ExecuteInstagram
    <3>2. /\ probe \in Outcomes
          /\ probe.status = "ready" => probe.kind \in MediaKinds
      BY <3>1, LinkType, ProbesType DEF Providers
    <3>3. page' \in MediaKinds \cup {None}
      BY <2>2, <3>1, <3>2 DEF Cache
    <3>4. PICK out \in IF probe.status = "ready" THEN IgExecutions[probe.kind] ELSE {probe} :
            Settle(r, out)
      BY <3>1
    <3>5. out \in Outcomes /\ Good("ig", out)
      <4>1. CASE probe.status = "ready"
        BY <3>2, <3>4, <4>1, IgExecutionsGood
      <4>2. CASE probe.status # "ready"
        BY <3>2, <3>4, <4>2 DEF Good
      <4> QED
        BY <4>1, <4>2
    <3> QED
      BY <3>3, <3>4, <3>5
  <2> QED
    BY <2>1, <2>2
<1>3. req' \in [Requests -> RequestStates] /\ Answers'
  BY <1>1, <1>2, SettleType DEF ExecuteInstagram
<1>4. Others'
  BY <1>1, <1>2 DEF ExecuteInstagram, Others
<1> QED
  BY <1>3, <1>4, SaneFrom

LEMMA SaneHandle ==
  ASSUME Sane, NEW r \in Requests, Handle(r)
  PROVE  Sane'
<1>1. Others /\ Answers
  BY SaneParts
<1>2. CASE ReadKey(r)
  <2> DEFINE first == [stage |-> "probe", attempts |-> 1, out |-> None]
  <2>1. first \in RequestStates /\ Fit(Provider(link), first)
    BY ResolverAssumption DEF RequestStates, Stages, Fit, Ended
  <2>2. PICK d \in {first, Done} : req' = [req EXCEPT ![r] = d]
    BY <1>2 DEF ReadKey
  <2>3. req' \in [Requests -> RequestStates] /\ Answers'
    <3> HIDE DEF first
    <3> QED
      BY <1>2, <2>1, <2>2, DoneType, OneRequest DEF ReadKey
  <2>4. Others'
    BY <1>1, <1>2 DEF ReadKey, Others, Send, Answer
  <2> QED
    BY <2>3, <2>4, SaneFrom
<1>3. CASE WriteFile(r)
  <2>1. req' \in [Requests -> RequestStates] /\ Answers'
    BY <1>3, GotoType DEF WriteFile, At, Stages, Ended
  <2>2. Others'
    BY <1>1, <1>3 DEF WriteFile, Others
  <2> QED
    BY <2>1, <2>2, SaneFrom
<1>4. CASE RegisterFile(r)
  <2>1. req' \in [Requests -> RequestStates] /\ Answers'
    BY <1>4, GotoType DEF RegisterFile, At, Stages, Ended
  <2>2. Others'
    BY <1>1, <1>4 DEF RegisterFile, Others
  <2> QED
    BY <2>1, <2>2, SaneFrom
\* What is remembered is the outcome the request carries.
<1>5. CASE Remember(r)
  <2>1. req \in [Requests -> RequestStates] /\ req' = [req EXCEPT ![r] = Done]
    BY <1>5, SaneParts DEF Remember
  <2>2. req' \in [Requests -> RequestStates]
    BY <2>1, DoneType
  <2>3. /\ remembered' = req[r].out /\ req[r].out \in Outcomes \cup {None}
        /\ Good(Provider(link), req[r].out) /\ link' = link
    BY <1>1, <1>5, <2>1 DEF Remember, At, Answers, RequestStates, Fit, Ended
  <2>4. Answers'
    <3>1. \A x \in Requests : Fit(Provider(link), req'[x])
      BY <1>1, <2>1, DoneType DEF Answers
    <3>2. remembered' = None \/ Good(Provider(link), remembered')
      BY <2>3
    <3> QED
      BY <2>3, <3>1, <3>2 DEF Answers
  <2>5. Others'
    BY <1>1, <1>5, <2>3 DEF Remember, Others, Send, Answer
  <2> QED
    BY <2>2, <2>4, <2>5, SaneFrom
<1> QED
  BY <1>2, <1>3, <1>4, <1>5, SaneProbe, SaneExecute, SaneExecuteInstagram DEF Handle

LEMMA SaneFail ==
  ASSUME Sane, NEW r \in Requests, Fail(r)
  PROVE  Sane'
<1>1. Others /\ Answers /\ req \in [Requests -> RequestStates]
  BY SaneParts
<1>2. ASSUME NEW s, Fault(r, s) PROVE Sane'
  <2>1. req' \in [Requests -> RequestStates] /\ Answers'
    BY <1>2, DoneType, OneRequest DEF Fault
  <2>2. Others'
    BY <1>1, <1>2, CountFault DEF Fault, Others, Answer
  <2> QED
    BY <2>1, <2>2, SaneFrom
<1>3. CASE Hang(r)
  <2> DEFINE stuck == [Idle EXCEPT !.stage = "stuck"]
  <2>1. stuck \in RequestStates /\ Fit(Provider(link), stuck)
    BY ResolverAssumption DEF Idle, RequestStates, Stages, Fit, Ended
  <2>2. req' \in [Requests -> RequestStates] /\ Answers'
    <3>1. req' = [req EXCEPT ![r] = stuck]
      BY <1>3 DEF Hang
    <3> HIDE DEF stuck
    <3> QED
      BY <1>3, <2>1, <3>1, OneRequest DEF Hang
  <2>3. Others'
    BY <1>1, <1>3, CountFault DEF Hang, Others
  <2> QED
    BY <2>2, <2>3, SaneFrom
<1> QED
  BY <1>2, <1>3 DEF Fail, ReadKeyFails, WriteFails, RegisterFails, RememberFails

\* The clean-ups touch neither the answers nor what the requests carry.
LEMMA SaneCleanup ==
  ASSUME Sane, NEW s \in Sweeps, Cleanup(s)
  PROVE  Sane'
<1>1. Others /\ Answers /\ req \in [Requests -> RequestStates]
  BY SaneParts
<1>2. UNCHANGED <<link, req, remembered>>
  BY DEF Cleanup, GoOn, StartSweep, RemoveMember, RemoveMemberFails, Unlink, UnlinkFails
<1>3. Answers'
  BY <1>1, <1>2 DEF Answers
<1>4. sweep[s] \in [left: SUBSET Requests, doing: Requests \cup {None}]
  BY <1>1 DEF Others
<1>5. Others'
  <2>1. CASE StartSweep(s)
    BY <1>1, <1>4, <2>1 DEF StartSweep, Others, Due
  <2>2. CASE RemoveMember(s)
    BY <1>1, <1>4, <2>2 DEF RemoveMember, Others
  <2>3. CASE RemoveMemberFails(s)
    BY <1>1, <2>3, CountFault DEF RemoveMemberFails, Others, NoSweep
  <2>4. ASSUME NEW r \in Requests, Unlink(s, r) PROVE Others'
    BY <1>1, <1>4, <2>4 DEF Unlink, Turn, Others
  <2>5. ASSUME NEW r \in Requests, UnlinkFails(s, r) PROVE Others'
    BY <1>1, <1>4, <2>5, CountFault DEF UnlinkFails, Turn, Others
  <2> QED
    BY <2>1, <2>2, <2>3, <2>4, <2>5 DEF Cleanup, GoOn
<1> QED
  BY <1>1, <1>2, <1>3, <1>5, SaneFrom

LEMMA SaneCrash ==
  ASSUME Sane, Crash
  PROVE  Sane'
<1>1. Others /\ Answers /\ req \in [Requests -> RequestStates]
  BY SaneParts
<1>2. req' \in [Requests -> RequestStates]
  BY <1>1, DoneType DEF Crash
<1>3. Answers'
  BY <1>1, DoneType DEF Crash, Answers
<1>4. Others'
  BY <1>1, CountFault DEF Crash, Others, NoSweep
<1> QED
  BY <1>2, <1>3, <1>4, SaneFrom

LEMMA SaneStep == Sane /\ [Next]_vars => Sane'
<1> SUFFICES ASSUME Sane, [Next]_vars PROVE Sane'
  OBVIOUS
<1>1. Others /\ Answers /\ req \in [Requests -> RequestStates]
  BY SaneParts
<1>2. ASSUME NEW r \in Requests, Ask(r) PROVE Sane'
  <2>1. req' \in [Requests -> RequestStates] /\ Answers'
    <3>1. CASE up
      <4>1. Goto(r, "accepted")
        BY <1>2, <3>1 DEF Ask, Goto
      <4> QED
        BY <1>2, <4>1, GotoType DEF Ask, Stages, Ended
    <3>2. CASE ~up
      BY <1>1, <1>2, <3>2 DEF Ask, Answers
    <3> QED
      BY <3>1, <3>2
  <2>2. Others'
    BY <1>1, <1>2 DEF Ask, Others
  <2> QED
    BY <2>1, <2>2, SaneFrom
<1>3. ASSUME \/ \E r \in Requests : GiveUp(r) \/ FileIsDue(r)
             \/ ForgetAnswer \/ ForgetPage \/ Restart \/ UNCHANGED vars
      PROVE  Sane'
  <2>1. UNCHANGED <<link, req>> /\ remembered' \in {remembered, None}
    BY <1>3 DEF GiveUp, FileIsDue, ForgetAnswer, ForgetPage, Restart, vars
  <2>2. Answers'
    BY <1>1, <2>1 DEF Answers
  <2>3. Others'
    <3>1. ASSUME NEW r \in Requests, GiveUp(r) \/ FileIsDue(r) PROVE Others'
      BY <1>1, <3>1 DEF GiveUp, FileIsDue, Others
    <3>2. CASE ForgetAnswer \/ ForgetPage \/ Restart \/ UNCHANGED vars
      BY <1>1, <3>2 DEF ForgetAnswer, ForgetPage, Restart, vars, Others
    <3> QED
      BY <1>3, <3>1, <3>2
  <2> QED
    BY <1>1, <2>1, <2>2, <2>3, SaneFrom
<1> QED
  BY <1>2, <1>3, SaneHandle, SaneFail, SaneCleanup, SaneCrash DEF Next

LEMMA SaneAlways == Spec => []Sane
  BY SaneInit, SaneStep, PTL DEF Spec

\* The variables keep their types: in particular no phase of a provider
\* returns anything but an outcome.
THEOREM TypeCorrect == Spec => []TypeOK
  BY SaneAlways, PTL DEF Sane

\* Only the two steps that send an answer give one to a caller, and both send
\* what is then stored under the key, which is not empty.
LEMMA AnswerIsStored ==
  ASSUME Sane, [Next]_vars, NEW r \in Requests, Answered(r)
  PROVE  /\ Good(Provider(link), remembered') /\ link' = link
         /\ remembered'.bytes # "empty"
<1>1. /\ client \in [Requests -> {"idle", "waiting", "answered", "failed"}]
      /\ client'[r] = "answered" /\ client[r] = "waiting"
  BY DEF Sane, TypeOK, Answered
<1>2. ASSUME NEW x \in Requests, NEW how \in {"answered", "failed"}, Answer(x, how)
      PROVE  x = r /\ how = "answered"
  BY <1>1, <1>2 DEF Answer
<1>3. ASSUME NEW x \in Requests, NEW out, Send(x, out)
      PROVE  x = r /\ out.bytes # "empty"
  BY <1>2, <1>3 DEF Send
<1>4. \E x \in Requests : ReadKey(x) \/ Remember(x)
  <2>1. client' # client
    BY <1>1
  <2>2. ASSUME NEW x \in Requests, Ask(x) \/ GiveUp(x) PROVE FALSE
    BY <1>1, <2>2 DEF Ask, GiveUp
  <2>3. ASSUME NEW x \in Requests, NEW s, Fault(x, s) PROVE FALSE
    BY <1>2, <2>3 DEF Fault
  <2>4. ASSUME NEW x \in Requests, Fail(x) PROVE FALSE
    BY <2>1, <2>3, <2>4
    DEF Fail, ReadKeyFails, WriteFails, RegisterFails, RememberFails, Hang
  <2>5. ~Crash
    BY <1>1 DEF Crash
  <2>6. ASSUME NEW s \in Sweeps, Cleanup(s) PROVE FALSE
    BY <2>1, <2>6
    DEF Cleanup, GoOn, StartSweep, RemoveMember, RemoveMemberFails, Unlink, UnlinkFails
  <2>7. ~(ForgetAnswer \/ ForgetPage \/ Restart \/ UNCHANGED vars)
    BY <2>1 DEF ForgetAnswer, ForgetPage, Restart, vars
  <2>8. ASSUME NEW x \in Requests, FileIsDue(x) PROVE FALSE
    BY <2>1, <2>8 DEF FileIsDue
  <2>9. PICK x \in Requests : Handle(x)
    BY <2>2, <2>4, <2>5, <2>6, <2>7, <2>8 DEF Next
  <2> QED
    BY <2>1, <2>9
    DEF Handle, Probe, Execute, ExecuteInstagram, WriteFile, RegisterFile
<1>5. PICK x \in Requests : ReadKey(x) \/ Remember(x)
  BY <1>4
<1>6. CASE ReadKey(x)
  <2>1. remembered # None /\ Send(x, remembered) /\ UNCHANGED <<link, remembered>>
    BY <1>1, <1>6 DEF ReadKey
  <2> QED
    BY <1>3, <2>1 DEF Sane, Answers
<1>7. CASE Remember(x)
  <2>1. /\ req[x].stage = "remember" /\ remembered' = req[x].out
        /\ Send(x, req[x].out) /\ link' = link
    BY <1>7 DEF Remember, At
  <2>2. Good(Provider(link), req[x].out)
    BY <2>1 DEF Sane, Answers, Fit, Ended
  <2> QED
    BY <1>3, <2>1, <2>2
<1> QED
  BY <1>5, <1>6, <1>7

\* A ready answer that a caller gets is within the limit and has bytes, and
\* what was downloaded from Instagram or Facebook directly is sent as what it
\* is.
THEOREM ReadyCanBeSent == Spec => ReadyIsDeliverable
<1>1. Sane /\ [Next]_vars => [\A r \in Requests : Answered(r) => Deliverable(remembered')]_vars
  <2> SUFFICES ASSUME Sane, [Next]_vars, NEW r \in Requests, Answered(r)
               PROVE  Deliverable(remembered')
    OBVIOUS
  <2>1. /\ Good(Provider(link), remembered') /\ remembered'.bytes # "empty"
    BY AnswerIsStored
  <2> QED
    BY <2>1 DEF Good, Deliverable
<1> QED
  BY <1>1, SaneAlways, PTL DEF Spec, ReadyIsDeliverable

-----------------------------------------------------------------------------
(***************************************************************************)
(* The temporary files.  FilesAreScheduled is not inductive: the clean-up  *)
(* takes a member away, and it has to be known that the file it belongs to *)
(* is gone and that its request will not write it again.                   *)
(***************************************************************************)

Tidy == RegisteredIsPast /\ SweepTakesDue /\ FilesAreScheduled

\* A handler leaves "idle" only by the client's request.
LEMMA UnaskedStep == Sane /\ UnaskedIsIdle /\ [Next]_vars => UnaskedIsIdle'
<1> SUFFICES ASSUME Sane, UnaskedIsIdle, [Next]_vars PROVE UnaskedIsIdle'
  OBVIOUS
<1>1. /\ req \in [Requests -> RequestStates]
      /\ client \in [Requests -> {"idle", "waiting", "answered", "failed"}]
  BY SaneParts DEF Sane, TypeOK
<1>2. ASSUME NEW r \in Requests, Ask(r) \/ GiveUp(r) PROVE UnaskedIsIdle'
  <2>1. client'[r] # "idle"
    BY <1>1, <1>2 DEF Ask, GiveUp
  <2>2. \A x \in Requests : x # r => client'[x] = client[x] /\ req'[x] = req[x]
    BY <1>1, <1>2 DEF Ask, GiveUp
  <2> QED
    BY <2>1, <2>2 DEF UnaskedIsIdle
<1>3. ASSUME NEW r \in Requests, Handle(r) PROVE UnaskedIsIdle'
  <2>1. /\ req[r].stage # "idle"
        /\ \A x \in Requests : x # r => req'[x] = req[x]
    BY <1>1, <1>3
    DEF Handle, ReadKey, Probe, Execute, ExecuteInstagram, WriteFile, RegisterFile,
        Remember, At, Goto, Settle
  <2>2. UNCHANGED client \/ \E how \in {"answered", "failed"} : Answer(r, how)
    BY <1>3
    DEF Handle, ReadKey, Probe, Execute, ExecuteInstagram, WriteFile, RegisterFile, Remember, Send
  <2>3. \A x \in Requests : client'[x] = "idle" => client[x] = "idle"
    BY <1>1, <2>2 DEF Answer
  <2> QED
    BY <2>1, <2>3 DEF UnaskedIsIdle
<1>4. ASSUME NEW r \in Requests, Fail(r) PROVE UnaskedIsIdle'
  <2>1. ASSUME NEW s \in {"accepted", "write", "register", "remember"}, Fault(r, s)
        PROVE  UnaskedIsIdle'
    <3>1. req[r].stage # "idle" /\ \A x \in Requests : x # r => req'[x] = req[x]
      BY <1>1, <2>1 DEF Fault, At
    <3>2. \A x \in Requests : client'[x] = "idle" => client[x] = "idle"
      BY <1>1, <2>1 DEF Fault, Answer
    <3> QED
      BY <3>1, <3>2 DEF UnaskedIsIdle
  <2>2. CASE Hang(r)
    <3>1. req[r].stage # "idle" /\ \A x \in Requests : x # r => req'[x] = req[x]
      BY <1>1, <2>2 DEF Hang, At
    <3> QED
      BY <2>2, <3>1 DEF UnaskedIsIdle, Hang
  <2> QED
    BY <1>4, <2>1, <2>2
    DEF Fail, ReadKeyFails, WriteFails, RegisterFails, RememberFails
<1>5. CASE Crash
  BY <1>1, <1>5 DEF Crash, UnaskedIsIdle
<1>6. CASE \/ \E r \in Requests : FileIsDue(r)
           \/ ForgetAnswer \/ ForgetPage \/ Restart \/ UNCHANGED vars
  BY <1>6 DEF FileIsDue, ForgetAnswer, ForgetPage, Restart, vars, UnaskedIsIdle
<1>7. ASSUME NEW s \in Sweeps, Cleanup(s) PROVE UnaskedIsIdle'
  BY <1>7
  DEF Cleanup, GoOn, StartSweep, RemoveMember, RemoveMemberFails, Unlink, UnlinkFails,
      UnaskedIsIdle
<1> QED
  BY <1>2, <1>3, <1>4, <1>5, <1>6, <1>7 DEF Next

LEMMA TidyInit == Init => Tidy
  BY NoneAssumption
  DEF Init, Tidy, RegisteredIsPast, SweepTakesDue, FilesAreScheduled, NoSweep

\* A step by which one handler moves on, with the files and their members
\* untouched.
LEMMA TidyMove ==
  ASSUME Sane, Tidy, NEW r \in Requests, NEW d \in RequestStates,
         req' = [req EXCEPT ![r] = d],
         req[r].stage \in {"remember", "done"} => d.stage = "done",
         req[r].stage # "register" \/ faults' # 0,
         faults' = faults \/ faults' # 0,
         UNCHANGED <<files, expiry, sweep, crashes>>
  PROVE  Tidy'
<1>1. req \in [Requests -> RequestStates]
  BY SaneParts
<1>2. \A x \in Requests : req'[x] = IF x = r THEN d ELSE req[x]
  BY <1>1
<1>3. RegisteredIsPast'
  BY <1>2 DEF Tidy, RegisteredIsPast
<1>4. SweepTakesDue'
  BY DEF Tidy, SweepTakesDue
<1>5. FilesAreScheduled'
  BY <1>2 DEF Tidy, FilesAreScheduled, RegisteredIsPast, Sane, TypeOK
<1> QED
  BY <1>3, <1>4, <1>5 DEF Tidy

LEMMA TidyHandle ==
  ASSUME Sane, Sane', Tidy, NEW r \in Requests, Handle(r)
  PROVE  Tidy'
<1>1. req \in [Requests -> RequestStates] /\ req' \in [Requests -> RequestStates]
  BY SaneParts DEF Sane, TypeOK, RequestStates
<1>2. CASE \/ ReadKey(r) \/ Probe(r) \/ Execute(r) \/ ExecuteInstagram(r)
           \/ Remember(r)
  <2>1. \A x \in Requests : x # r => req'[x] = req[x]
    BY <1>1, <1>2
    DEF ReadKey, Probe, Execute, ExecuteInstagram, Remember, Goto, Settle
  <2>2. /\ req[r].stage \notin {"register", "done"}
        /\ req[r].stage = "remember" => req'[r].stage = "done"
    BY <1>1, <1>2
    DEF ReadKey, Probe, Execute, ExecuteInstagram, Remember, At, Done, Idle
  <2>3. req' = [req EXCEPT ![r] = req'[r]]
    BY <1>1, <2>1
  <2>4. UNCHANGED <<files, expiry, sweep, faults, crashes>>
    BY <1>2 DEF ReadKey, Probe, Execute, ExecuteInstagram, Remember
  <2>5. req'[r] \in RequestStates
    BY <1>1
  <2> QED
    BY <2>2, <2>3, <2>4, <2>5, TidyMove
<1>3. CASE WriteFile(r)
  <2>1. /\ req[r].stage = "write" /\ expiry[r] = "none"
        /\ \A s \in Sweeps : r \notin sweep[s].left /\ sweep[s].doing # r
    BY <1>3 DEF WriteFile, At, Tidy, RegisteredIsPast, SweepTakesDue, Sane, TypeOK
  <2>2. \A x \in Requests : x # r => req'[x] = req[x]
    BY <1>1, <1>3 DEF WriteFile, Goto
  <2>3. RegisteredIsPast'
    BY <1>3, <2>1, <2>2 DEF Tidy, RegisteredIsPast, WriteFile
  <2>4. SweepTakesDue'
    BY <1>3, <2>1, <2>2 DEF Tidy, SweepTakesDue, WriteFile
  <2>5. files' = files \/ (files' = files \cup {r} /\ req'[r].stage = "register")
    BY <1>1, <1>3 DEF WriteFile, Goto, RequestStates
  <2>6. r \in files => faults # 0 \/ crashes # 0
    BY <2>1 DEF Tidy, FilesAreScheduled
  <2>7. FilesAreScheduled'
    BY <1>3, <2>2, <2>5, <2>6 DEF Tidy, FilesAreScheduled, WriteFile, Sane, TypeOK
  <2> QED
    BY <2>3, <2>4, <2>7 DEF Tidy
<1>4. CASE RegisterFile(r)
  <2>1. /\ req[r].stage = "register" /\ req'[r].stage = "remember"
        /\ expiry'[r] = "later" /\ expiry[r] = "none"
    BY <1>1, <1>4
    DEF RegisterFile, At, Goto, RequestStates, Tidy, RegisteredIsPast, Sane, TypeOK
  <2>2. \A x \in Requests : x # r => req'[x] = req[x] /\ expiry'[x] = expiry[x]
    BY <1>1, <1>4 DEF RegisterFile, Goto, Sane, TypeOK
  <2>3. RegisteredIsPast'
    BY <2>1, <2>2 DEF Tidy, RegisteredIsPast
  <2>4. SweepTakesDue'
    BY <1>4, <2>1, <2>2, NoneAssumption
    DEF Tidy, SweepTakesDue, RegisterFile, Sane, TypeOK
  <2>5. FilesAreScheduled'
    BY <1>4, <2>1, <2>2 DEF Tidy, FilesAreScheduled, RegisterFile, Sane, TypeOK
  <2> QED
    BY <2>3, <2>4, <2>5 DEF Tidy
<1> QED
  BY <1>2, <1>3, <1>4 DEF Handle

LEMMA TidyFail ==
  ASSUME Sane, Tidy, NEW r \in Requests, Fail(r)
  PROVE  Tidy'
<1>1. faults' # 0
  BY DEF Fail, ReadKeyFails, WriteFails, RegisterFails, RememberFails, Fault, Hang,
         Sane, TypeOK
<1>2. ASSUME NEW s, Fault(r, s) PROVE Tidy'
  BY <1>1, <1>2, DoneType, TidyMove DEF Fault, Done, Idle
<1>3. CASE Hang(r)
  <2> DEFINE stuck == [Idle EXCEPT !.stage = "stuck"]
  <2>1. stuck \in RequestStates
    BY ResolverAssumption DEF Idle, RequestStates, Stages
  <2>2. req' = [req EXCEPT ![r] = stuck] /\ req[r].stage \in {"probe", "execute"}
    BY <1>3 DEF Hang, At
  <2> HIDE DEF stuck
  <2> QED
    BY <1>1, <1>3, <2>1, <2>2, TidyMove DEF Hang
<1> QED
  BY <1>2, <1>3 DEF Fail, ReadKeyFails, WriteFails, RegisterFails, RememberFails

LEMMA TidyCleanup ==
  ASSUME Sane, Tidy, NEW s \in Sweeps, Cleanup(s)
  PROVE  Tidy'
<1> USE DEF Tidy
<1>1. sweep \in [Sweeps -> [left: SUBSET Requests, doing: Requests \cup {None}]]
  BY DEF Sane, TypeOK
<1>2. CASE StartSweep(s)
  <2>1. RegisteredIsPast' /\ FilesAreScheduled'
    BY <1>2 DEF StartSweep, RegisteredIsPast, FilesAreScheduled
  <2>2. /\ sweep'[s].left = Due /\ sweep'[s].doing = None
        /\ \A t \in Sweeps : t # s => sweep'[t] = sweep[t]
    BY <1>1, <1>2 DEF StartSweep, NoSweep
  <2>3. SweepTakesDue'
    BY <1>2, <2>2, NoneAssumption DEF StartSweep, SweepTakesDue, RegisteredIsPast, Due
  <2> QED
    BY <2>1, <2>3
\* The member goes when its file has gone.
<1>3. CASE RemoveMember(s)
  <2>1. sweep[s].doing \in Requests
    BY <1>1, <1>3 DEF RemoveMember
  <2>2. /\ sweep'[s].left = sweep[s].left /\ sweep'[s].doing = None
        /\ \A t \in Sweeps : t # s => sweep'[t] = sweep[t]
        /\ \A x \in Requests : x # sweep[s].doing => expiry'[x] = expiry[x]
        /\ expiry'[sweep[s].doing] = "none"
    BY <1>1, <1>3, <2>1 DEF RemoveMember, Sane, TypeOK
  <2>3. faults = 0 => sweep[s].doing \notin files
    BY <2>1 DEF SweepTakesDue
  <2>4. RegisteredIsPast'
    BY <1>3, <2>1, <2>2 DEF RegisteredIsPast, RemoveMember
  <2>5. SweepTakesDue'
    BY <1>3, <2>1, <2>2, <2>3, NoneAssumption DEF SweepTakesDue, RemoveMember
  <2>6. FilesAreScheduled'
    BY <1>3, <2>1, <2>2, <2>3 DEF FilesAreScheduled, RemoveMember, Sane, TypeOK
  <2> QED
    BY <2>4, <2>5, <2>6
<1>4. ASSUME NEW r \in Requests, Unlink(s, r) PROVE Tidy'
  <2>1. /\ r \in sweep[s].left /\ files' = files \ {r}
        /\ sweep'[s].left = sweep[s].left \ {r} /\ sweep'[s].doing = r
        /\ \A t \in Sweeps : t # s => sweep'[t] = sweep[t]
    BY <1>1, <1>4 DEF Unlink, Turn
  <2>2. RegisteredIsPast' /\ FilesAreScheduled'
    BY <1>4 DEF Unlink, RegisteredIsPast, FilesAreScheduled
  <2>3. SweepTakesDue'
    BY <1>4, <2>1 DEF Unlink, SweepTakesDue
  <2> QED
    BY <2>2, <2>3
<1>5. ASSUME NEW r \in Requests, UnlinkFails(s, r) PROVE Tidy'
  <2>1. /\ r \in sweep[s].left /\ faults' # 0
        /\ sweep'[s].left = sweep[s].left \ {r} /\ sweep'[s].doing = r
        /\ \A t \in Sweeps : t # s => sweep'[t] = sweep[t]
    BY <1>1, <1>5 DEF UnlinkFails, Turn, Sane, TypeOK
  <2>2. RegisteredIsPast' /\ FilesAreScheduled'
    BY <1>5, <2>1 DEF UnlinkFails, RegisteredIsPast, FilesAreScheduled
  <2>3. SweepTakesDue'
    BY <1>5, <2>1 DEF UnlinkFails, SweepTakesDue
  <2> QED
    BY <2>2, <2>3
<1>6. CASE RemoveMemberFails(s)
  <2>1. /\ sweep'[s].left = {} /\ sweep'[s].doing = None /\ faults' # 0
        /\ \A t \in Sweeps : t # s => sweep'[t] = sweep[t]
    BY <1>1, <1>6 DEF RemoveMemberFails, NoSweep, Sane, TypeOK
  <2>2. RegisteredIsPast' /\ FilesAreScheduled'
    BY <1>6, <2>1 DEF RemoveMemberFails, RegisteredIsPast, FilesAreScheduled
  <2>3. SweepTakesDue'
    BY <1>6, <2>1, NoneAssumption DEF RemoveMemberFails, SweepTakesDue
  <2> QED
    BY <2>2, <2>3
<1> QED
  BY <1>2, <1>3, <1>4, <1>5, <1>6 DEF Cleanup, GoOn

LEMMA TidyDue ==
  ASSUME Sane, Tidy, NEW r \in Requests, FileIsDue(r)
  PROVE  Tidy'
<1> USE DEF Tidy
<1>1. /\ expiry[r] = "later" /\ expiry'[r] = "due"
      /\ \A x \in Requests : x # r => expiry'[x] = expiry[x]
  BY DEF FileIsDue, Sane, TypeOK
<1>2. RegisteredIsPast'
  BY <1>1 DEF FileIsDue, RegisteredIsPast
<1>3. SweepTakesDue'
  BY <1>1 DEF FileIsDue, SweepTakesDue
<1>4. FilesAreScheduled'
  BY <1>1 DEF FileIsDue, FilesAreScheduled, Sane, TypeOK
<1> QED
  BY <1>2, <1>3, <1>4

\* A crash ends every handler and forgets the clean-up.
LEMMA TidyCrash ==
  ASSUME Sane, Tidy, Crash
  PROVE  Tidy'
<1>1. req \in [Requests -> RequestStates]
  BY SaneParts
<1>2. crashes' # 0
  BY DEF Crash, Sane, TypeOK
<1>3. RegisteredIsPast'
  BY <1>1 DEF Crash, Tidy, RegisteredIsPast, Done, Idle
<1>4. SweepTakesDue'
  BY NoneAssumption DEF Crash, SweepTakesDue, NoSweep, Sane, TypeOK
<1>5. FilesAreScheduled'
  BY <1>2 DEF FilesAreScheduled
<1> QED
  BY <1>3, <1>4, <1>5 DEF Tidy

LEMMA TidyStep == Sane /\ Sane' /\ UnaskedIsIdle /\ Tidy /\ [Next]_vars => Tidy'
<1> SUFFICES ASSUME Sane, Sane', UnaskedIsIdle, Tidy, [Next]_vars PROVE Tidy'
  OBVIOUS
<1>1. ASSUME NEW r \in Requests, Ask(r) PROVE Tidy'
  <2>1. req[r] \in RequestStates /\ req[r].stage = "idle"
    BY <1>1, SaneParts DEF Ask, UnaskedIsIdle
  <2>2. UNCHANGED <<files, expiry, sweep, faults, crashes>>
    BY <1>1 DEF Ask
  <2>3. CASE up
    <3> DEFINE d == [req[r] EXCEPT !.stage = "accepted"]
    <3>1. d \in RequestStates
      BY <2>1 DEF RequestStates, Stages
    <3>2. req' = [req EXCEPT ![r] = d]
      BY <1>1, <2>3 DEF Ask
    <3> HIDE DEF d
    <3> QED
      BY <2>1, <2>2, <3>1, <3>2, TidyMove
  <2>4. CASE ~up
    BY <1>1, <2>2, <2>4
    DEF Ask, Tidy, RegisteredIsPast, SweepTakesDue, FilesAreScheduled
  <2> QED
    BY <2>3, <2>4
<1>2. ASSUME \/ \E r \in Requests : GiveUp(r)
             \/ ForgetAnswer \/ ForgetPage \/ Restart \/ UNCHANGED vars
      PROVE  Tidy'
  <2>1. UNCHANGED <<req, files, expiry, sweep, faults, crashes>>
    BY <1>2 DEF GiveUp, ForgetAnswer, ForgetPage, Restart, vars
  <2> QED
    BY <2>1 DEF Tidy, RegisteredIsPast, SweepTakesDue, FilesAreScheduled
<1> QED
  BY <1>1, <1>2, TidyHandle, TidyFail, TidyCleanup, TidyDue, TidyCrash DEF Next

\* Without a crash or a fault every temporary file has an expiry, or is about
\* to get one, in whatever order handlers and clean-up interleave.
THEOREM FilesGetAnExpiry == Spec => []FilesAreScheduled
<1>1. Tidy => FilesAreScheduled
  BY DEF Tidy
<1>2. Init => UnaskedIsIdle
  BY DEF Init, UnaskedIsIdle, Idle
<1> QED
  BY <1>1, <1>2, SaneAlways, UnaskedStep, TidyInit, TidyStep, PTL DEF Spec
=============================================================================
