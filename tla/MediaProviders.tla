--------------------------- MODULE MediaProviders ---------------------------
(***************************************************************************)
(* What the download providers make of what a site answers: the router     *)
(* (packages/adapters/src/downloads/router.ts), the YouTube, Instagram,    *)
(* Facebook and direct providers beside it, and the bridges of the         *)
(* resolver service to the external YouTube and Facebook resolvers.        *)
(*                                                                         *)
(* A provider probes a link and, if the probe is ready, executes the       *)
(* download.  Both are sequences of HTTP exchanges that share nothing with *)
(* other requests (Instagram's page cache excepted: module MediaResolver), *)
(* so a phase is an operator from the answers of the sites to an Outcome,  *)
(* and the set of outcomes of a phase is its image over all answers.       *)
(* Sizes are "small" or "big" with regard to the limit of the request.     *)
(***************************************************************************)
EXTENDS FiniteSets

CONSTANTS None, Enabled, Bridged

Providers == {"yt", "ig", "fb", "direct"}
ASSUME ProvidersAssumption == Enabled \subseteq Providers /\ Bridged \subseteq {"yt", "fb"}

Statuses == {"ready", "unsupported", "blocked", "invalid", "error"}
MediaKinds == {"image_post", "video_post", "reel_video"}
ResultKinds ==
  MediaKinds \cup {"preview_only", "blocked", "private", "login_required", "unsupported"}
Sizes == {"none", "small", "big"}

(* again: the reason is one the resolver service takes for transient; bytes:  *)
(* none, if the outcome has no buffer, or the length of the buffer.           *)
Outcomes == [status: Statuses, kind: ResultKinds, again: BOOLEAN, bytes: Sizes \cup {"empty"},
             media: {"none", "image", "video", "audio", "document"}]

Outcome(s, k) == [status |-> s, kind |-> k, again |-> FALSE, bytes |-> "none", media |-> "none"]
Unsupported == Outcome("unsupported", "unsupported")
PreviewOnly == Outcome("unsupported", "preview_only")
TooLarge == Outcome("blocked", "blocked")
Ready(k) == Outcome("ready", k)

-----------------------------------------------------------------------------
(* A link: the site its host belongs to and the kind of its path.  "reel"    *)
(* stands for /reel, /tv, /shorts and the shared reels, "post" for the other *)
(* paths a provider knows.  An explicit provider may be asked for any link.  *)
Links == [site: Providers, path: {"post", "reel", "unknown"}, explicit: Providers \cup {None}]

(* A site's own provider detects its links with more confidence than the     *)
(* direct one, which takes every http link.                                  *)
Provider(l) ==
  LET found == IF l.explicit # None THEN {l.explicit} \cap Enabled
               ELSE IF l.site \in Enabled THEN {l.site} ELSE {"direct"} \cap Enabled
  IN  IF found = {} THEN None ELSE CHOOSE p \in found : TRUE

NotConfigured == Outcome("invalid", "unsupported")
Foreign(p, l) == p # "direct" /\ p # l.site         \* parse...Permalink returns null
InvalidLink == Outcome("invalid", "unsupported")

-----------------------------------------------------------------------------
(* HTTP.  "busy" is a 50x, "odd" any other status that is not handled by     *)
(* itself; "cut" and "stalled" are a body whose reading throws.              *)
Refusals == {"denied", "missing", "busy", "odd"}
Failures == Refusals \cup {"timeout", "network"}
BrokenBodies == {"cut", "stalled"}

StatusOf(f) == CASE f = "denied" -> "blocked" [] f = "missing" -> "invalid" [] OTHER -> "error"

FailedWith(f, k) ==
  [Outcome(StatusOf(f), k) EXCEPT !.again = f \in {"timeout", "network", "busy", "stalled"}]
FailedFetch(f) == FailedWith(f, IF f = "denied" THEN "login_required" ELSE "unsupported")

(* What the router makes of an exception of a provider: its message is the   *)
(* reason.                                                                   *)
Thrown(f) == FailedWith(f, "unsupported")

-----------------------------------------------------------------------------
(* Instagram and Facebook: the public page.                                  *)
Pages == [got: {"page"}, marker: {"none", "login", "private", "gone"},
          video: BOOLEAN, image: BOOLEAN]
PageAnswers == Pages \cup [got: Failures \cup BrokenBodies \cup {"notHtml", "huge"}]

PageUnread(a) ==
  CASE a.got = "notHtml" -> Unsupported
    [] a.got = "huge" -> Outcome("error", "unsupported")
    [] a.got \in BrokenBodies -> Thrown(a.got)
    [] OTHER -> FailedFetch(a.got)

(* Instagram looks at the markers only when the page offers no media. *)
IgProbeKind(path, pg) ==
  IF pg.video THEN IF path = "reel" THEN "reel_video" ELSE "video_post"
  ELSE IF ~pg.image THEN None
  ELSE IF path = "reel" THEN "preview_only" ELSE "image_post"

IgUnresolved(pg) ==
  IF pg.marker \in {"private", "login"} THEN Outcome("blocked", "private")
  ELSE IF pg.marker = "gone" THEN Outcome("invalid", "unsupported") ELSE Unsupported

IgPage(path, pg) ==
  LET k == IgProbeKind(path, pg)
  IN  IF k = None THEN IgUnresolved(pg) ELSE IF k = "preview_only" THEN PreviewOnly ELSE Ready(k)

IgProbe(path, a) ==
  IF path = "unknown" THEN Unsupported
  ELSE IF a.got # "page" THEN PageUnread(a) ELSE IgPage(path, a)

(* Facebook asks the Graph API first, when it has a token; only a refusal    *)
(* there ends the probe.  The markers of the page come before its media.     *)
GraphAnswers == {"skipped", "ok", "denied", "missing", "error"}

FbPage(path, pg) ==
  IF pg.marker = "login" THEN Outcome("blocked", "login_required")
  ELSE IF pg.marker = "private" THEN Outcome("blocked", "private")
  ELSE IF pg.marker = "gone" THEN Outcome("invalid", "unsupported")
  ELSE IF pg.video THEN Ready(IF path = "reel" THEN "reel_video" ELSE "video_post") ELSE PreviewOnly

FbProbe(path, graph, a) ==
  IF path = "unknown" THEN Unsupported
  ELSE IF graph = "missing" THEN Outcome("blocked", "private")
  ELSE IF graph = "denied" THEN Outcome("blocked", "login_required")
  ELSE IF a.got # "page" THEN PageUnread(a) ELSE FbPage(path, a)

-----------------------------------------------------------------------------
(* The media file: HEAD, whose failure to connect is passed over, then GET.  *)
(* A header may be missing or wrong; mp4 and image say what the bytes are.   *)
Mimes == {"none", "mp4", "video", "image", "other"}
HeadAnswers == [got: Refusals \cup {"unreachable"}] \cup [got: {"head"}, mime: Mimes, size: Sizes]
Bodies == [got: {"body"}, mime: Mimes, size: Sizes,
           body: {"small", "big", "cut"}, mp4: BOOLEAN, image: BOOLEAN]
NoBytes == [got: {"body"}, mime: Mimes, size: Sizes, body: {"empty"}, mp4: {FALSE}, image: {FALSE}]
GetAnswers == [got: Failures] \cup Bodies \cup NoBytes

IsVideo(m) == m \in {"mp4", "video"}
Compatible(m, k) == IF k = "image_post" THEN m = "image" ELSE IsVideo(m)
Hint(h) == IF h.got = "head" THEN h.mime ELSE "none"

(* What the HEAD rules out, in the order of the tests; None: go on. *)
HeadVerdict(k, h, denied) ==
  IF h.got = "unreachable" THEN None
  ELSE IF h.got # "head" THEN FailedWith(h.got, IF h.got = "denied" THEN denied ELSE "unsupported")
  ELSE IF h.size = "big" THEN TooLarge
  ELSE IF h.mime = "none" \/ Compatible(h.mime, k) THEN None
  ELSE IF k # "image_post" /\ h.mime = "image" THEN PreviewOnly ELSE Unsupported

(* Mutant: the body is trusted to be what the header has announced. *)
ReadAsAnnounced(g) ==
  IF g.body = "cut" THEN Outcome("error", "unsupported")
  ELSE [Ready("unsupported") EXCEPT !.bytes = g.body]

(* The body is read with the limit in force, whatever the header said. *)
ReadWithinLimit(g) ==
  IF g.body = "big" THEN TooLarge
  ELSE IF g.body = "cut" THEN Outcome("error", "unsupported")
  ELSE [Ready("unsupported") EXCEPT !.bytes = g.body]

IgHead(k, h) == HeadVerdict(k, h, "blocked")
FbHead(k, h) == HeadVerdict(k, h, "login_required")

GetVerdict(k, g) ==
  IF g.got # "body" THEN FailedFetch(g.got)
  ELSE IF g.mime # "none" /\ ~Compatible(g.mime, k)
       THEN IF k # "image_post" /\ g.mime = "image" THEN PreviewOnly ELSE Unsupported
  ELSE IF g.size = "big" THEN TooLarge ELSE ReadWithinLimit(g)

IgDeliverable(k, hint, g) ==
  LET m == IF g.mime # "none" THEN g.mime ELSE hint
  IN  IF k = "image_post" THEN m = "image" \/ (g.mime = "none" /\ g.image)
                          ELSE m = "mp4" \/ (m = "video" /\ g.mp4)
FbDeliverable(hint, g) ==
  LET m == IF g.mime # "none" THEN g.mime ELSE hint
  IN  m = "mp4" \/ (m = "video" /\ g.mp4)

Deliver(k, out) == [out EXCEPT !.kind = k, !.media = IF k = "image_post" THEN "image" ELSE "video"]

IgGet(k, hint, g) ==
  LET got == GetVerdict(k, g)
  IN  IF got.status # "ready" THEN got
      ELSE IF IgDeliverable(k, hint, g) THEN Deliver(k, got) ELSE Unsupported
FbGet(k, hint, g) ==
  LET got == GetVerdict(k, g)
  IN  IF got.status # "ready" THEN got
      ELSE IF FbDeliverable(hint, g) THEN Deliver(k, got) ELSE Unsupported

(* Instagram: from the GET on, also a failure carries the kind of the media. *)
IgExecute(k, h, g) ==
  IF IgHead(k, h) # None THEN IgHead(k, h) ELSE [IgGet(k, Hint(h), g) EXCEPT !.kind = k]
FbExecute(k, h, g) ==
  IF FbHead(k, h) # None THEN FbHead(k, h) ELSE FbGet(k, Hint(h), g)

-----------------------------------------------------------------------------
(* YouTube: metadata only, from the Data API when there is a key, from       *)
(* oEmbed when there is none, when the API fails or knows no such video.     *)
DataApiAnswers == {"skipped", "ok", "private"} \cup Failures
OEmbedAnswers == {"ok"} \cup Failures

YtMetadata(api, oe) ==
  IF api = "private" THEN Outcome("blocked", "private")
  ELSE IF api = "denied" THEN Outcome("blocked", "login_required")
  ELSE IF api = "ok" \/ oe = "ok" THEN Ready("video_post")
  ELSE IF api \in {"skipped", "missing"} THEN FailedFetch(oe)
  ELSE [Outcome("error", "unsupported") EXCEPT
          !.again = {api, oe} \cap {"timeout", "network", "busy"} # {}]

YtProbe(path, api, oe) ==
  IF path = "unknown" THEN Unsupported
  ELSE LET out == YtMetadata(api, oe)
       IN  IF out.status = "ready" /\ path = "reel" THEN Ready("reel_video") ELSE out

(* The refreshed probe decides; a ready one is still not downloaded. *)
YtExecute(refreshed) == IF refreshed.status = "ready" THEN PreviewOnly ELSE refreshed

-----------------------------------------------------------------------------
(* Direct links: HEAD, and GET when the HEAD is refused.  The message of the *)
(* exception ("fetch failed", "This operation was aborted") is the reason.   *)
DirectAnswers == [got: {"thrown", "refused"}] \cup
  [got: {"ok"}, mime: {"none", "image", "video", "audio", "document", "other"}, size: Sizes]

DirectProbe(a) ==
  IF a.got = "thrown" THEN Outcome("error", "unsupported")
  ELSE IF a.got = "refused" THEN Outcome("invalid", "unsupported")
  ELSE IF a.mime \in {"none", "other"} THEN Unsupported
  ELSE Ready(CASE a.mime = "image" -> "image_post"
               [] a.mime = "video" -> "video_post"
               [] OTHER -> "unsupported")

DirectExecute(a) ==
  LET out == DirectProbe(a)
  IN  IF out.status # "ready" THEN out
      ELSE IF a.size = "big" THEN TooLarge ELSE [out EXCEPT !.media = a.mime]

-----------------------------------------------------------------------------
(* Bridges: the external service says a status, a kind, a reason, each of    *)
(* them or none, and offers a link, bytes, a size.  Its kinds and types are   *)
(* samples: one for each branch below.                                       *)
Payloads == [status: Statuses \cup {None}, kind: {None, "unsupported"},
             reason: {"none", "private", "invalid", "timeout"},
             mime: {"none", "image"}, url: BOOLEAN, bytes: Sizes, claimed: Sizes]
CallFailures == {"timeout", "network", "busy", "odd"}

KindOfReason(re) ==
  CASE re = "preview" -> "preview_only" [] re = "private" -> "private"
    [] re = "login" -> "login_required" [] OTHER -> None

BridgeStatus(p) ==
  IF p.status # None THEN p.status
  ELSE CASE p.reason \in {"private", "login"} -> "blocked" [] p.reason = "preview" -> "unsupported"
         [] p.reason = "invalid" -> "invalid" [] OTHER -> "error"

BridgeKind(p, path) ==
  IF p.kind # None THEN p.kind
  ELSE IF KindOfReason(p.reason) # None THEN KindOfReason(p.reason)
  ELSE CASE BridgeStatus(p) = "blocked" -> "blocked"
         [] BridgeStatus(p) = "ready" -> (IF path = "reel" THEN "reel_video" ELSE "video_post")
         [] OTHER -> "unsupported"

BridgeProbe(path, p) ==
  [Outcome(BridgeStatus(p), BridgeKind(p, path)) EXCEPT
     !.again = BridgeStatus(p) = "error" /\ p.reason = "timeout"]

BridgeMedia(p, k) ==
  IF p.mime # "none" THEN p.mime ELSE IF k = "image_post" THEN "image" ELSE "video"

BridgeExecute(path, p) ==
  LET out == BridgeProbe(path, p)
      media == BridgeMedia(p, out.kind)
      kind == IF out.kind # "unsupported" THEN out.kind
              ELSE IF KindOfReason(p.reason) # None THEN KindOfReason(p.reason)
              ELSE IF media = "image" THEN "image_post" ELSE "video_post"
  IN  IF out.status # "ready" THEN out
      ELSE IF "big" \in {p.claimed, p.bytes} THEN TooLarge
      ELSE IF ~p.url /\ p.bytes = "none" THEN PreviewOnly
      ELSE [Ready(kind) EXCEPT !.media = media, !.bytes = p.bytes]

BridgeFailed(f) == FailedWith(f, "unsupported")

-----------------------------------------------------------------------------
(* What the /dl command replies with. *)
Reply(out) ==
  IF out.status # "ready" THEN "text"
  ELSE IF out.media \in {"image", "video"} \/ (out.media = "audio" /\ out.bytes # "none")
       THEN out.media ELSE "link"

-----------------------------------------------------------------------------
(* The outcomes of each phase, over all answers. *)
Paths == {"post", "reel", "unknown"}

ProbeOutcomes == [p \in Providers |-> [path \in Paths |->
  IF p \in Bridged
  THEN {BridgeProbe(path, a) : a \in Payloads} \cup {BridgeFailed(f) : f \in CallFailures}
  ELSE CASE p = "ig" -> {IgProbe(path, a) : a \in PageAnswers}
         [] p = "fb" -> {FbProbe(path, gr, a) : gr \in GraphAnswers, a \in PageAnswers}
         [] p = "yt" -> {YtProbe(path, api, oe) : api \in DataApiAnswers, oe \in OEmbedAnswers}
         [] p = "direct" -> {DirectProbe(a) : a \in DirectAnswers}]]

FbRefreshed(path) ==
  UNION {IF out.status # "ready" THEN {out}
         ELSE {FbExecute(out.kind, h, g) : h \in HeadAnswers, g \in GetAnswers} :
           out \in ProbeOutcomes["fb"][path]}

ExecuteOutcomes == [p \in Providers \ {"ig"} |-> [path \in Paths |->
  IF p \in Bridged
  THEN {BridgeExecute(path, a) : a \in Payloads} \cup {BridgeFailed(f) : f \in CallFailures}
  ELSE CASE p = "fb" -> FbRefreshed(path)
         [] p = "yt" -> {YtExecute(out) : out \in ProbeOutcomes["yt"][path]}
         [] p = "direct" -> {DirectExecute(a) : a \in DirectAnswers}]]

(* Instagram downloads the media of the page it has in its cache. *)
IgExecutions == [k \in MediaKinds |-> {IgExecute(k, h, g) : h \in HeadAnswers, g \in GetAnswers}]
=============================================================================
