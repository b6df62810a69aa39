----------------------------- MODULE ClipDaemon -----------------------------
(***************************************************************************)
(* What one clipfan daemon does with a clip (internal/daemon/daemon.go and *)
(* seen.go): the poll loop that turns a local copy into a clip, onReceive, *)
(* which any number of callers run at the same time (the readers of the    *)
(* ssh streams and the handlers of POST /v1/current), and Restore.         *)
(*                                                                         *)
(* d.mu is taken for single reads and updates and released around every    *)
(* call that does I/O, so an action is one stretch of code under d.mu or   *)
(* the I/O between two of them.  The daemon is not in safe mode, where     *)
(* pollOnce, onReceive and publishSSH return at once.                      *)
(*                                                                         *)
(* Timestamps are natural numbers; clock is this host's clock, and the     *)
(* timestamps of clips from peers are whatever the peers stamped.          *)
(***************************************************************************)
EXTENDS Integers, Sequences, FiniteSets

CONSTANTS None,        \* no content
          Texts,       \* texts a user may copy
          Images,      \* images, as their bytes: what a user may copy, or pngpaste make of it
          Reencoded,   \* the bytes pngpaste gives for each image on the macOS clipboard
          Receiver,    \* goroutines that may be in onReceive
          Inbound,     \* clips that peers send
          Backends,    \* kinds of clipboard the daemon may run with
          SeenCap,     \* seenCap
          StartClock,  \* this host's clock when the daemon starts
          MaxStimulus, \* bound on local copies, deliveries and restores together
          MaxMint,     \* bound on clip IDs, more than the stimuli can use up
          MaxFault     \* bound on failing image saves, clipboard writes and ID mints

\* A "path" is the text that names the file of a stored image.
Body == [kind : {"text"}, of : Texts] \cup [kind : {"image", "path"}, of : Images]
Id   == {"peer", "local", "startup"} \X Nat
Clip == [id : Id, body : Body, ts : Nat, concealed : BOOLEAN]

\* What the history and the run's record of published clips keep of a clip.
Trace    == [from : {"peer", "local"}, body : Body, concealed : BOOLEAN]
Trail(c) == [from |-> c.id[1], body |-> c.body, concealed |-> c.concealed]

ASSUME DaemonAssumption ==
    /\ Reencoded \in [Images -> Images]
    /\ Inbound \subseteq Clip /\ \A c \in Inbound : c.id[1] = "peer"
    /\ Backends \subseteq {"image", "path", "headless"}
    /\ SeenCap \in Nat \ {0}
    /\ StartClock \in Nat /\ MaxStimulus \in Nat /\ MaxFault \in Nat
    /\ MaxMint \in Nat
    /\ {"poll", "restore"} \cap Receiver = {}

VARIABLES
    backend,    \* d.cb: shows an image as an image, as its path, or not at all
    probed,     \* macBackend's cache: the last text probed and its flag, or None
    clipboard,  \* the OS clipboard: [body, concealed], or None
    images,     \* images in the image store
    hist,       \* what the history records
    seen,       \* d.seen: clip IDs, oldest first
    lastTS,     \* d.lastTS; 0 is the zero time
    current,    \* d.current: a clip with its imagePath and visible, or None
    pc,         \* where each goroutine stands
    arg,        \* the clip it works on, or None
    imagePath,  \* its local imagePath is set
    wrote,      \* its local wrote
    relays,     \* goroutines "go publishSSH" of each clip that have not run yet
    clock, minted, stimuli, faults,
    \* history of the run
    accepted,   \* how often each inbound clip passed the checks of onReceive
    evicted,    \* IDs of inbound clips that d.seen has forgotten
    unsaved,    \* inbound clips whose image could not be saved
    published   \* what was passed to sshSync.Publish

daemon  == <<backend, probed, clipboard, images, hist, seen, lastTS, current>>
threads == <<pc, arg, imagePath, wrote, relays>>
bounds  == <<stimuli, faults>>
ghosts  == <<accepted, evicted, unsaved, published>>
vars    == <<daemon, threads, clock, minted, bounds, ghosts>>

Thread == Receiver \cup {"poll", "restore"}

Places == {"start", "first probe", "startup", "idle", "probe", "echo", "stamp", "check", "store", "write", "adopt",
           "append", "publish"}

Current == [id : Id, body : Body, ts : Nat, concealed : BOOLEAN,
            imagePath : BOOLEAN, visible : BOOLEAN]

TypeOK ==
    /\ backend \in Backends
    /\ clipboard \in {None} \cup [body : Body, concealed : BOOLEAN]
    /\ probed \in {None} \cup [body : Body, concealed : BOOLEAN]
    /\ images \subseteq Images
    /\ hist \subseteq Trace
    /\ seen \in Seq(Id) /\ Len(seen) <= SeenCap
    /\ lastTS \in Nat
    /\ current \in {None} \cup Current
    /\ pc \in [Thread -> Places]
    /\ arg \in [Thread -> {None} \cup Clip]
    /\ imagePath \in [Thread -> BOOLEAN] /\ wrote \in [Thread -> BOOLEAN]
    /\ relays \in [Inbound -> Nat]
    /\ clock \in Nat /\ minted \in 0 .. MaxMint
    /\ stimuli \in 0 .. MaxStimulus /\ faults \in 0 .. MaxFault
    /\ accepted \in [Inbound -> Nat]
    /\ evicted \subseteq Id
    /\ unsaved \subseteq Inbound
    /\ published \subseteq Trace

Ids(s) == {s[i] : i \in 1 .. Len(s)}

\* What a write of body b leaves on the clipboard.
Written(b) ==
    CASE backend = "headless"                 -> clipboard
      [] backend = "path" /\ b.kind = "image" -> [body |-> [b EXCEPT !.kind = "path"],
                                                  concealed |-> FALSE]
      [] OTHER                                -> [body |-> b, concealed |-> FALSE]

\* What a read of a clipboard that holds b gives.  The daemon on macOS reads an
\* image through pngpaste, which encodes it again.
ReadBack(b) ==
    IF backend = "image" /\ b.kind = "image" THEN [b EXCEPT !.of = Reencoded[b.of]] ELSE b

\* store.IsImageStorePath: the text names an existing file of the image store.
IsImageStorePath(b) == b.kind = "path" /\ b.of \in images

\* isEcho
IsEcho(b) ==
    /\ current # None
    /\ \/ b = current.body
       \/ /\ current.body.kind = "image" /\ current.imagePath
          /\ b = [current.body EXCEPT !.kind = "path"]

\* Variant: the seen set is trimmed one ID too late.
SeenOneTooMany(s, id) ==
    IF id \in Ids(s) THEN s
    ELSE LET t == Append(s, id) IN IF Len(t) > SeenCap + 1 THEN Tail(t) ELSE t

\* seenSet.add
SeenAdd(s, id) ==
    IF id \in Ids(s) THEN s
    ELSE LET t == Append(s, id) IN IF Len(t) > SeenCap THEN Tail(t) ELSE t

Remember(id) ==
    /\ seen' = SeenAdd(seen, id)
    /\ evicted' = evicted \cup {e \in Ids(seen) \ Ids(SeenAdd(seen, id)) : e[1] = "peer"}

\* A clip as d.current keeps it.
CurrentOf(c, img, visible) ==
    [id |-> c.id, body |-> c.body, ts |-> c.ts, concealed |-> c.concealed,
     imagePath |-> img, visible |-> visible]

\* store.AppendHistory: content already recorded is replaced.
AppendHistory(c) == hist' = {h \in hist : h.body # c.body} \cup {Trail(c)}

Goto(t, place) == pc' = [pc EXCEPT ![t] = place]

Return(t) ==
    /\ Goto(t, "idle")
    /\ arg' = [arg EXCEPT ![t] = None]
    /\ imagePath' = [imagePath EXCEPT ![t] = FALSE]
    /\ wrote' = [wrote EXCEPT ![t] = FALSE]

\* What is read or restored here and now, before it has an ID.
Fresh(b) == [id |-> <<"local", 0>>, body |-> b, ts |-> clock + 1, concealed |-> FALSE]

\* transport.NewClipID
Mint(t) ==
    /\ minted < MaxMint
    /\ minted' = minted + 1
    /\ arg' = [arg EXCEPT ![t].id = <<"local", minted + 1>>]
    /\ clock' = IF arg[t].ts > clock THEN arg[t].ts ELSE clock

\* One of the events the daemon reacts to.
Stimulus == stimuli < MaxStimulus /\ stimuli' = stimuli + 1

\* An I/O call fails, or not.
Outcome(ok) == \/ ok /\ UNCHANGED faults
               \/ ~ok /\ faults < MaxFault /\ faults' = faults + 1

Init ==
    /\ backend \in Backends
    /\ clipboard \in {None} \cup
          (IF backend = "headless" THEN {}
           ELSE [body : {b \in Body : b.kind # "path"}, concealed : {FALSE}])
    /\ images = {} /\ hist = {} /\ seen = <<>> /\ probed = None
    /\ lastTS = 0 /\ current = None
    /\ pc = [t \in Thread |-> IF t = "poll" THEN "start" ELSE "idle"]
    /\ arg = [t \in Thread |-> None]
    /\ imagePath = [t \in Thread |-> FALSE]
    /\ wrote = [t \in Thread |-> FALSE]
    /\ relays = [c \in Inbound |-> 0]
    /\ clock = StartClock /\ minted = 0
    /\ stimuli = 0 /\ faults = 0
    /\ accepted = [c \in Inbound |-> 0]
    /\ evicted = {} /\ unsaved = {} /\ published = {}

\* The user copies something; a password manager marks it concealed, which only
\* the macOS clipboard reports.
UserCopy ==
    /\ backend # "headless"
    /\ Stimulus
    /\ clock' = clock + 1
    /\ \E b \in Body, hidden \in BOOLEAN :
         /\ b.kind # "path" /\ (hidden => backend = "image")
         /\ clipboard' = [body |-> b, concealed |-> hidden]
    /\ UNCHANGED <<backend, probed, images, hist, seen, lastTS, current, threads, minted,
                   faults, ghosts>>
-----------------------------------------------------------------------------
(* The goroutine of Run: one read of the clipboard at startup, after the server *)
(* and the ssh sessions have started, then pollOnce for ever.                   *)

StartupRead ==
    /\ pc["poll"] = "start"
    /\ IF clipboard = None
       THEN Goto("poll", "idle") /\ UNCHANGED arg
       ELSE /\ Goto("poll", "first probe")
            /\ arg' = [arg EXCEPT !["poll"] = Fresh(ReadBack(clipboard.body))]
    /\ UNCHANGED <<daemon, imagePath, wrote, relays, clock, minted, bounds, ghosts>>

\* applyConcealment: the flag of the text probed last is taken from the cache.
Cached(b) == b.kind # "image" /\ probed # None /\ probed.body = b

\* The second half of a read, by which time the clipboard may hold something
\* else. Only macOS reports the flag.
Probe ==
    /\ pc["poll"] \in {"first probe", "probe"}
    /\ LET b == arg["poll"].body
           flag == IF Cached(b) THEN probed.concealed ELSE clipboard.concealed
       IN /\ arg' = [arg EXCEPT !["poll"].concealed = flag]
          /\ probed' = IF b.kind = "image" \/ backend # "image" THEN probed
                       ELSE [body |-> b, concealed |-> flag]
    /\ Goto("poll", IF pc["poll"] = "probe" THEN "echo" ELSE "startup")
    /\ UNCHANGED <<backend, clipboard, images, hist, seen, lastTS, current, imagePath, wrote,
                   relays, clock, minted, bounds, ghosts>>

\* What was on the clipboard is adopted, never shown to peers, and its time
\* becomes d.lastTS.
StartupAdopt ==
    /\ pc["poll"] = "startup"
    /\ lastTS' = arg["poll"].ts
    /\ current' = CurrentOf([arg["poll"] EXCEPT !.id = <<"startup", 0>>], FALSE, FALSE)
    /\ Return("poll")
    /\ UNCHANGED <<backend, probed, clipboard, images, hist, seen, relays, clock, minted, bounds, ghosts>>

PollRead ==
    /\ pc["poll"] = "idle" /\ clipboard # None
    /\ ~IsImageStorePath(clipboard.body)
    /\ arg' = [arg EXCEPT !["poll"] = Fresh(ReadBack(clipboard.body))]
    /\ Goto("poll", "probe")
    /\ UNCHANGED <<daemon, imagePath, wrote, relays, clock, minted, bounds, ghosts>>

PollEcho ==
    /\ pc["poll"] = "echo" /\ IsEcho(arg["poll"].body)
    /\ Return("poll")
    /\ UNCHANGED <<daemon, relays, clock, minted, bounds, ghosts>>

PollMint ==
    /\ pc["poll"] = "echo" /\ ~IsEcho(arg["poll"].body)
    /\ Mint("poll")
    /\ Goto("poll", "stamp")
    /\ UNCHANGED <<daemon, imagePath, wrote, relays, bounds, ghosts>>

\* No ID can be minted: the clip is left for the next poll.
PollMintFails ==
    /\ pc["poll"] = "echo" /\ ~IsEcho(arg["poll"].body)
    /\ Outcome(FALSE)
    /\ Return("poll")
    /\ UNCHANGED <<daemon, relays, clock, minted, stimuli, ghosts>>

PollStamp ==
    /\ pc["poll"] = "stamp"
    /\ Remember(arg["poll"].id)
    /\ lastTS' = arg["poll"].ts
    /\ Goto("poll", IF arg["poll"].concealed THEN "adopt" ELSE "store")
    /\ UNCHANGED <<backend, probed, clipboard, images, hist, current, arg, imagePath, wrote, relays,
                   clock, minted, bounds, accepted, unsaved, published>>

\* SaveImage, whose failure only leaves imagePath empty, and AppendHistory.
PollStore ==
    /\ pc["poll"] = "store"
    /\ \E ok \in BOOLEAN :
         /\ arg["poll"].body.kind # "image" => ok
         /\ Outcome(ok)
         /\ LET saved == ok /\ arg["poll"].body.kind = "image"
            IN /\ images' = IF saved THEN images \cup {arg["poll"].body.of} ELSE images
               /\ imagePath' = [imagePath EXCEPT !["poll"] = saved]
    /\ AppendHistory(arg["poll"])
    /\ Goto("poll", "adopt")
    /\ UNCHANGED <<backend, probed, clipboard, seen, lastTS, current, arg, wrote, relays, clock, minted,
                   stimuli, ghosts>>

\* Variant: a concealed clip becomes a visible current clip.
ConcealedIsVisible(c) == TRUE

\* May GET /v1/current show the clip to the gateways?
Visible(c) == ~c.concealed

\* Variant: the poll loop does not adopt a clip it does not publish.
AdoptOnlyVisible(c, img) == IF c.concealed THEN current ELSE CurrentOf(c, img, Visible(c))

Adopted(c, img) == CurrentOf(c, img, Visible(c))

PollAdopt ==
    /\ pc["poll"] = "adopt"
    /\ current' = Adopted(arg["poll"], imagePath["poll"])
    /\ IF arg["poll"].concealed
       THEN Return("poll")
       ELSE Goto("poll", "publish") /\ UNCHANGED <<arg, imagePath, wrote>>
    /\ UNCHANGED <<backend, probed, clipboard, images, hist, seen, lastTS, relays, clock, minted, bounds,
                   ghosts>>

PollPublish ==
    /\ pc["poll"] = "publish"
    /\ published' = published \cup {Trail(arg["poll"])}
    /\ Return("poll")
    /\ UNCHANGED <<daemon, relays, clock, minted, bounds, accepted, evicted, unsaved>>

-----------------------------------------------------------------------------
(* onReceive of clip c by goroutine r *)

\* Up to isEcho: an own image path and an echo are dropped without a trace.
ReceiveStart(r, c) ==
    /\ pc[r] = "idle"
    /\ Stimulus
    /\ IF IsImageStorePath(c.body) \/ IsEcho(c.body)
       THEN UNCHANGED <<arg, pc>>
       ELSE arg' = [arg EXCEPT ![r] = c] /\ Goto(r, "check")
    /\ UNCHANGED <<daemon, imagePath, wrote, relays, clock, minted, faults, ghosts>>

\* Variant: only the timestamp is compared.
AcceptsSeen(c) == ~c.concealed /\ (lastTS = 0 \/ c.ts >= lastTS)

\* The checks of onReceive under d.mu.
Accepts(c) == c.id \notin Ids(seen) /\ ~c.concealed /\ (lastTS = 0 \/ c.ts >= lastTS)

\* A concealed clip is remembered and dropped; a clip already seen or older
\* than the last one is dropped.
ReceiveDrop(r) ==
    /\ pc[r] = "check" /\ ~Accepts(arg[r])
    /\ IF arg[r].concealed THEN Remember(arg[r].id) ELSE UNCHANGED <<seen, evicted>>
    /\ Return(r)
    /\ UNCHANGED <<backend, probed, clipboard, images, hist, lastTS, current, relays, clock, minted,
                   bounds, accepted, unsaved, published>>

ReceiveAccept(r) ==
    /\ pc[r] = "check" /\ Accepts(arg[r])
    /\ Remember(arg[r].id)
    /\ lastTS' = arg[r].ts
    /\ accepted' = [accepted EXCEPT ![arg[r]] = @ + 1]
    /\ Goto(r, "store")
    /\ UNCHANGED <<backend, probed, clipboard, images, hist, current, arg, imagePath, wrote, relays,
                   clock, minted, bounds, unsaved, published>>

\* SaveImage, SaveState and AppendHistory.
ReceiveStore(r) ==
    /\ pc[r] = "store"
    /\ images' = IF arg[r].body.kind = "image" THEN images \cup {arg[r].body.of} ELSE images
    /\ imagePath' = [imagePath EXCEPT ![r] = (arg[r].body.kind = "image")]
    /\ AppendHistory(arg[r])
    /\ Goto(r, "write")
    /\ UNCHANGED <<backend, probed, clipboard, seen, lastTS, current, arg, wrote, relays, clock, minted,
                   bounds, ghosts>>

\* An image that cannot be saved ends onReceive.
ReceiveStoreFails(r) ==
    /\ pc[r] = "store" /\ arg[r].body.kind = "image"
    /\ Outcome(FALSE)
    /\ unsaved' = unsaved \cup {arg[r]}
    /\ Return(r)
    /\ UNCHANGED <<daemon, relays, clock, minted, stimuli,
                   accepted, evicted, published>>

\* A failed write of the clipboard leaves d.current as it was.
ReceiveWrite(r) ==
    /\ pc[r] = "write"
    /\ \E ok \in BOOLEAN :
         /\ Outcome(ok)
         /\ clipboard' = IF ok THEN Written(arg[r].body) ELSE clipboard
         /\ Goto(r, IF ok THEN "adopt" ELSE "publish")
         /\ wrote' = [wrote EXCEPT ![r] = ok]
    /\ UNCHANGED <<backend, probed, images, hist, seen, lastTS, current, arg, imagePath, relays,
                   clock, minted, stimuli, ghosts>>

ReceiveAdopt(r) ==
    /\ pc[r] = "adopt"
    /\ current' = CurrentOf(arg[r], imagePath[r], TRUE)
    /\ Goto(r, "publish")
    /\ UNCHANGED <<backend, probed, clipboard, images, hist, seen, lastTS, arg, imagePath, wrote, relays,
                   clock, minted, bounds, ghosts>>

\* Variant: a clip is relayed only by a host that could show it.
RelaysIfWrote(r) == IF wrote[r] THEN [relays EXCEPT ![arg[r]] = @ + 1] ELSE relays

\* go publishSSH: the relay is left to a goroutine of its own, because the
\* caller may hold the session manager's lock.
Relays(r) == [relays EXCEPT ![arg[r]] = @ + 1]

ReceiveSpawn(r) ==
    /\ pc[r] = "publish"
    /\ relays' = Relays(r)
    /\ Return(r)
    /\ UNCHANGED <<daemon, clock, minted, bounds, ghosts>>

Relay(c) ==
    /\ relays[c] > 0
    /\ relays' = [relays EXCEPT ![c] = @ - 1]
    /\ published' = published \cup {Trail(c)}
    /\ UNCHANGED <<daemon, pc, arg, imagePath, wrote, clock, minted, bounds,
                   accepted, evicted, unsaved>>

-----------------------------------------------------------------------------
(* Restore of a history entry *)

\* EntryByID, the image file, and the new content's timestamp.
RestoreRead ==
    /\ pc["restore"] = "idle"
    /\ Stimulus
    /\ \E h \in hist :
         /\ h.body.kind = "image" => h.body.of \in images
         /\ arg' = [arg EXCEPT !["restore"] = Fresh(h.body)]
         /\ imagePath' = [imagePath EXCEPT !["restore"] = (h.body.kind = "image")]
    /\ Goto("restore", "write")
    /\ UNCHANGED <<daemon, wrote, relays, clock, minted, faults, ghosts>>

\* The clipboard is written before anything is remembered about the clip.
RestoreWrite ==
    /\ pc["restore"] = "write"
    /\ \E ok \in BOOLEAN :
         /\ Outcome(ok)
         /\ clipboard' = IF ok THEN Written(arg["restore"].body) ELSE clipboard
         /\ wrote' = [wrote EXCEPT !["restore"] = ok]
    /\ Mint("restore")
    /\ Goto("restore", "stamp")
    /\ UNCHANGED <<backend, probed, images, hist, seen, lastTS, current, imagePath, relays,
                   stimuli, ghosts>>

\* No ID can be minted: the clipboard is written all the same.
RestoreMintFails ==
    /\ pc["restore"] = "write"
    /\ Outcome(FALSE)
    /\ clipboard' = Written(arg["restore"].body)
    /\ Return("restore")
    /\ UNCHANGED <<backend, probed, images, hist, seen, lastTS, current, relays, clock, minted,
                   stimuli, ghosts>>

RestoreStamp ==
    /\ pc["restore"] = "stamp"
    /\ Remember(arg["restore"].id)
    /\ lastTS' = arg["restore"].ts
    /\ current' = IF wrote["restore"]
                  THEN CurrentOf(arg["restore"], imagePath["restore"], TRUE) ELSE current
    /\ Goto("restore", "append")
    /\ UNCHANGED <<backend, probed, clipboard, images, hist, arg, imagePath, wrote, relays, clock, minted,
                   bounds, accepted, unsaved, published>>

RestoreAppend ==
    /\ pc["restore"] = "append"
    /\ AppendHistory(arg["restore"])
    /\ Goto("restore", "publish")
    /\ UNCHANGED <<backend, probed, clipboard, images, seen, lastTS, current, arg, imagePath, wrote,
                   relays, clock, minted, bounds, ghosts>>

RestorePublish ==
    /\ pc["restore"] = "publish"
    /\ published' = published \cup {Trail(arg["restore"])}
    /\ Return("restore")
    /\ UNCHANGED <<daemon, relays, clock, minted, bounds, accepted, evicted, unsaved>>

-----------------------------------------------------------------------------
Poll ==
    \/ StartupRead \/ StartupAdopt \/ Probe \/ PollRead \/ PollEcho \/ PollMint
    \/ PollMintFails \/ PollStamp \/ PollStore \/ PollAdopt \/ PollPublish

Receive(r) ==
    \/ ReceiveDrop(r) \/ ReceiveAccept(r) \/ ReceiveStore(r) \/ ReceiveStoreFails(r)
    \/ ReceiveWrite(r) \/ ReceiveAdopt(r) \/ ReceiveSpawn(r)

Restore == RestoreWrite \/ RestoreMintFails \/ RestoreStamp \/ RestoreAppend \/ RestorePublish

Next ==
    \/ UserCopy
    \/ Poll
    \/ \E r \in Receiver : Receive(r) \/ \E c \in Inbound : ReceiveStart(r, c)
    \/ \E c \in Inbound : Relay(c)
    \/ RestoreRead
    \/ Restore

Spec == Init /\ [][Next]_vars

\* The poll loop ticks for ever and every goroutine that has started goes on;
\* nothing is assumed of the user, of restores, or of what peers send.
Fairness ==
    /\ WF_vars(Poll)
    /\ WF_vars(Restore)
    /\ \A r \in Receiver : WF_vars(Receive(r))
    /\ \A c \in Inbound : WF_vars(Relay(c))

FairSpec == Spec /\ Fairness

-----------------------------------------------------------------------------
(* Properties *)

\* A clip received as concealed, or found to be by the probe, leaves no trace outside its host and on
\* disk: it is not published, relayed or recorded, and GET /v1/current does not
\* show it to the gateways, whichever of the interleaved paths it takes.
ConcealedStaysPut ==
    /\ \A c \in published \cup hist : ~c.concealed
    /\ \A c \in Inbound : relays[c] > 0 => ~c.concealed
    /\ current # None => ~(current.visible /\ current.concealed)

\* "processed exactly once per host": a clip that arrives by several paths, at
\* the same time or one after the other, passes the checks once, unless the
\* bounded seen set has forgotten it meanwhile.
AcceptedOnce == \A c \in Inbound : accepted[c] > 1 => c.id \in evicted

\* "Last-write-wins by monotonic timestamp": when every goroutine has returned,
\* the current clip is the one whose timestamp the checks let through last.
NewestWins ==
    (\A t \in Thread : pc[t] = "idle") /\ current # None => current.ts = lastTS

\* Whatever is accepted is relayed, even by a host that cannot write its own
\* clipboard; only an image that cannot be stored stops here.
AcceptedIsRelayed ==
    \A c \in Inbound : accepted[c] > 0 ~> (Trail(c) \in published \/ c \in unsaved)

\* The daemon does not go on broadcasting by itself: once users and peers are
\* quiet, what it reads back from the clipboard is what it knows already, be it
\* the path of an image it wrote or an image that pngpaste has encoded again
\* (which pollOnce takes for a copy of the user's and broadcasts, once).
Settles ==
    <>[](clipboard # None => LET b == ReadBack(clipboard.body)
                             IN IsEcho(b) \/ IsImageStorePath(b))

=============================================================================
