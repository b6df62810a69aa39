------------------------------ MODULE ClipStore ------------------------------
(***************************************************************************)
(* The history and the image store of a daemon (internal/store/history.go  *)
(* and store.go): goroutines that record clips (SaveImage, then            *)
(* AppendHistory), the image collector "go gc" that each newly saved image *)
(* starts, and the edits of the menubar app (pin, delete, clear, resize).  *)
(*                                                                         *)
(* The operations on history.json hold historyMu and are one action each.  *)
(* SaveImage and gc hold no lock: what they look at one after the other is *)
(* one action each.  Reads, writes and removals may fail; an edit that     *)
(* cannot read or write the history changes nothing and is no step.        *)
(***************************************************************************)
EXTENDS Naturals, Sequences, FiniteSets

CONSTANTS Texts, Images,  \* contents, named by their hash
          Writer,         \* goroutines that record clips
          Collector,      \* goroutines that run gc
          MaxImages,      \* maxImages
          Caps,           \* values of max_history, one of which the daemon starts with
          NoContent,
          MaxOp           \* bound on clips recorded and edits made

Content == Texts \cup Images

ASSUME StoreAssumption ==
    /\ Texts \cap Images = {} /\ NoContent \notin Content
    /\ IsFiniteSet(Content)
    /\ MaxImages \in Nat /\ Caps \subseteq Nat \ {0} /\ MaxOp \in Nat

VARIABLES
    hist,    \* history.json, newest first: [of, image, pinned]
    files,   \* the image directory: images, oldest first
    cap,     \* max_history in the configuration
    resized, \* has setMaxHistory saved the cap and not yet called Recap?
    pc, arg, \* where each writer stands and what it records
    saved,   \* its imagePath is set
    gc,      \* each collector's place and locals: all, referenced (and whether the
             \* history could not be read), toRemove
    ops,
    overtaken, \* images removed from under a writer, or under an entry newer than
               \* the history the collection has read
    blinded    \* images in use removed by a collection that could not read the history

vars == <<hist, files, cap, resized, pc, arg, saved, gc, ops, overtaken, blinded>>

Entry == [of : Content, image : BOOLEAN, pinned : BOOLEAN]

Collection == [at : {"none", "list", "refs", "stat", "remove"}, all : Seq(Images),
               referenced : SUBSET Images, blind : BOOLEAN, toRemove : Nat]
NoCollection == [at |-> "none", all |-> <<>>, referenced |-> {}, blind |-> FALSE,
                 toRemove |-> 0]

Elements(s) == {s[i] : i \in 1 .. Len(s)}

\* The entries of list at the indices in keep, in their order.
Pick(list, keep) ==
    [k \in 1 .. Cardinality(keep) |->
        list[CHOOSE i \in keep : Cardinality({j \in keep : j <= i}) = k]]

Without(s, set) == Pick(s, {i \in 1 .. Len(s) : s[i] \notin set})

TypeOK ==
    /\ hist \in Seq(Entry)
    /\ \A i, j \in 1 .. Len(hist) : hist[i].of = hist[j].of => i = j
    /\ files \in Seq(Images)
    /\ \A i, j \in 1 .. Len(files) : files[i] = files[j] => i = j
    /\ cap \in Caps /\ resized \in BOOLEAN
    /\ pc \in [Writer -> {"idle", "save", "append"}]
    /\ arg \in [Writer -> Content \cup {NoContent}]
    /\ saved \in [Writer -> BOOLEAN]
    /\ gc \in [Collector -> Collection]
    /\ ops \in 0 .. MaxOp
    /\ overtaken \subseteq Images /\ blinded \subseteq Images

Init ==
    /\ hist = <<>> /\ files = <<>>
    /\ cap \in Caps /\ resized = FALSE
    /\ pc = [w \in Writer |-> "idle"]
    /\ arg = [w \in Writer |-> NoContent]
    /\ saved = [w \in Writer |-> FALSE]
    /\ gc = [g \in Collector |-> NoCollection]
    /\ ops = 0 /\ overtaken = {} /\ blinded = {}

Op == ops < MaxOp /\ ops' = ops + 1

\* ReferencedImages, of the entries of list.
ReferencedImages(list) == {e.of : e \in {x \in Elements(list) : x.image}}

\* A writer has the path of image x in hand and has not recorded it yet.
InHand(x) == \E w \in Writer : pc[w] = "append" /\ saved[w] /\ arg[w] = x

-----------------------------------------------------------------------------
(* capTrim *)

Pinned(list) == Cardinality({i \in 1 .. Len(list) : list[i].pinned})

\* Unpinned entries that are newer than entry i.
NewerUnpinned(list, i) == Cardinality({j \in 1 .. i - 1 : ~list[j].pinned})

\* All pinned entries, and the newest others as long as all fit in max.
CapTrim(list, max) ==
    Pick(list, {i \in 1 .. Len(list) :
                   list[i].pinned \/ NewerUnpinned(list, i) + Pinned(list) < max})

-----------------------------------------------------------------------------
(* Recording a clip *)

\* A poll, a received clip or a restore is about to be recorded.
Record(w, c) ==
    /\ pc[w] = "idle" /\ Op
    /\ pc' = [pc EXCEPT ![w] = IF c \in Images THEN "save" ELSE "append"]
    /\ arg' = [arg EXCEPT ![w] = c]
    /\ saved' = [saved EXCEPT ![w] = FALSE]
    /\ UNCHANGED <<hist, files, cap, resized, gc, overtaken, blinded>>

\* SaveImage of an image that is there already.
ImageExists(w) ==
    /\ pc[w] = "save" /\ arg[w] \in Elements(files)
    /\ pc' = [pc EXCEPT ![w] = "append"]
    /\ saved' = [saved EXCEPT ![w] = TRUE]
    /\ UNCHANGED <<hist, files, cap, resized, arg, gc, ops, overtaken, blinded>>

\* SaveImage of a new image; the collection runs on its own.
SaveImage(w) ==
    /\ pc[w] = "save" /\ arg[w] \notin Elements(files)
    /\ files' = Append(files, arg[w])
    /\ overtaken' = overtaken \ {arg[w]} /\ blinded' = blinded \ {arg[w]}
    /\ \E g \in Collector : gc[g].at = "none" /\ gc' = [gc EXCEPT ![g].at = "list"]
    /\ pc' = [pc EXCEPT ![w] = "append"]
    /\ saved' = [saved EXCEPT ![w] = TRUE]
    /\ UNCHANGED <<hist, cap, resized, arg, ops>>

\* SaveImage fails: onReceive returns, pollOnce records the clip without a path.
SaveFails(w) ==
    /\ pc[w] = "save"
    /\ \/ pc' = [pc EXCEPT ![w] = "append"] /\ UNCHANGED arg
       \/ pc' = [pc EXCEPT ![w] = "idle"] /\ arg' = [arg EXCEPT ![w] = NoContent]
    /\ UNCHANGED <<hist, files, cap, resized, saved, gc, ops, overtaken, blinded>>

\* Variant: a re-copied entry loses its pin.
NewEntryUnpinned(w) == [of |-> arg[w], image |-> saved[w], pinned |-> FALSE]

\* The new entry takes over the pin of the one it replaces.
NewEntry(w) ==
    [of |-> arg[w], image |-> saved[w],
     pinned |-> \E i \in 1 .. Len(hist) : hist[i].of = arg[w] /\ hist[i].pinned]

\* Variant: only the newest entry is compared.
OthersBehindNewest(w) == IF hist # <<>> /\ hist[1].of = arg[w] THEN Tail(hist) ELSE hist

\* The entries of other contents.
Others(w) == Pick(hist, {i \in 1 .. Len(hist) : hist[i].of # arg[w]})

AppendHistory(w) ==
    /\ pc[w] = "append"
    /\ hist' = CapTrim(<<NewEntry(w)>> \o Others(w), cap)
    /\ pc' = [pc EXCEPT ![w] = "idle"]
    /\ arg' = [arg EXCEPT ![w] = NoContent]
    /\ saved' = [saved EXCEPT ![w] = FALSE]
    /\ UNCHANGED <<files, cap, resized, gc, ops, overtaken, blinded>>

\* The history can not be read or written: the clip is not recorded.
AppendFails(w) ==
    /\ pc[w] = "append"
    /\ pc' = [pc EXCEPT ![w] = "idle"]
    /\ arg' = [arg EXCEPT ![w] = NoContent]
    /\ saved' = [saved EXCEPT ![w] = FALSE]
    /\ UNCHANGED <<hist, files, cap, resized, gc, ops, overtaken, blinded>>

-----------------------------------------------------------------------------
(* Edits *)

SetPinned(c, flag) ==
    /\ Op
    /\ hist' = [i \in 1 .. Len(hist) |->
                   IF hist[i].of = c THEN [hist[i] EXCEPT !.pinned = flag] ELSE hist[i]]
    /\ UNCHANGED <<files, cap, resized, pc, arg, saved, gc, overtaken, blinded>>

\* writeHistory(kept), then removeUnreferencedImages(removed, kept), in which any
\* removal may fail.
KeepOnly(kept) ==
    \E gone \in SUBSET ((ReferencedImages(hist) \ ReferencedImages(kept)) \cap Elements(files)) :
       /\ hist' = kept
       /\ files' = Without(files, gone)
       /\ overtaken' = overtaken \cup {x \in gone : InHand(x)}

DeleteEntry(c) ==
    /\ Op
    /\ KeepOnly(Pick(hist, {i \in 1 .. Len(hist) : hist[i].of # c}))
    /\ UNCHANGED <<cap, resized, pc, arg, saved, gc, blinded>>

ClearUnpinned ==
    /\ Op
    /\ KeepOnly(Pick(hist, {i \in 1 .. Len(hist) : hist[i].pinned}))
    /\ UNCHANGED <<cap, resized, pc, arg, saved, gc, blinded>>

\* setMaxHistory saves the new cap ...
SetMaxHistory(n) ==
    /\ ~resized /\ Op
    /\ cap' = n
    /\ resized' = TRUE
    /\ UNCHANGED <<hist, files, pc, arg, saved, gc, overtaken, blinded>>

\* ... and trims the history to it, or fails to.
Recap ==
    /\ resized
    /\ hist' \in {hist, CapTrim(hist, cap)}
    /\ resized' = FALSE
    /\ UNCHANGED <<files, cap, pc, arg, saved, gc, ops, overtaken, blinded>>

-----------------------------------------------------------------------------
(* gc, run by collector g *)

\* os.ReadDir, without which there is no collection
GcList(g) ==
    /\ gc[g].at = "list"
    /\ \/ gc' = [gc EXCEPT ![g].at = "refs", ![g].all = files]
       \/ gc' = [gc EXCEPT ![g] = NoCollection]
    /\ UNCHANGED <<hist, files, cap, resized, pc, arg, saved, ops, overtaken, blinded>>

\* The error of a history that cannot be read is dropped: nothing is referenced.
GcReferenced(g) ==
    /\ gc[g].at = "refs"
    /\ \E blind \in BOOLEAN :
          gc' = [gc EXCEPT ![g].at = "stat", ![g].blind = blind,
                           ![g].referenced = IF blind THEN {} ELSE ReferencedImages(hist)]
    /\ UNCHANGED <<hist, files, cap, resized, pc, arg, saved, ops, overtaken, blinded>>

Bound == IF cap > MaxImages THEN cap ELSE MaxImages

\* The listed files that still exist, in the order of their times, against the
\* retention bound.
GcStat(g) ==
    /\ gc[g].at = "stat"
    /\ LET all == Pick(files, {i \in 1 .. Len(files) : files[i] \in Elements(gc[g].all)})
       IN gc' = [gc EXCEPT ![g] = IF Len(all) <= Bound THEN NoCollection
                                  ELSE [at |-> "remove", all |-> all,
                                        referenced |-> @.referenced, blind |-> @.blind,
                                        toRemove |-> Len(all) - Bound]]
    /\ UNCHANGED <<hist, files, cap, resized, pc, arg, saved, ops, overtaken, blinded>>

\* Variant: the collection goes by age alone.
SparesNothing(g, x) == FALSE

Spares(g, x) == x \in gc[g].referenced

\* The next file in the order: spared, removed, gone already or not to be removed.
GcRemove(g) ==
    /\ gc[g].at = "remove"
    /\ IF gc[g].toRemove = 0 \/ gc[g].all = <<>>
       THEN gc' = [gc EXCEPT ![g] = NoCollection] /\ UNCHANGED <<files, overtaken, blinded>>
       ELSE LET x == Head(gc[g].all)
                used == InHand(x) \/ x \in ReferencedImages(hist)
                lost == IF used /\ x \notin gc[g].referenced THEN {x} ELSE {}
            IN \/ /\ ~Spares(g, x) /\ x \in Elements(files)
                  /\ gc' = [gc EXCEPT ![g].all = Tail(@), ![g].toRemove = @ - 1]
                  /\ files' = Without(files, {x})
                  /\ overtaken' = IF gc[g].blind THEN overtaken ELSE overtaken \cup lost
                  /\ blinded' = IF gc[g].blind THEN blinded \cup lost ELSE blinded
               \/ /\ gc' = [gc EXCEPT ![g].all = Tail(@)]
                  /\ UNCHANGED <<files, overtaken, blinded>>
    /\ UNCHANGED <<hist, cap, resized, pc, arg, saved, ops>>

-----------------------------------------------------------------------------
Recording ==
    \E w \in Writer :
        \/ \E c \in Content : Record(w, c)
        \/ ImageExists(w) \/ SaveImage(w) \/ SaveFails(w)
        \/ AppendHistory(w) \/ AppendFails(w)

Edit ==
    \/ \E c \in Content : DeleteEntry(c) \/ \E flag \in BOOLEAN : SetPinned(c, flag)
    \/ ClearUnpinned
    \/ \E n \in Caps : SetMaxHistory(n)
    \/ Recap

Collecting == \E g \in Collector : GcList(g) \/ GcReferenced(g) \/ GcStat(g) \/ GcRemove(g)

Next == Recording \/ Edit \/ Collecting

Spec == Init /\ [][Next]_vars

-----------------------------------------------------------------------------
(* Properties *)

\* A history entry lacks its image for one of two reasons: the file was removed
\* from under a writer that had its path and had not recorded it, or by a
\* collection that read the history before the entry was in it (overtaken); or
\* a collection in which ReferencedImages failed took the entry for unreferenced
\* (blinded).  A collection that has read an entry never takes its image, and no
\* pin, delete, clear, resize or failed step does either.
DanglingIsExplained ==
    \A i \in 1 .. Len(hist) :
        hist[i].image => hist[i].of \in Elements(files) \cup overtaken \cup blinded

\* Entry i of the history is no longer there, or no longer pinned.
Gone(i) == ~\E j \in 1 .. Len(hist') : hist'[j].of = hist[i].of
Unpinned(i) == ~\E j \in 1 .. Len(hist') : hist'[j].of = hist[i].of /\ hist'[j].pinned

\* A pin holds until the user takes it off or deletes the entry, and what
\* trimming drops is older than every other unpinned entry it keeps (one copied
\* again is the newest), whatever is pinned and however the cap has changed.
PinsAndNewestSurvive ==
    [][\A i \in 1 .. Len(hist) :
          /\ hist[i].pinned /\ Unpinned(i) =>
                DeleteEntry(hist[i].of) \/ SetPinned(hist[i].of, FALSE)
          /\ ~hist[i].pinned /\ Gone(i) =>
                \/ DeleteEntry(hist[i].of)
                \/ \A j \in i + 1 .. Len(hist) :
                      hist[j].pinned \/ Gone(j) \/ hist'[1].of = hist[j].of]_vars

=============================================================================
