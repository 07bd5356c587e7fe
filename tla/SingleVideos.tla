----------------------------- MODULE SingleVideos -----------------------------
(***************************************************************************)
(* Single videos (single_video_runtime.rs, single_videos.rs): links queued *)
(* for one worker, the posts it downloads into the root folder, their      *)
(* catalogue, whose paths are relative to the root of the moment, and the  *)
(* window's commands: one sets the root, moving the files one by one or    *)
(* not, the other deletes a post.  The queue does not survive a restart.   *)
(***************************************************************************)
EXTENDS Naturals, Sequences, FiniteSets

CONSTANTS
    Link,           \* links the user may paste
    PostOf,         \* the post of each
    Slideshow,      \* posts that are photos with a sound; the others are videos
    Shown,          \* the image that each link to a slideshow asks for
    Place,          \* folders the root may be
    FirstRoot,
    MaxOrders,      \* commands given
    MaxStops        \* ends of the process

ASSUME SinglesAssumption ==
    /\ "none" \notin Link \cup {PostOf[u] : u \in Link} \cup Place
    /\ FirstRoot \in Place /\ Slideshow \subseteq {PostOf[u] : u \in Link}
    /\ \A u \in Link : Shown[u] \in 1..2
    /\ MaxOrders \in Nat /\ MaxStops \in Nat

VARIABLES
    links,      \* the queue
    queued,     \* queued_urls
    current,    \* the active job's link
    fetcher,    \* the worker: what it does, and in which root
    catalogue,  \* the file each row of single_videos names
    folders,    \* the files in each folder, whole or in part
    root,       \* the setting storage.single_videos_root
    move,       \* what set_single_videos_root is doing
    removal,    \* the post that delete_single_video is working on
    trouble,    \* "apart": the root was set and the files left where they were;
                \* "overtaken": it was set while a post was being downloaded
    halfway,    \* folders that moves which did not end were moving to
    doubtful,   \* posts deleted while being downloaded, deleted in part or while a copy
                \* that was cut off lay elsewhere, or with an image whose writing was cut
                \* off or that was moved meanwhile
    orders, stops

single_vars == <<links, queued, current, fetcher, catalogue, folders, root, move, removal,
                 trouble, halfway, doubtful, orders, stops>>

Single == {PostOf[u] : u \in Link}
Images(s) == {<<s, 1>>, <<s, 2>>}
Sound(s) == <<s, 3>>
Parts(s) == IF s \in Slideshow THEN Images(s) \cup {Sound(s)} ELSE {<<s, 1>>}
Part == UNION {Parts(s) : s \in Single}
NoLink == "none"
NoPart == <<"none", 0>>
NoFetch == [step |-> "none"]
NoMove == [to |-> "none"]

SinglesTypeOK ==
    /\ \A i \in DOMAIN links : links[i] \in queued
    /\ Len(links) = Cardinality(queued)
    /\ current \in (Link \ queued) \cup {NoLink}
    /\ fetcher.step \in {"none", "take", "start", "fetch"}
    /\ current # NoLink <=> fetcher.step \in {"start", "fetch"}
    /\ catalogue \in [Single -> Part \cup {NoPart}]
    /\ \A d \in Place : DOMAIN folders[d] \subseteq Part
    /\ root \in Place /\ halfway \subseteq Place
    /\ move # NoMove => move.to \in Place \ {root}
    /\ removal \in Single \cup {"none"}
    /\ trouble \subseteq {"apart", "overtaken"} /\ doubtful \subseteq Single

SinglesInit ==
    /\ links = << >> /\ queued = {} /\ current = NoLink /\ fetcher = NoFetch
    /\ catalogue = [s \in Single |-> NoPart]
    /\ folders = [d \in Place |-> << >>]
    /\ root = FirstRoot /\ halfway = {}
    /\ move = NoMove /\ removal = "none"
    /\ trouble = {} /\ doubtful = {} /\ orders = 0 /\ stops = 0
-----------------------------------------------------------------------------
Has(d, n) == n \in DOMAIN folders[d]
With(d, n, state) == [m \in DOMAIN d \cup {n} |-> IF m = n THEN state ELSE d[m]]
Less(d, gone) == [m \in DOMAIN d \ gone |-> d[m]]

Ordered == orders < MaxOrders /\ orders' = orders + 1

\* A link that waits or is being downloaded is not queued again.
EnqueueSingle(u) ==
    /\ Ordered
    /\ IF current = u \/ u \in queued
       THEN UNCHANGED <<links, queued, fetcher>>
       ELSE /\ links' = Append(links, u) /\ queued' = queued \cup {u}
            /\ fetcher' = IF fetcher = NoFetch THEN [step |-> "take"] ELSE fetcher
    /\ UNCHANGED <<current, catalogue, folders, root, move, removal, trouble, halfway,
                   doubtful, stops>>

TakeSingle ==
    /\ fetcher.step = "take"
    /\ IF links = << >>
       THEN /\ fetcher' = NoFetch /\ current' = NoLink
            /\ UNCHANGED <<links, queued>>
       ELSE /\ current' = Head(links) /\ links' = Tail(links)
            /\ queued' = queued \ {Head(links)}
            /\ fetcher' = [step |-> "start"]
    /\ UNCHANGED <<catalogue, folders, root, move, removal, trouble, halfway, doubtful,
                   orders, stops>>

\* The folder of a download is the root at its start.
StartFetch ==
    /\ fetcher.step = "start"
    /\ fetcher' = [step |-> "fetch", root |-> root, got |-> {}, writing |-> NoPart]
    /\ UNCHANGED <<links, queued, current, catalogue, folders, root, move, removal, trouble,
                   halfway, doubtful, orders, stops>>

Fetches(s) == fetcher.step = "fetch" /\ PostOf[current] = s /\ fetcher.writing = NoPart
Wrote(n) == [fetcher EXCEPT !.got = @ \cup {n}, !.writing = NoPart]
Overtaken == trouble' = IF move # NoMove THEN trouble \cup {"overtaken"} ELSE trouble

\* A video comes whole, unless a file of its name is there: it is kept as it is.
FetchVideo(s) ==
    LET n == <<s, 1>>
    IN /\ Fetches(s) /\ s \notin Slideshow /\ n \notin fetcher.got
       /\ folders' = IF Has(fetcher.root, n) THEN folders
                     ELSE [folders EXCEPT ![fetcher.root] = With(@, n, "whole")]
       /\ fetcher' = Wrote(n)
       /\ Overtaken
       /\ UNCHANGED <<links, queued, current, catalogue, root, move, removal, halfway,
                      doubtful, orders, stops>>

\* The images of a slideshow are written one after the other, each over the file of
\* its name, if there is one.
BeginImage(n) ==
    /\ Fetches(n[1]) /\ n[1] \in Slideshow /\ n \in Images(n[1]) \ fetcher.got
    /\ \A m \in 1..n[2] - 1 : <<n[1], m>> \in fetcher.got
    /\ folders' = [folders EXCEPT ![fetcher.root] = With(@, n, "part")]
    /\ fetcher' = [fetcher EXCEPT !.writing = n]
    /\ Overtaken
    /\ UNCHANGED <<links, queued, current, catalogue, root, move, removal, halfway,
                   doubtful, orders, stops>>

EndImage ==
    /\ fetcher.step = "fetch" /\ fetcher.writing # NoPart
    /\ LET n == fetcher.writing
           there == IF Has(fetcher.root, n) THEN {fetcher.root}
                    ELSE {d \in Place : Has(d, n) /\ folders[d][n] = "part"}
       IN /\ folders' = [d \in Place |-> IF d \in there THEN With(folders[d], n, "whole")
                                         ELSE folders[d]]
          /\ fetcher' = Wrote(n)
    /\ Overtaken
    /\ UNCHANGED <<links, queued, current, catalogue, root, move, removal, halfway,
                   doubtful, orders, stops>>

\* The sound comes last.
FetchSound(s) ==
    /\ Fetches(s) /\ s \in Slideshow /\ Images(s) \subseteq fetcher.got
    /\ Sound(s) \notin fetcher.got
    /\ folders' = [folders EXCEPT ![fetcher.root] = With(@, Sound(s), "whole")]
    /\ fetcher' = Wrote(Sound(s))
    /\ Overtaken
    /\ UNCHANGED <<links, queued, current, catalogue, root, move, removal, halfway,
                   doubtful, orders, stops>>

Done == fetcher' = [step |-> "take"] /\ current' = NoLink

\* The post of the image that is being written, if any.
TornVideo == IF fetcher.step = "fetch" /\ fetcher.writing # NoPart THEN {PostOf[current]} ELSE {}

\* A failure leaves what was downloaded, and the row if there was one.
FetchFails ==
    /\ fetcher.step \in {"start", "fetch"} /\ Done
    /\ doubtful' = doubtful \cup TornVideo
    /\ UNCHANGED <<links, queued, catalogue, folders, root, move, removal, trouble, halfway,
                   orders, stops>>

\* A missing sound is not an error; the file shown is the one the link asks for.
Complete(s) == Parts(s) \ {Sound(s)} \subseteq fetcher.got /\ fetcher.writing = NoPart
FileShown(u) == IF PostOf[u] \in Slideshow THEN <<PostOf[u], Shown[u]>> ELSE <<PostOf[u], 1>>

Catalogue ==
    /\ fetcher.step = "fetch" /\ Complete(PostOf[current])
    /\ catalogue' = [catalogue EXCEPT ![PostOf[current]] = FileShown(current)]
    /\ trouble' = IF fetcher.root # root THEN trouble \cup {"overtaken"} ELSE trouble
    /\ Done
    /\ UNCHANGED <<links, queued, folders, root, move, removal, halfway, doubtful, orders,
                   stops>>
-----------------------------------------------------------------------------
\* set_single_videos_root.  A download that is under way leaves its files behind.
SetRoot(to, moving) ==
    /\ Ordered /\ move = NoMove /\ to # root
    /\ IF moving
       THEN /\ move' = [to |-> to, todo |-> DOMAIN folders[root], copy |-> NoPart,
                       copied |-> FALSE]
            /\ halfway' = halfway \cup {to}
            /\ UNCHANGED <<root, trouble>>
       ELSE /\ root' = to /\ UNCHANGED <<move, halfway>>
            /\ trouble' = trouble \cup {"apart"}
    /\ UNCHANGED <<links, queued, current, fetcher, catalogue, folders, removal, doubtful,
                   stops>>

\* Fault: a file of the same name is taken for a copy of an earlier attempt.
SameName(n) == TRUE

\* It is only when it has the same size.
SameSize(n) == folders[root][n] = folders[move.to][n]

Touched(n) == doubtful' = doubtful \cup (TornVideo \cap {n[1]})
Visited(n) ==
    /\ move' = [move EXCEPT !.todo = @ \ {n}, !.copy = NoPart, !.copied = FALSE]
    /\ Touched(n)
Unmoved == {n \in move.todo : Has(root, n)}

DropCopied(n) ==
    /\ move # NoMove /\ move.copy = NoPart
    /\ Has(root, n) /\ Has(move.to, n) /\ SameSize(n)
    /\ folders' = [folders EXCEPT ![root] = Less(@, {n})]
    /\ Visited(n)
    /\ UNCHANGED <<links, queued, current, fetcher, catalogue, root, removal, trouble,
                   halfway, orders, stops>>

\* The move ends at a file of another size, and the setting stays.
StopMove(n) ==
    /\ move # NoMove /\ move.copy = NoPart
    /\ Has(root, n) /\ Has(move.to, n) /\ ~SameSize(n)
    /\ move' = NoMove
    /\ UNCHANGED <<links, queued, current, fetcher, catalogue, folders, root, removal,
                   trouble, halfway, doubtful, orders, stops>>

RenameInto(n) ==
    /\ move # NoMove /\ move.copy = NoPart
    /\ Has(root, n) /\ ~Has(move.to, n)
    /\ folders' = [folders EXCEPT ![root] = Less(@, {n}), ![move.to] = With(@, n, folders[root][n])]
    /\ Visited(n)
    /\ UNCHANGED <<links, queued, current, fetcher, catalogue, root, removal, trouble,
                   halfway, orders, stops>>

\* Another disk: the file is copied, and the original removed afterwards.
BeginCopy(n) ==
    /\ move # NoMove /\ move.copy = NoPart
    /\ Has(root, n) /\ ~Has(move.to, n)
    /\ folders' = [folders EXCEPT ![move.to] = With(@, n, "part")]
    /\ move' = [move EXCEPT !.copy = n]
    /\ UNCHANGED <<links, queued, current, fetcher, catalogue, root, removal, trouble,
                   halfway, doubtful, orders, stops>>

EndCopy ==
    /\ move # NoMove /\ move.copy # NoPart /\ Has(root, move.copy) /\ ~move.copied
    /\ LET n == move.copy
       IN \/ /\ folders' = [folders EXCEPT ![move.to] = With(@, n, folders[root][n])]
             /\ move' = [move EXCEPT !.copied = TRUE]
             /\ Touched(n)
          \/ move' = NoMove /\ UNCHANGED <<folders, doubtful>>
    /\ UNCHANGED <<links, queued, current, fetcher, catalogue, root, removal, trouble,
                   halfway, orders, stops>>

DropOriginal ==
    /\ move # NoMove /\ move.copy # NoPart /\ Has(root, move.copy) /\ move.copied
    /\ folders' = [folders EXCEPT ![root] = Less(@, {move.copy})]
    /\ Visited(move.copy)
    /\ UNCHANGED <<links, queued, current, fetcher, catalogue, root, removal, trouble,
                   halfway, orders, stops>>

\* A file that was deleted while it was copied: the removal fails.
CopyGone ==
    /\ move # NoMove /\ move.copy # NoPart /\ ~Has(root, move.copy)
    /\ move' = NoMove
    /\ UNCHANGED <<links, queued, current, fetcher, catalogue, folders, root, removal,
                   trouble, halfway, doubtful, orders, stops>>

EndMove ==
    /\ move # NoMove /\ move.copy = NoPart /\ Unmoved = {}
    /\ root' = move.to /\ move' = NoMove
    /\ halfway' = halfway \ {move.to}
    /\ trouble' = IF fetcher.step = "fetch" THEN trouble \cup {"overtaken"} ELSE trouble
    /\ UNCHANGED <<links, queued, current, fetcher, catalogue, folders, removal, doubtful,
                   orders, stops>>
-----------------------------------------------------------------------------
\* delete_single_video: the files go to the bin, an error ignored; then the row goes.
FilesOf(s) == IF s \in Slideshow THEN Parts(s) ELSE {catalogue[s]}
CutOffElsewhere(s) ==
    \E d \in Place \ {root}, n \in FilesOf(s) : Has(d, n) /\ folders[d][n] = "part"

RemoveFiles(s) ==
    /\ Ordered /\ removal = "none" /\ catalogue[s] # NoPart
    /\ \E kept \in SUBSET FilesOf(s) :
          folders' = [folders EXCEPT ![root] = Less(@, FilesOf(s) \ kept)]
    /\ removal' = s
    /\ doubtful' = IF (current # NoLink /\ PostOf[current] = s) \/ CutOffElsewhere(s)
                   THEN doubtful \cup {s} ELSE doubtful
    /\ UNCHANGED <<links, queued, current, fetcher, catalogue, root, move, trouble,
                   halfway, stops>>

RemoveRow ==
    /\ removal # "none" /\ removal' = "none"
    /\ catalogue' = [catalogue EXCEPT ![removal] = NoPart]
    /\ UNCHANGED <<links, queued, current, fetcher, folders, root, move, trouble, halfway,
                   doubtful, orders, stops>>

StopProcess ==
    /\ stops < MaxStops /\ stops' = stops + 1
    /\ links' = << >> /\ queued' = {} /\ current' = NoLink /\ fetcher' = NoFetch
    /\ move' = NoMove /\ removal' = "none"
    /\ doubtful' = doubtful \cup ({removal} \cap Single) \cup TornVideo
    /\ UNCHANGED <<catalogue, folders, root, trouble, halfway, orders>>
-----------------------------------------------------------------------------
SinglesNext ==
    \/ \E u \in Link : EnqueueSingle(u)
    \/ TakeSingle \/ StartFetch \/ EndImage \/ FetchFails \/ Catalogue
    \/ \E s \in Single : FetchVideo(s) \/ FetchSound(s)
    \/ \E n \in Part : BeginImage(n) \/ DropCopied(n) \/ StopMove(n) \/ RenameInto(n)
                       \/ BeginCopy(n)
    \/ \E d \in Place, b \in BOOLEAN : SetRoot(d, b)
    \/ EndCopy \/ DropOriginal \/ CopyGone \/ EndMove
    \/ \E s \in Single : RemoveFiles(s)
    \/ RemoveRow \/ StopProcess

SinglesSpec == SinglesInit /\ [][SinglesNext]_single_vars

\* A row names its file only; the window looks for it in the root of the moment.
LooksIn == root

Listed == {s \in Single : catalogue[s] # NoPart} \ ({removal} \cup doubtful \cup TornVideo)

\* The file that a row names is whole in some folder, whatever moves were stopped,
\* repeated or cut off by the end of the process and whatever was downloaded meanwhile,
\* unless its post was deleted or moved during its download, or while a copy of it that
\* was cut off lay in another folder, which a later download takes for the video, or a
\* second download that writes over it was cut off.  And it is in the root, where the window looks for it,
\* once no move is under way or was left halfway, unless the user set the root and left
\* the files, or set it while a post was being downloaded.
SinglesAreThere ==
    \A s \in Listed :
        LET whole == {d \in Place : Has(d, catalogue[s]) /\ folders[d][catalogue[s]] = "whole"}
        IN whole # {} /\ (trouble = {} /\ halfway = {} => LooksIn \in whole)
=============================================================================
