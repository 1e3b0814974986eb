------------------------------- MODULE Images --------------------------------
(* The image store (lxd/daemon_images.go, lxd/images.go, lxd/db/images.go):  *)
(* downloads, which wait for one another on channels, uploads and published  *)
(* containers, deletions, the periodic refresh and pruning, and aliases. An  *)
(* image is a row, a file in images/ and a volume of the storage; requests   *)
(* change them one after the other. Images are numbered in the order the     *)
(* server publishes them under its alias.                                    *)
EXTENDS Naturals, FiniteSets, Functions

CONSTANTS Threads, Aliases,
          Kinds,          \* kinds of requests
          Protocols,      \* how a server is asked: "lxd", "simplestreams"; "none" if not
          Versions,       \* fingerprints of the images the server publishes
          HasVolumes,     \* the storage unpacks images (all but dir)
          MaxRequests,    \* requests begun, and failures before the last of them
          MaxHarm, MaxPublished

ASSUME ImagesAssumption ==
  /\ IsFiniteSet(Threads) /\ HasVolumes \in BOOLEAN
  /\ MaxPublished \in Nat \ {0} /\ Versions \subseteq Nat \ {0} /\ 1..MaxPublished \subseteq Versions

NoImage == 0
NoRow == [id |-> 0, auto |-> FALSE, cached |-> FALSE, source |-> "none"]

VARIABLES rows,           \* images table
          files,          \* images/<fingerprint>: "none", "partial", "torn", "full"
          volumes,        \* fingerprints the storage has a volume for
          aliases,        \* images_aliases: the image's id, or 0
          downloading,    \* imagesDownloading: the channel of a fingerprint, or 0
          closed,         \* channels that are closed
          ids,            \* rows inserted so far
          server,         \* the image the server's alias stands for
          cache, saved,   \* imageStreamCache in memory and in simplestreams.yaml
          threads, served, harm,
          mixed,          \* fingerprints two requests have worked on at once, or two
                          \* downloads have registered, or that have arrived between a
                          \* download's check and its start
          kept,           \* fingerprints whose volume could not be deleted
          broken          \* fingerprints a crash, a failed deletion or a failed upload
                          \* has left in parts; 0 after a restart from an old cache

vars == <<rows, files, volumes, aliases, downloading, closed, ids, server,
          cache, saved, threads, served, harm, mixed, kept, broken>>
stored == <<rows, files, volumes, aliases, ids>>
ghosts == <<mixed, kept, broken>>
streams == <<server, cache, saved>>
queue == <<downloading, closed>>

(* The state of a request: what it is about, where it is, and what its open  *)
(* file has met.                                                             *)
Idle == [kind |-> "none", at |-> "idle", fp |-> NoImage, via |-> "none", old |-> NoImage,
         id |-> 0, new |-> 0, chan |-> 0, linked |-> FALSE, truncated |-> FALSE, tries |-> 0, late |-> {},
         cached |-> FALSE]

(* The image is in the database.                                             *)
ImageGet(fp) == rows[fp].id # 0

(* Where a request changes its image's row, file or volume.                  *)
Working == {"leftover", "open", "fetch", "store", "insert", "cleanup",
            "upload", "import", "add", "volume", "file", "row"}

(* And where a download is before it gives up its channel.                   *)
Leaving == {"record", "unlock", "failed"}

Goto(t, at) == threads' = [threads EXCEPT ![t].at = at]
Ends(t) == threads' = [threads EXCEPT ![t] = Idle]
Noting(new) ==
  mixed' = mixed \cup {fp \in Versions : Cardinality({t \in Threads : new[t].fp = fp /\ new[t].at \in Working}) > 1}
-----------------------------------------------------------------------------
(* What the periodic tasks pick.                                             *)
ImagesGetExpired(fp) == ImageGet(fp) /\ rows[fp].cached
AutoUpdates(fp) == ImageGet(fp) /\ rows[fp].auto

(* A request: a container's image ("launch"), an image copied from a server  *)
(* ("copy", which the client tries on each of its addresses) or a URL, the   *)
(* refresh of an image, an upload, a published container, a deletion. One    *)
(* goroutine refreshes the images, one after the other.                      *)
Begin(t, kind, fp, via) ==
  /\ threads[t].at = "idle" /\ served + harm < MaxRequests
  /\ kind = "prune" => ImagesGetExpired(fp)
  /\ kind = "refresh" => AutoUpdates(fp) /\ \A u \in Threads : threads[u].kind # "refresh"
  /\ kind \in {"launch", "copy"} <=> via # "none"
  /\ via # "none" => fp = server
  /\ threads' = [threads EXCEPT ![t] =
       [Idle EXCEPT !.kind = kind, !.via = via,
                    !.fp = IF kind \in {"launch", "copy", "refresh"} THEN NoImage ELSE fp,
                    !.old = IF kind = "refresh" THEN fp ELSE NoImage,
                    !.id = IF kind = "refresh" THEN rows[fp].id ELSE 0,
                    !.cached = (kind = "refresh" /\ rows[fp].cached),
                    !.tries = IF kind = "copy" THEN 1 ELSE 0,
                    !.at = CASE kind \in {"launch", "copy"} -> "resolve"
                             [] kind = "refresh" -> "source"
                             [] kind = "url" -> "check"
                             [] kind = "upload" -> "upload"
                             [] kind = "publish" -> "publish"
                             [] OTHER -> "find"]]
  /\ served' = served + 1
  /\ Noting(threads')
  /\ UNCHANGED <<stored, streams, queue, harm, kept, broken>>

(* Mutant: whatever the protocol was.                                        *)
SourceWithoutProtocol(t) ==
  /\ threads[t].at = "source"
  /\ threads' = [threads EXCEPT ![t].at = "resolve", ![t].via = "simplestreams"]
  /\ UNCHANGED <<stored, streams, queue, served, harm, ghosts>>

(* autoUpdateImage starts from the image's source.                           *)
ImageSourceGet(t) ==
  /\ threads[t].at = "source"
  /\ LET row == rows[threads[t].old] IN
     IF row.id = threads[t].id /\ row.source # "none"
     THEN threads' = [threads EXCEPT ![t].at = "resolve", ![t].via = row.source] ELSE Ends(t)
  /\ UNCHANGED <<stored, streams, queue, served, harm, ghosts>>

(* A failing request: a copy is tried again on another address of the server *)
(* (client.tryCopyImage).                                                    *)
Failing(t) ==
  [threads EXCEPT ![t] = IF threads[t].tries > 0
                         THEN [Idle EXCEPT !.kind = "copy", !.at = "resolve", !.via = threads[t].via] ELSE Idle]

Resolved(t, fp) == threads' = [threads EXCEPT ![t].fp = fp, ![t].at = "check"]

(* The alias is asked of a LXD server.                                       *)
ResolveLXD(t) ==
  /\ threads[t].at = "resolve" /\ threads[t].via = "lxd"
  /\ Resolved(t, server)
  /\ UNCHANGED <<stored, streams, queue, served, harm, ghosts>>

(* Or looked up in the cache of a simplestreams server, which holds for an   *)
(* hour: refreshed when it has expired, used longer when that fails.         *)
ResolveStreams(t) ==
  /\ threads[t].at = "resolve" /\ threads[t].via = "simplestreams"
  /\ \/ /\ cache.fp # NoImage /\ ~cache.expired
        /\ Resolved(t, cache.fp)
        /\ UNCHANGED <<cache, saved, harm>>
     \/ /\ cache' = [fp |-> server, expired |-> FALSE]
        /\ \/ saved' = server /\ harm' = harm
           \/ saved' = saved /\ harm < MaxHarm /\ harm' = harm + 1   \* imageSaveStreamCache
        /\ Resolved(t, server)
     \/ /\ harm < MaxHarm
        /\ harm' = harm + 1
        /\ cache' = [cache EXCEPT !.expired = FALSE]
        /\ IF cache.fp # NoImage THEN Resolved(t, cache.fp) ELSE threads' = Failing(t)
        /\ UNCHANGED saved
  /\ UNCHANGED <<stored, queue, server, served, ghosts>>

(* What follows a download: nothing for a container, ImageUpdate for a copy, *)
(* and for a refresh the replacement of the old image if it has changed.     *)
Downloaded(t) ==
  CASE threads[t].kind = "launch" -> Idle
    [] threads[t].kind \in {"copy", "url"} -> [threads[t] EXCEPT !.at = "update", !.chan = 0, !.linked = FALSE]
    [] OTHER -> IF threads[t].fp = threads[t].old THEN Idle
                ELSE [threads[t] EXCEPT !.at = "lookup", !.chan = 0, !.linked = FALSE]

(* The image may be there already.                                           *)
CheckExists(t) ==
  /\ threads[t].at = "check"
  /\ threads' = [threads EXCEPT ![t] = IF ImageGet(threads[t].fp) THEN Downloaded(t)
                                       ELSE [threads[t] EXCEPT !.at = "queue"]]
  /\ UNCHANGED <<stored, streams, queue, served, harm, ghosts>>

(* Or somebody else's download is under way.                                 *)
CheckDownloading(t) ==
  /\ threads[t].at = "queue"
  /\ threads' = [threads EXCEPT ![t].at = IF downloading[threads[t].fp] # 0 THEN "wait" ELSE "register",
                                ![t].chan = downloading[threads[t].fp]]
  /\ UNCHANGED <<stored, streams, queue, served, harm, ghosts>>

Woken(t) ==
  /\ threads[t].at = "wait" /\ threads[t].chan \in closed
  /\ threads' = [threads EXCEPT ![t] = IF ImageGet(threads[t].fp) THEN Downloaded(t)
                                       ELSE [threads[t] EXCEPT !.at = "register", !.chan = 0]]
  /\ closed' = {c \in closed : \E u \in Threads \ {t} : threads[u].at = "wait" /\ threads[u].chan = c}
  /\ UNCHANGED <<stored, streams, downloading, served, harm, ghosts>>

(* A channel is known by those who wait on it and by the map.                *)
NewChannel ==
  CHOOSE c \in 1..(2 * Cardinality(Threads) + 1) :
    c \notin Range(downloading) /\ \A t \in Threads : threads[t].chan # c

(* The download is registered whoever else has done so since.                *)
Register(t) ==
  /\ threads[t].at = "register"
  /\ downloading' = [downloading EXCEPT ![threads[t].fp] = NewChannel]
  /\ Goto(t, "leftover")
  /\ IF ImageGet(threads[t].fp) \/ \E u \in Threads : threads[u].fp = threads[t].fp /\ threads[u].at \in Leaving
     THEN mixed' = mixed \cup {threads[t].fp} ELSE Noting(threads')
  /\ UNCHANGED <<stored, streams, closed, served, harm, kept, broken>>

CleanLeftover(t) ==
  /\ threads[t].at = "leftover"
  /\ volumes' = IF files[threads[t].fp] # "none" THEN volumes \ {threads[t].fp} ELSE volumes
  /\ Goto(t, "open")
  /\ UNCHANGED <<rows, files, aliases, ids, streams, queue, served, harm, ghosts>>

(* os.Create truncates the file, whoever is writing it.                      *)
OpenFile(t) ==
  /\ threads[t].at = "open"
  /\ files' = [files EXCEPT ![threads[t].fp] = "partial"]
  /\ threads' = [u \in Threads |->
       IF u = t THEN [threads[t] EXCEPT !.at = "fetch", !.linked = TRUE, !.truncated = FALSE]
       ELSE IF threads[u].fp = threads[t].fp /\ threads[u].linked
            THEN [threads[u] EXCEPT !.truncated = TRUE] ELSE threads[u]]
  /\ UNCHANGED <<rows, volumes, aliases, ids, streams, queue, served, harm, ghosts>>

(* The image arrives whole, or it does not match its fingerprint, or it does *)
(* not arrive at all.                                                        *)
GetImageFile(t) ==
  /\ threads[t].at = "fetch"
  /\ \/ /\ files' = IF threads[t].linked
                    THEN [files EXCEPT ![threads[t].fp] = IF threads[t].truncated /\ @ # "full" THEN "torn" ELSE "full"]
                    ELSE files
        /\ Goto(t, "store")
        /\ harm' = harm
     \/ /\ harm < MaxHarm
        /\ harm' = harm + 1
        /\ Goto(t, "cleanup")
        /\ files' = files
  /\ UNCHANGED <<rows, volumes, aliases, ids, streams, queue, served, ghosts>>

(* Storage.ImageCreate unpacks the file into a new volume.                   *)
CanStore(fp) == ~HasVolumes \/ (fp \notin volumes /\ files[fp] = "full")
Store(t, next, failed) ==
  \/ /\ CanStore(threads[t].fp)
     /\ volumes' = volumes \cup {threads[t].fp}
     /\ Goto(t, next)
     /\ harm' = harm
  \/ /\ ~CanStore(threads[t].fp) \/ harm < MaxHarm
     /\ harm' = IF CanStore(threads[t].fp) THEN harm + 1 ELSE harm
     /\ threads' = [threads EXCEPT ![t] = failed]
     /\ volumes' = volumes

ImageCreate(t) ==
  /\ threads[t].at = "store"
  /\ Store(t, "insert", [threads[t] EXCEPT !.at = "cleanup"])
  /\ UNCHANGED <<rows, files, aliases, ids, streams, queue, served, ghosts>>

(* A fingerprint is unique in the table; from here nothing is undone.        *)
ImageInsert(fp, row) ==
  /\ ~ImageGet(fp)
  /\ ids' = ids + 1
  /\ rows' = [rows EXCEPT ![fp] = [row EXCEPT !.id = ids']]

InsertImage(t) ==
  /\ threads[t].at = "insert"
  /\ \/ /\ ImageInsert(threads[t].fp, [NoRow EXCEPT !.auto = (threads[t].via # "none")])
        /\ Goto(t, "record")
     \/ /\ ImageGet(threads[t].fp)
        /\ Goto(t, "cleanup")
        /\ UNCHANGED <<rows, ids>>
  /\ UNCHANGED <<files, volumes, aliases, streams, queue, served, harm, ghosts>>

(* ImageSourceInsert and ImageLastAccessInit, on the row as it is by then.   *)
RecordSource(t) ==
  /\ threads[t].at = "record"
  /\ rows' = IF ImageGet(threads[t].fp)
             THEN [rows EXCEPT ![threads[t].fp].source = threads[t].via,
                               ![threads[t].fp].cached = @ \/ threads[t].kind = "launch"]
             ELSE rows
  /\ Goto(t, IF threads[t].via # "none" /\ ~ImageGet(threads[t].fp) THEN "failed" ELSE "unlock")
  /\ UNCHANGED <<files, volumes, aliases, ids, streams, queue, served, harm, ghosts>>

Unlinked(fp) == [u \in Threads |-> IF threads[u].fp = fp THEN [threads[u] EXCEPT !.linked = FALSE] ELSE threads[u]]

(* Mutant: the file stays behind.                                            *)
CleanupVolume(t) ==
  /\ threads[t].at = "cleanup"
  /\ volumes' = volumes \ {threads[t].fp}
  /\ Goto(t, "failed")
  /\ UNCHANGED <<rows, files, aliases, ids, streams, queue, served, harm, ghosts>>

Cleanup(t) ==
  /\ threads[t].at = "cleanup"
  /\ files' = [files EXCEPT ![threads[t].fp] = "none"]
  /\ volumes' = volumes \ {threads[t].fp}
  /\ threads' = [Unlinked(threads[t].fp) EXCEPT ![t].at = "failed"]
  /\ UNCHANGED <<rows, aliases, ids, streams, queue, served, harm, ghosts>>

(* Mutant: the waiting requests are woken before the row is there.           *)
WakeEarly(t) ==
  /\ threads[t].at \in {"unlock", "failed"}
  /\ downloading' = [downloading EXCEPT ![threads[t].fp] = 0]
  /\ threads' = IF threads[t].at = "failed" THEN Failing(t) ELSE [threads EXCEPT ![t] = Downloaded(t)]
  /\ UNCHANGED <<stored, streams, closed, served, harm, ghosts>>

Closing(c) == {k \in closed \cup {c} : \E t \in Threads : threads[t].at = "wait" /\ threads[t].chan = k}

(* The channel found under the fingerprint is closed and removed.            *)
Unlock(t) ==
  /\ threads[t].at \in {"unlock", "failed"}
  /\ closed' = Closing(downloading[threads[t].fp])
  /\ downloading' = [downloading EXCEPT ![threads[t].fp] = 0]
  /\ threads' = IF threads[t].at = "failed" THEN Failing(t) ELSE [threads EXCEPT ![t] = Downloaded(t)]
  /\ UNCHANGED <<stored, streams, served, harm, ghosts>>

(* ImageUpdate writes the request's own properties.                          *)
ImageUpdate(t) ==
  /\ IF ImageGet(threads[t].fp)
     THEN \E auto \in BOOLEAN : rows' = [rows EXCEPT ![threads[t].fp].auto = auto] /\ Ends(t)
     ELSE rows' = rows /\ threads' = Failing(t)
  /\ UNCHANGED <<files, volumes, aliases, ids, streams, queue, served, harm, ghosts>>

imgPostRemoteInfo(t) == threads[t].at = "update" /\ threads[t].kind = "copy" /\ ImageUpdate(t)
imgPostURLInfo(t) == threads[t].at = "update" /\ threads[t].kind = "url" /\ ImageUpdate(t)
-----------------------------------------------------------------------------
(* The rest of autoUpdateImage: find the new image, hand on the use of the   *)
(* old one and its aliases, and delete it.                                   *)
LookupNew(t) ==
  /\ threads[t].at = "lookup"
  /\ threads' = [threads EXCEPT ![t] = IF ImageGet(@.fp) THEN [@ EXCEPT !.at = "access", !.new = rows[threads[t].fp].id] ELSE Idle]
  /\ UNCHANGED <<stored, streams, queue, served, harm, ghosts>>

LastAccess(t) ==
  /\ threads[t].at = "access"
  /\ rows' = IF ImageGet(threads[t].fp) /\ threads[t].cached
             THEN [rows EXCEPT ![threads[t].fp].cached = TRUE] ELSE rows
  /\ Goto(t, "move")
  /\ UNCHANGED <<files, volumes, aliases, ids, streams, queue, served, harm, ghosts>>

(* The aliases of a row that has taken the place of the one to be replaced.  *)
AliasesOfNext(t) ==
  {a \in Aliases : aliases[a] \notin {0, threads[t].id} /\ aliases[a] = rows[threads[t].old].id}

ImageAliasesMove(t) ==
  /\ threads[t].at = "move"
  /\ IF rows[threads[t].fp].id = threads[t].new \/ (\A a \in Aliases : aliases[a] # threads[t].id)
     THEN /\ aliases' = [a \in Aliases |-> IF aliases[a] = threads[t].id THEN threads[t].new ELSE aliases[a]]
          /\ threads' = [threads EXCEPT ![t] = [@ EXCEPT !.at = "find", !.fp = threads[t].old, !.new = 0,
                                                            !.late = AliasesOfNext(t)]]
     ELSE aliases' = aliases /\ Ends(t)                 \* the foreign key fails
  /\ UNCHANGED <<rows, files, volumes, ids, streams, queue, served, harm, ghosts>>

(* doDeleteImage: the volume, the files and at last the row.                 *)
FindImage(t) ==
  /\ threads[t].at = "find"
  /\ threads' = [threads EXCEPT ![t] = IF ImageGet(@.fp) THEN [@ EXCEPT !.at = "volume", !.id = rows[threads[t].fp].id] ELSE Idle]
  /\ Noting(threads')
  /\ UNCHANGED <<stored, streams, queue, served, harm, kept, broken>>

(* A volume that cannot be deleted is logged.                                *)
DeleteVolume(t) ==
  /\ threads[t].at = "volume"
  /\ \/ volumes' = volumes \ {threads[t].fp} /\ UNCHANGED <<harm, kept, broken>>
     \/ /\ threads[t].fp \in volumes /\ harm < MaxHarm
        /\ harm' = harm + 1
        /\ broken' = broken \cup {threads[t].fp} /\ kept' = kept \cup {threads[t].fp}
        /\ volumes' = volumes
  /\ Goto(t, "file")
  /\ UNCHANGED <<rows, files, aliases, ids, streams, queue, served, mixed>>

DeleteFiles(t) ==
  /\ threads[t].at = "file"
  /\ files' = [files EXCEPT ![threads[t].fp] = "none"]
  /\ threads' = [Unlinked(threads[t].fp) EXCEPT ![t].at = "row"]
  /\ UNCHANGED <<rows, volumes, aliases, ids, streams, queue, served, harm, ghosts>>

(* The row goes by its id, and with it the aliases and the source.           *)
ImageDelete(t) ==
  /\ threads[t].at = "row"
  /\ rows' = IF rows[threads[t].fp].id = threads[t].id
             THEN [rows EXCEPT ![threads[t].fp] = NoRow] ELSE rows
  /\ aliases' = [a \in Aliases |-> IF aliases[a] = threads[t].id THEN 0 ELSE aliases[a]]
  /\ Ends(t)
  /\ UNCHANGED <<files, volumes, ids, streams, queue, served, harm, ghosts>>
-----------------------------------------------------------------------------
(* imgPostContInfo holds imagePublishLock and looks for the image first.     *)
PublishCheck(t) ==
  /\ threads[t].at = "publish"
  /\ \A u \in Threads \ {t} : threads[u].kind = "publish" => threads[u].at = "publish"
  /\ threads' = [threads EXCEPT ![t] = IF ImageGet(@.fp) THEN Idle ELSE [@ EXCEPT !.at = "upload"]]
  /\ Noting(threads')
  /\ UNCHANGED <<stored, streams, queue, served, harm, kept, broken>>

(* getImgPostInfo: the uploaded file takes its place.                        *)
MoveUpload(t) ==
  /\ threads[t].at = "upload"
  /\ files' = [files EXCEPT ![threads[t].fp] = "full"]
  /\ threads' = [Unlinked(threads[t].fp) EXCEPT ![t].at = "import"]
  /\ UNCHANGED <<rows, volumes, aliases, ids, streams, queue, served, harm, ghosts>>

(* What an upload that fails has put in place stays.                         *)
ImportImage(t) ==
  /\ threads[t].at = "import"
  /\ Store(t, "add", Idle)
  /\ broken' = IF threads'[t] = Idle THEN broken \cup {threads[t].fp} ELSE broken
  /\ UNCHANGED <<rows, files, aliases, ids, streams, queue, served, mixed, kept>>

AddImage(t) ==
  /\ threads[t].at = "add"
  /\ \/ ImageInsert(threads[t].fp, NoRow)
     \/ ImageGet(threads[t].fp) /\ UNCHANGED <<rows, ids>>
  /\ Ends(t)
  /\ UNCHANGED <<files, volumes, aliases, streams, queue, served, harm, ghosts>>
-----------------------------------------------------------------------------
Retargeted(a) == threads' = [t \in Threads |-> IF threads[t].kind = "refresh"
                                               THEN [threads[t] EXCEPT !.late = @ \cup {a}] ELSE threads[t]]

(* aliasesPost and aliasPut.                                                 *)
SetAlias(a, fp) ==
  /\ ImageGet(fp) /\ served + harm < MaxRequests
  /\ served' = served + 1
  /\ aliases' = [aliases EXCEPT ![a] = rows[fp].id]
  /\ Retargeted(a)
  /\ UNCHANGED <<rows, files, volumes, ids, streams, queue, harm, ghosts>>

(* aliasPost: the new name is free.                                          *)
RenameAlias(a, b) ==
  /\ aliases[a] # 0 /\ aliases[b] = 0 /\ served + harm < MaxRequests
  /\ served' = served + 1
  /\ aliases' = [aliases EXCEPT ![a] = 0, ![b] = aliases[a]]
  /\ Retargeted(b)
  /\ UNCHANGED <<rows, files, volumes, ids, streams, queue, harm, ghosts>>

aliasDelete(a) ==
  /\ aliases[a] # 0 /\ served + harm < MaxRequests
  /\ served' = served + 1
  /\ aliases' = [aliases EXCEPT ![a] = 0]
  /\ UNCHANGED <<rows, files, volumes, ids, streams, queue, threads, harm, ghosts>>

imagePut(fp) ==
  /\ ImageGet(fp) /\ served + harm < MaxRequests
  /\ served' = served + 1
  /\ rows' = [rows EXCEPT ![fp].auto = ~@]
  /\ UNCHANGED <<files, volumes, aliases, ids, streams, queue, threads, harm, ghosts>>

(* The server publishes a new image.                                         *)
Publish ==
  /\ server < MaxPublished
  /\ server' = server + 1
  /\ UNCHANGED <<stored, queue, cache, saved, threads, served, harm, ghosts>>

(* The daemon ends in the middle of things and reads the saved cache, whose  *)
(* entries carry no expiry (imageLoadStreamCache).                           *)
Restart ==
  /\ harm < MaxHarm
  /\ harm' = harm + 1
  /\ threads' = [t \in Threads |-> Idle]
  /\ downloading' = [fp \in Versions |-> 0]
  /\ closed' = {}
  /\ cache' = [fp |-> saved, expired |-> saved # NoImage]
  /\ broken' = broken \cup {threads[t].fp : t \in {u \in Threads : threads[u].at \in Working}}
                       \cup (IF saved # cache.fp THEN {NoImage} ELSE {})
  /\ UNCHANGED <<stored, server, saved, served, mixed, kept>>

Init ==
  /\ rows = [fp \in Versions |-> NoRow]
  /\ files = [fp \in Versions |-> "none"]
  /\ volumes = {}
  /\ aliases = [a \in Aliases |-> 0]
  /\ downloading = [fp \in Versions |-> 0] /\ closed = {}
  /\ ids = 0 /\ server = 1
  /\ cache = [fp |-> NoImage, expired |-> FALSE] /\ saved = NoImage
  /\ threads = [t \in Threads |-> Idle]
  /\ served = 0 /\ harm = 0 /\ mixed = {} /\ kept = {} /\ broken = {}

ThreadStep(t) ==
  \/ ImageSourceGet(t) \/ ResolveLXD(t) \/ ResolveStreams(t) \/ CheckExists(t) \/ CheckDownloading(t)
  \/ Woken(t) \/ Register(t) \/ CleanLeftover(t) \/ OpenFile(t) \/ GetImageFile(t) \/ ImageCreate(t)
  \/ InsertImage(t) \/ RecordSource(t) \/ Cleanup(t) \/ Unlock(t) \/ imgPostRemoteInfo(t) \/ imgPostURLInfo(t)
  \/ LookupNew(t) \/ LastAccess(t) \/ ImageAliasesMove(t)
  \/ FindImage(t) \/ DeleteVolume(t) \/ DeleteFiles(t) \/ ImageDelete(t)
  \/ PublishCheck(t) \/ MoveUpload(t) \/ ImportImage(t) \/ AddImage(t)

Next ==
  \/ \E t \in Threads, kind \in Kinds, fp \in Versions, via \in Protocols : Begin(t, kind, fp, via)
  \/ \E t \in Threads : ThreadStep(t)
  \/ \E a \in Aliases, fp \in Versions : SetAlias(a, fp)
  \/ \E a, b \in Aliases : RenameAlias(a, b)
  \/ \E a \in Aliases : aliasDelete(a)
  \/ \E fp \in Versions : imagePut(fp)
  \/ Publish \/ Restart

(* Each request has its own goroutine.                                       *)
Spec == Init /\ [][Next]_vars
-----------------------------------------------------------------------------
(* Every variable has its type, and a registered channel is open: Unlock     *)
(* closes it, and closing a channel twice ends the daemon.                   *)
TypeOK ==
  /\ rows \in [Versions -> [id : 0..ids, auto : BOOLEAN, cached : BOOLEAN, source : Protocols \cup {"none"}]]
  /\ files \in [Versions -> {"none", "partial", "torn", "full"}]
  /\ volumes \subseteq Versions
  /\ aliases \in [Aliases -> 0..ids]
  /\ downloading \in [Versions -> Nat]
  /\ \A fp \in Versions : downloading[fp] \notin closed
  /\ \A t \in Threads : threads[t].fp \in Versions \cup {NoImage}
  /\ mixed \subseteq Versions /\ kept \subseteq Versions /\ broken \subseteq Versions \cup {NoImage}

Busy(fp) == \E t \in Threads : threads[t].fp = fp /\ threads[t].at \in Working

(* An image in the database can be used: its file is complete and unpacked,  *)
(* whatever downloads, uploads and deletions before have failed, unless two  *)
(* of them met or a crash cut one short (images.go doDeleteImage, ImageDownload). *)
RowHasFiles ==
  \A fp \in Versions \ (mixed \cup broken) :
     (ImageGet(fp) /\ ~Busy(fp)) => (files[fp] = "full" /\ fp \in volumes)

(* A download or a deletion that has ended, well or not, has left no file    *)
(* and no volume without a row (ImageDownload's cleanup).                    *)
NothingLeft ==
  \A fp \in Versions \ (mixed \cup broken) :
     (~ImageGet(fp) /\ ~Busy(fp)) => (files[fp] = "none" /\ fp \notin volumes)

(* What an earlier attempt has left, after a crash too, does not make a      *)
(* later download fail: its volume is there to be made, unless deleting the  *)
(* old one failed (ImageDownload, "Cleanup any leftover from a past attempt"). *)
AttemptsAnew ==
  \A t \in Threads :
     (threads[t].at = "store" /\ threads[t].fp \notin mixed \cup kept) => CanStore(threads[t].fp)

(* Who waits for another download will be woken: the channel is closed, or   *)
(* it is registered and the download it stands for is at work, unless two    *)
(* downloads of the image have run at once.                                  *)
WaiterHasWaker ==
  \A t \in Threads :
     (threads[t].at = "wait" /\ threads[t].fp \notin mixed) =>
       \/ threads[t].chan \in closed
       \/ /\ downloading[threads[t].fp] = threads[t].chan
          /\ \E u \in Threads : threads[u].fp = threads[t].fp
                              /\ threads[u].at \in (Working \cup Leaving)

(* The periodic refresh replaces an image by a newer one, from whatever      *)
(* cache it resolved the alias, unless the cache was read back from a file   *)
(* that could not be written (autoUpdateImage, imageSaveStreamCache).        *)
UpdatesForward ==
  \A t \in Threads : (threads[t].at = "move" /\ NoImage \notin broken) => threads[t].fp > threads[t].old

(* A refresh loses no alias of the image it replaces but one set after the   *)
(* aliases were moved, or given to the image after it had been deleted and   *)
(* added again; aliases go with the image only when it is deleted.           *)
AliasesKept ==
  \A a \in Aliases : (aliases[a] # 0 /\ aliases'[a] = 0) =>
    \/ served' # served
    \/ \E t \in Threads : /\ threads[t].at = "row" /\ threads[t].id = aliases[a]
                          /\ threads[t].kind # "refresh" \/ a \in threads[t].late

(* Image rows, files and volumes come and go together, and what a failed     *)
(* attempt leaves does not stand in the way of the next.                     *)
ImagesInv == TypeOK /\ RowHasFiles /\ NothingLeft /\ AttemptsAnew

(* A refresh only goes forward and takes the aliases of the old image along. *)
RefreshSafe == [][UpdatesForward' /\ AliasesKept]_vars
=============================================================================
