---------------------------- MODULE ImagesProofs -----------------------------
(* Proofs about Images: rows, files and volumes come and go together, who    *)
(* waits for another download is woken, and a refresh goes forward and takes *)
(* the aliases along, for any number of requests at once, of images and of   *)
(* aliases.                                                                  *)
(*                                                                           *)
(* The argument is that a fingerprint outside `mixed` has one request at     *)
(* work on it at most, and one download between its registration and the     *)
(* end, so that the row, the file and the volume are what that request has   *)
(* made of them so far.                                                      *)
EXTENDS Images, FiniteSetTheorems, TLAPS

\* Where a download is registered.
Registered == {"leftover", "open", "fetch", "store", "insert", "cleanup"} \cup Leaving
\* Where a request is about to download an image, or does.
Fetching == Registered \cup {"resolve", "check", "queue", "wait", "register"}
\* Where the request has resolved or been told its fingerprint.
Located == Working \cup Leaving \cup
           {"check", "queue", "wait", "register", "update", "lookup", "access", "move", "find", "publish"}
Places == Located \cup {"idle", "source", "resolve"}

ThreadRecord ==
  [kind : Kinds \cup {"none", "copy"}, at : Places, fp : Versions \cup {NoImage}, via : Protocols \cup {"none"},
   old : Versions \cup {NoImage}, id : Nat, new : Nat, chan : Nat, linked : BOOLEAN, truncated : BOOLEAN,
   tries : {0, 1}, late : SUBSET Aliases, cached : BOOLEAN]
RowRecord == [id : Nat, auto : BOOLEAN, cached : BOOLEAN, source : Protocols \cup {"none"}]

Types ==
  /\ rows \in [Versions -> RowRecord]
  /\ files \in [Versions -> {"none", "partial", "torn", "full"}]
  /\ volumes \subseteq Versions
  /\ aliases \in [Aliases -> Nat]
  /\ downloading \in [Versions -> Nat]
  /\ ids \in Nat /\ server \in 1..MaxPublished /\ served \in Nat /\ harm \in Nat
  /\ cache \in [fp : Versions \cup {NoImage}, expired : BOOLEAN] /\ saved \in Versions \cup {NoImage}
  /\ threads \in [Threads -> ThreadRecord]
  /\ mixed \subseteq Versions /\ kept \subseteq broken /\ kept \subseteq Versions /\ broken \subseteq Versions \cup {NoImage}

\* A channel in the map is open and a download's; a closed one is waited for.
ChannelInv ==
  /\ \A fp \in Versions : downloading[fp] # 0 => \E t \in Threads : threads[t].fp = fp /\ threads[t].at \in Registered
  /\ \A fp, g \in Versions : downloading[fp] # 0 /\ downloading[fp] = downloading[g] => fp = g
  /\ \A t \in Threads : threads[t].at = "wait" => threads[t].chan # 0
  /\ \A c \in closed : \E t \in Threads : threads[t].at = "wait" /\ threads[t].chan = c
  /\ \A fp \in Versions : downloading[fp] \notin closed

\* One request works on a fingerprint, one download of it is registered, and who
\* waits for it waits on its channel.
AloneInv ==
  \A t \in Threads : threads[t].fp \in Versions \ mixed =>
    /\ \A u \in Threads : threads[u].fp = threads[t].fp =>
          /\ threads[t].at \in Working /\ threads[u].at \in Working => t = u
          /\ threads[t].at \in Registered /\ threads[u].at \in Registered => t = u
    /\ threads[t].at \in Registered => downloading[threads[t].fp] # 0
    /\ threads[t].at = "wait" => threads[t].chan \in closed \/ threads[t].chan = downloading[threads[t].fp]

\* What the request at work has made of its image so far.
Progress(t) ==
  LET fp == threads[t].fp
      at == threads[t].at IN
  /\ at \in {"leftover", "open", "fetch", "store", "insert", "cleanup"} => ~ImageGet(fp)
  /\ at = "fetch" => threads[t].linked /\ ~threads[t].truncated
  /\ at \in {"store", "insert", "import", "add"} => files[fp] = "full"
  /\ at \in {"volume", "file", "row"} => ImageGet(fp) /\ rows[fp].id = threads[t].id
  /\ at \in {"open", "fetch", "store", "file", "row"} /\ fp \notin kept => fp \notin volumes
  /\ fp \notin broken =>
       /\ at \in {"leftover", "open"} => files[fp] = "none" /\ fp \notin volumes
       /\ at \in {"insert", "add"} => fp \in volumes
       /\ at \in {"import", "volume"} => files[fp] = "full" /\ (ImageGet(fp) <=> fp \in volumes)
       /\ at = "row" => files[fp] = "none"

\* An image that is whole, or not there at all.
Settled(fp) == IF ImageGet(fp) THEN files[fp] = "full" /\ fp \in volumes ELSE files[fp] = "none" /\ fp \notin volumes

StoreInv ==
  /\ \A t \in Threads : threads[t].at \in Working /\ threads[t].fp \notin mixed => Progress(t)
  /\ \A fp \in Versions \ mixed : files[fp] = "none" /\ fp \notin kept => fp \notin volumes
  /\ \A fp \in Versions \ (mixed \cup broken) :
        (\A t \in Threads : threads[t].fp = fp => threads[t].at \notin Working \ {"upload"}) => Settled(fp)

\* Row ids are not used again, and aliases stand for some.
IdsInv ==
  /\ \A fp \in Versions : rows[fp].id <= ids
  /\ \A fp, g \in Versions : rows[fp].id = rows[g].id /\ rows[fp].id # 0 => fp = g
  /\ \A a \in Aliases : aliases[a] <= ids
  /\ \A t \in Threads : threads[t].at \in {"access", "move"} => threads[t].new # 0 /\ threads[t].new <= ids

\* Requests by their kind, and the one refresh.
KindInv ==
  /\ \A t \in Threads : threads[t].at \in Located => threads[t].fp \in Versions
  /\ \A t \in Threads : threads[t].at \in {"source", "lookup", "access", "move"} => threads[t].kind = "refresh"
  /\ \A t \in Threads : threads[t].at = "source" => threads[t].fp = NoImage
  /\ \A t \in Threads : threads[t].at \in Fetching => threads[t].kind \in {"launch", "copy", "url", "refresh"}
  /\ \A t \in Threads : threads[t].kind = "refresh" =>
        /\ threads[t].old \in Versions /\ threads[t].tries = 0 /\ threads[t].at # "publish"
        /\ threads[t].at \in {"lookup", "access", "move"} => threads[t].fp # threads[t].old
        /\ \A u \in Threads : threads[u].kind = "refresh" => t = u

\* The aliases of what the refresh is about to delete were set too late.
LateInv ==
  \A t \in Threads : threads[t].kind = "refresh" =>
    /\ threads[t].at = "find" =>
         \A a \in Aliases : aliases[a] # 0 /\ aliases[a] = rows[threads[t].fp].id => a \in threads[t].late
    /\ threads[t].at \in {"volume", "file", "row"} =>
         \A a \in Aliases : aliases[a] # 0 /\ aliases[a] = threads[t].id => a \in threads[t].late

\* The newest image that a server's protocol can have named so far.
Newest(via, fp) == (via = "lxd" => fp <= server) /\ (via = "simplestreams" => fp <= cache.fp)

ForwardInv ==
  NoImage \notin broken =>
    /\ cache.fp <= server
    /\ \A fp \in Versions : Newest(rows[fp].source, fp)
    /\ \A t \in Threads :
         /\ Newest(threads[t].via, threads[t].fp) /\ Newest(threads[t].via, threads[t].old)
         /\ threads[t].kind = "refresh" /\ threads[t].at \in Located \ {"find", "volume", "file", "row"}
              => threads[t].old <= threads[t].fp

ImagesIInv ==
  /\ Types /\ ChannelInv /\ AloneInv /\ StoreInv /\ IdsInv /\ KindInv /\ LateInv /\ ForwardInv
-----------------------------------------------------------------------------
(* What a step leaves alone                                                  *)

\* A request is as it was, but for what has become of its file.
Same(u) ==
  /\ threads'[u].kind = threads[u].kind /\ threads'[u].at = threads[u].at /\ threads'[u].fp = threads[u].fp
  /\ threads'[u].via = threads[u].via /\ threads'[u].old = threads[u].old /\ threads'[u].id = threads[u].id
  /\ threads'[u].new = threads[u].new /\ threads'[u].chan = threads[u].chan /\ threads'[u].tries = threads[u].tries
  /\ threads'[u].late = threads[u].late
\* A step of request t.
StepOf(t) ==
  /\ threads \in [Threads -> ThreadRecord] /\ threads' \in [Threads -> ThreadRecord]
  /\ \A u \in Threads \ {t} : Same(u)

\* A request that has ended.
LEMMA IdleTyped ==
    /\ Idle \in ThreadRecord /\ Idle.kind = "none" /\ Idle.at = "idle" /\ Idle.fp = 0 /\ Idle.via = "none"
    /\ Idle.old = 0 /\ Idle.id = 0 /\ Idle.new = 0 /\ Idle.chan = 0 /\ Idle.tries = 0 /\ Idle.late = {}
    /\ Idle.linked = FALSE /\ Idle.truncated = FALSE /\ Idle.cached = FALSE
    /\ "idle" \notin Located /\ "idle" \notin Working /\ "idle" \notin Registered /\ "idle" \notin Fetching
BY DEF Idle, ThreadRecord, NoImage, Places, Located, Working, Registered, Leaving, Fetching

\* The places a request can be at.
LEMMA PlacesApart ==
    /\ Working \subseteq Located /\ Registered \subseteq Located /\ Leaving \subseteq Registered
    /\ Registered \subseteq Working \cup Leaving /\ Working \cap Leaving = {}
    /\ {"upload", "import", "add", "volume", "file", "row"} \subseteq Working \ Registered
    /\ {"leftover", "open", "fetch", "store", "insert", "cleanup"} \subseteq Working \cap Registered
    /\ {"check", "queue", "wait", "register", "update", "lookup", "access", "move", "find", "publish"}
          \subseteq Located \ (Working \cup Registered)
    /\ {"idle", "source", "resolve"} \cap Located = {}
    /\ {"update", "lookup", "access", "move", "find", "publish", "source", "idle",
        "upload", "import", "add", "volume", "file", "row"} \cap Fetching = {}
    /\ Located \cup {"idle", "source", "resolve"} = Places
BY DEF Working, Located, Registered, Leaving, Places, Fetching

\* A request gets a new state, the others keep theirs.
LEMMA OneThread ==
    ASSUME NEW t \in Threads, NEW r \in ThreadRecord, threads \in [Threads -> ThreadRecord],
           threads' = [threads EXCEPT ![t] = r]
    PROVE  /\ StepOf(t) /\ threads'[t] = r /\ \A u \in Threads \ {t} : threads'[u] = threads[u]
BY DEF StepOf, Same

\* A request moves on.
LEMMA GotoIs ==
    ASSUME NEW t \in Threads, NEW x \in Places, threads \in [Threads -> ThreadRecord], Goto(t, x)
    PROVE  /\ StepOf(t) /\ \A u \in Threads \ {t} : threads'[u] = threads[u]
           /\ threads'[t] = [threads[t] EXCEPT !.at = x] /\ threads'[t].at = x
           /\ threads'[t].kind = threads[t].kind /\ threads'[t].fp = threads[t].fp
           /\ threads'[t].via = threads[t].via /\ threads'[t].old = threads[t].old /\ threads'[t].id = threads[t].id
           /\ threads'[t].new = threads[t].new /\ threads'[t].chan = threads[t].chan
           /\ threads'[t].tries = threads[t].tries /\ threads'[t].late = threads[t].late
           /\ threads'[t].linked = threads[t].linked /\ threads'[t].truncated = threads[t].truncated
           /\ threads'[t].cached = threads[t].cached
<1> DEFINE r == [threads[t] EXCEPT !.at = x]
<1>1. threads' = [threads EXCEPT ![t] = r]
  BY DEF Goto
<1>2. threads[t] \in ThreadRecord
  OBVIOUS
<1>3. /\ r \in ThreadRecord /\ r.at = x
      /\ r.kind = threads[t].kind /\ r.fp = threads[t].fp
      /\ r.via = threads[t].via /\ r.old = threads[t].old /\ r.id = threads[t].id
      /\ r.new = threads[t].new /\ r.chan = threads[t].chan
      /\ r.tries = threads[t].tries /\ r.late = threads[t].late
      /\ r.linked = threads[t].linked /\ r.truncated = threads[t].truncated /\ r.cached = threads[t].cached
  BY <1>2 DEF ThreadRecord
<1>4. StepOf(t) /\ threads'[t] = r /\ \A u \in Threads \ {t} : threads'[u] = threads[u]
  <2> HIDE DEF r
  <2> QED
    BY <1>1, <1>3, OneThread
<1> QED
  BY <1>3, <1>4

\* The channels are not touched.
LEMMA ChannelKeeps ==
    ASSUME ChannelInv, NEW t \in Threads, StepOf(t), UNCHANGED queue,
           threads[t].at \in Registered => threads'[t].at \in Registered /\ threads'[t].fp = threads[t].fp,
           threads[t].at # "wait", threads'[t].at = "wait" => threads'[t].chan # 0
    PROVE  ChannelInv'
<1>1. ASSUME NEW u \in Threads, threads[u].at \in Registered
      PROVE  threads'[u].at \in Registered /\ threads'[u].fp = threads[u].fp
  BY <1>1 DEF StepOf, Same
<1>2. ASSUME NEW u \in Threads, threads[u].at = "wait"
      PROVE  threads'[u].at = threads[u].at /\ threads'[u].chan = threads[u].chan
  BY <1>2 DEF StepOf, Same
<1>3. downloading' = downloading /\ closed' = closed
  BY DEF queue
<1>4. \A fp \in Versions : downloading[fp] # 0 => \E u \in Threads : threads'[u].fp = fp /\ threads'[u].at \in Registered
  BY <1>1 DEF ChannelInv
<1>5. \A c \in closed : \E u \in Threads : threads'[u].at = "wait" /\ threads'[u].chan = c
  BY <1>2 DEF ChannelInv
<1>6. \A u \in Threads : threads'[u].at = "wait" => threads'[u].chan # 0
  BY DEF ChannelInv, StepOf, Same
<1> QED
  BY <1>3, <1>4, <1>5, <1>6 DEF ChannelInv

\* Nor is there anybody new at work, but on a fingerprint without.
LEMMA AloneKeeps ==
    ASSUME AloneInv, NEW t \in Threads, StepOf(t), UNCHANGED queue, mixed \subseteq mixed',
           threads'[t].at = "wait" => threads'[t].chan = downloading[threads'[t].fp],
           threads'[t].at \in Registered => threads[t].at \in Registered /\ threads'[t].fp = threads[t].fp,
           threads'[t].at \in Working =>
             \/ threads[t].at \in Working /\ threads'[t].fp = threads[t].fp
             \/ threads'[t].fp \notin mixed' =>
                  \A u \in Threads \ {t} : threads[u].fp = threads'[t].fp => threads[u].at \notin Working
    PROVE  AloneInv'
<1>0. downloading' = downloading /\ closed' = closed
  BY DEF queue
<1> SUFFICES ASSUME NEW x \in Threads, threads'[x].fp \in Versions \ mixed'
             PROVE  /\ \A u \in Threads : threads'[u].fp = threads'[x].fp =>
                          /\ threads'[x].at \in Working /\ threads'[u].at \in Working => x = u
                          /\ threads'[x].at \in Registered /\ threads'[u].at \in Registered => x = u
                    /\ threads'[x].at \in Registered => downloading[threads'[x].fp] # 0
                    /\ threads'[x].at = "wait" =>
                         threads'[x].chan \in closed \/ threads'[x].chan = downloading[threads'[x].fp]
  BY <1>0 DEF AloneInv
<1>1. ASSUME NEW u \in Threads, threads'[u].at \in Registered
      PROVE  threads[u].at \in Registered /\ threads[u].fp = threads'[u].fp
  BY <1>1 DEF StepOf, Same
<1>2. ASSUME NEW u \in Threads, threads'[u].fp = threads'[x].fp, threads'[x].at \in Working, threads'[u].at \in Working
      PROVE  x = u
  <2>1. CASE x # t /\ u # t
    BY <1>2, <2>1 DEF StepOf, Same, AloneInv
  <2>2. CASE x = t /\ u # t
    BY <1>2, <2>2 DEF StepOf, Same, AloneInv
  <2>3. CASE x # t /\ u = t
    BY <1>2, <2>3 DEF StepOf, Same, AloneInv
  <2> QED
    BY <2>1, <2>2, <2>3
<1>3. ASSUME NEW u \in Threads, threads'[u].fp = threads'[x].fp,
             threads'[x].at \in Registered, threads'[u].at \in Registered
      PROVE  x = u
  BY <1>1, <1>3 DEF AloneInv
<1>4. ASSUME threads'[x].at \in Registered PROVE downloading[threads'[x].fp] # 0
  BY <1>1, <1>4 DEF AloneInv
<1>5. ASSUME threads'[x].at = "wait"
      PROVE  threads'[x].chan \in closed \/ threads'[x].chan = downloading[threads'[x].fp]
  BY <1>5 DEF StepOf, Same, AloneInv
<1> QED
  BY <1>2, <1>3, <1>4, <1>5

\* Nobody at work does anything, and no image changes.
LEMMA StoreKeeps ==
    ASSUME StoreInv, NEW t \in Threads, StepOf(t),
           \A u \in Threads \ {t} : /\ threads'[u].linked = threads[u].linked
                                    /\ threads'[u].truncated = threads[u].truncated,
           threads[t].at \notin Working, threads'[t].at \notin Working,
           mixed \subseteq mixed', kept \subseteq kept', broken \subseteq broken', UNCHANGED <<files, volumes>>,
           \A fp \in Versions : rows'[fp].id = rows[fp].id, KindInv
    PROVE  StoreInv'
<1>0. Working \subseteq Located
  BY PlacesApart
<1>1. ASSUME NEW u \in Threads, threads'[u].at \in Working
      PROVE  /\ u # t /\ threads[u].at \in Working /\ threads'[u].at = threads[u].at
             /\ threads'[u].fp = threads[u].fp /\ threads'[u].id = threads[u].id /\ threads[u].fp \in Versions
             /\ threads'[u].linked = threads[u].linked /\ threads'[u].truncated = threads[u].truncated
  BY <1>0, <1>1 DEF StepOf, Same, KindInv
<1>2. ASSUME NEW fp \in Versions PROVE ImageGet(fp)' <=> ImageGet(fp)
  BY DEF ImageGet
<1>3. ASSUME NEW u \in Threads, threads'[u].at \in Working, threads'[u].fp \notin mixed' PROVE Progress(u)'
  <2>1. Progress(u)
    BY <1>1, <1>3 DEF StoreInv
  <2>3. rows'[threads'[u].fp].id = rows[threads[u].fp].id
    BY <1>1, <1>3
  <2> QED
    BY <1>1, <1>3, <2>1, <2>3 DEF Progress, ImageGet
<1>4. ASSUME NEW fp \in Versions \ (mixed' \cup broken'),
             \A u \in Threads : threads'[u].fp = fp => threads'[u].at \notin Working \ {"upload"}
      PROVE  Settled(fp)'
  <2>1. \A u \in Threads : threads[u].fp = fp => threads[u].at \notin Working \ {"upload"}
    BY <1>4 DEF StepOf, Same
  <2>2. Settled(fp)
    BY <2>1 DEF StoreInv
  <2> QED
    BY <1>2, <2>2 DEF Settled
<1> QED
  BY <1>3, <1>4 DEF StoreInv

\* Request t, alone at work on an image, changes it.
LEMMA StoreStep ==
    ASSUME StoreInv, KindInv, NEW t \in Threads, StepOf(t), NEW g \in Versions,
           mixed \subseteq mixed', kept \subseteq kept', broken \subseteq broken',
           threads[t].at \in Working => threads[t].fp = g,
           threads'[t].at \in Working => threads'[t].fp = g,
           \A u \in Threads \ {t} : threads[u].fp # g => /\ threads'[u].linked = threads[u].linked
                                                          /\ threads'[u].truncated = threads[u].truncated,
           \A fp \in Versions \ {g} : /\ rows'[fp].id = rows[fp].id /\ files'[fp] = files[fp]
                                      /\ fp \in volumes' <=> fp \in volumes,
           g \notin mixed' =>
             /\ \A u \in Threads \ {t} : threads[u].fp = g => threads[u].at \notin Working
             /\ threads'[t].at \in Working => Progress(t)'
             /\ files'[g] = "none" /\ g \notin kept' => g \notin volumes'
             /\ g \notin broken' /\ threads'[t].at \notin Working \ {"upload"} => Settled(g)'
    PROVE  StoreInv'
<1>0. Working \subseteq Located
  BY PlacesApart
<1>1. ASSUME NEW u \in Threads, u # t, threads'[u].at \in Working
      PROVE  /\ threads[u].at \in Working /\ threads'[u].at = threads[u].at
             /\ threads'[u].fp = threads[u].fp /\ threads'[u].id = threads[u].id /\ threads[u].fp \in Versions
  BY <1>0, <1>1 DEF StepOf, Same, KindInv
<1>2. ASSUME NEW fp \in Versions \ {g} PROVE ImageGet(fp)' <=> ImageGet(fp)
  BY DEF ImageGet
<1>3. ASSUME NEW u \in Threads, threads'[u].at \in Working, threads'[u].fp \notin mixed' PROVE Progress(u)'
  <2>1. CASE u = t
    BY <1>3, <2>1
  <2>2. CASE u # t
    <3>1. threads[u].fp # g
      BY <1>1, <1>3, <2>2
    <3>2. Progress(u)
      BY <1>1, <1>3, <2>2 DEF StoreInv
    <3>3. /\ rows'[threads'[u].fp].id = rows[threads[u].fp].id
          /\ files'[threads'[u].fp] = files[threads[u].fp] /\ (threads'[u].fp \in volumes' <=> threads[u].fp \in volumes)
          /\ threads'[u].linked = threads[u].linked /\ threads'[u].truncated = threads[u].truncated
      BY <1>1, <1>2, <1>3, <2>2, <3>1
    <3> QED
      BY <1>1, <1>3, <2>2, <3>2, <3>3 DEF Progress, ImageGet
  <2> QED
    BY <2>1, <2>2
<1>4. ASSUME NEW fp \in Versions \ mixed', files'[fp] = "none", fp \notin kept' PROVE fp \notin volumes'
  BY <1>4 DEF StoreInv
<1>5. ASSUME NEW fp \in Versions \ (mixed' \cup broken'),
             \A u \in Threads : threads'[u].fp = fp => threads'[u].at \notin Working \ {"upload"}
      PROVE  Settled(fp)'
  <2>1. CASE fp = g
    <3>1. threads'[t].at \notin Working \ {"upload"}
      BY <1>5, <2>1
    <3> QED
      BY <1>5, <2>1, <3>1
  <2>2. CASE fp # g
    <3>1. \A u \in Threads : threads[u].fp = fp => threads[u].at \notin Working \ {"upload"}
      BY <1>5, <2>2 DEF StepOf, Same
    <3>2. Settled(fp)
      BY <1>5, <3>1 DEF StoreInv
    <3> QED
      BY <1>2, <2>2, <3>2 DEF Settled
  <2> QED
    BY <2>1, <2>2
<1> QED
  BY <1>3, <1>4, <1>5 DEF StoreInv

\* No id is given out.
LEMMA IdsKeeps ==
    ASSUME IdsInv, NEW t \in Threads, StepOf(t), UNCHANGED ids,
           \A fp \in Versions : rows'[fp].id \in {rows[fp].id, 0},
           \A a \in Aliases : aliases'[a] \in {aliases[a], 0} \/ aliases'[a] <= ids, ids \in Nat,
           threads'[t].at \in {"access", "move"} =>
              \/ threads[t].at \in {"access", "move"} /\ threads'[t].new = threads[t].new
              \/ threads'[t].new # 0 /\ threads'[t].new <= ids
    PROVE  IdsInv'
<1>1. ASSUME NEW u \in Threads, threads'[u].at \in {"access", "move"}
      PROVE  threads'[u].new # 0 /\ threads'[u].new <= ids
  BY <1>1 DEF StepOf, Same, IdsInv
<1>2. \A fp \in Versions : rows'[fp].id <= ids
  BY DEF IdsInv
<1>3. \A fp, g \in Versions : rows'[fp].id = rows'[g].id /\ rows'[fp].id # 0 => fp = g
  BY DEF IdsInv
<1>4. \A a \in Aliases : aliases'[a] <= ids
  BY DEF IdsInv
<1> QED
  BY <1>1, <1>2, <1>3, <1>4 DEF IdsInv

\* A request keeps its kind or ends.
LEMMA KindKeeps ==
    ASSUME KindInv, NEW t \in Threads, StepOf(t),
           threads'[t].at \in Located => threads'[t].fp \in Versions,
           threads'[t].at \in {"source", "lookup", "access", "move"} => threads'[t].kind = "refresh",
           threads'[t].at = "source" => threads'[t].fp = NoImage,
           threads'[t].at \in Fetching => threads'[t].kind \in {"launch", "copy", "url", "refresh"},
           threads'[t].kind = "refresh" =>
             /\ threads'[t].old \in Versions /\ threads'[t].tries = 0 /\ threads'[t].at # "publish"
             /\ threads'[t].at \in {"lookup", "access", "move"} => threads'[t].fp # threads'[t].old
             /\ \/ threads[t].kind = "refresh"
                \/ \A u \in Threads \ {t} : threads[u].kind # "refresh"
    PROVE  KindInv'
<1>1. \A u \in Threads : threads'[u].at \in Located => threads'[u].fp \in Versions
  BY DEF StepOf, Same, KindInv
<1>2. \A u \in Threads : threads'[u].at \in {"source", "lookup", "access", "move"} => threads'[u].kind = "refresh"
  BY DEF StepOf, Same, KindInv
<1>5. \A u \in Threads : threads'[u].at = "source" => threads'[u].fp = NoImage
  BY DEF StepOf, Same, KindInv
<1>4. \A u \in Threads : threads'[u].at \in Fetching => threads'[u].kind \in {"launch", "copy", "url", "refresh"}
  BY DEF StepOf, Same, KindInv
<1>3. ASSUME NEW x \in Threads, threads'[x].kind = "refresh"
      PROVE  /\ threads'[x].old \in Versions /\ threads'[x].tries = 0 /\ threads'[x].at # "publish"
             /\ threads'[x].at \in {"lookup", "access", "move"} => threads'[x].fp # threads'[x].old
             /\ \A u \in Threads : threads'[u].kind = "refresh" => x = u
  <2>1. CASE x = t
    BY <1>3, <2>1 DEF StepOf, Same, KindInv
  <2>2. CASE x # t
    BY <1>3, <2>2 DEF StepOf, Same, KindInv
  <2> QED
    BY <2>1, <2>2
<1> QED
  BY <1>1, <1>2, <1>3, <1>4, <1>5 DEF KindInv

\* Rows and aliases come and go, but no alias is set.
LEMMA LateKeeps ==
    ASSUME LateInv, IdsInv, KindInv, NEW t \in Threads, StepOf(t), ids \in Nat,
           rows \in [Versions -> RowRecord], rows' \in [Versions -> RowRecord], aliases \in [Aliases -> Nat],
           \A fp \in Versions : rows'[fp].id \in {rows[fp].id, 0} \/ rows'[fp].id > ids,
           \A a \in Aliases : aliases'[a] \in {aliases[a], 0},
           threads'[t].kind = "refresh" =>
             /\ threads'[t].at = "find" => threads[t].kind = "refresh" /\ threads[t].at = "find"
                                           /\ threads'[t].fp = threads[t].fp /\ threads'[t].late = threads[t].late
             /\ threads'[t].at \in {"volume", "file", "row"} =>
                  /\ threads[t].kind = "refresh" /\ threads'[t].late = threads[t].late
                  /\ \/ threads[t].at \in {"volume", "file", "row"} /\ threads'[t].id = threads[t].id
                     \/ threads[t].at = "find" /\ threads'[t].id = rows[threads[t].fp].id
    PROVE  LateInv'
<1>1. ASSUME NEW u \in Threads, NEW a \in Aliases, threads'[u].kind = "refresh", threads'[u].at = "find",
             aliases'[a] # 0, aliases'[a] = rows'[threads'[u].fp].id
      PROVE  a \in threads'[u].late
  <2>1. /\ threads[u].kind = "refresh" /\ threads[u].at = "find"
        /\ threads'[u].fp = threads[u].fp /\ threads'[u].late = threads[u].late
    BY <1>1 DEF StepOf, Same
  <2>2. threads[u].fp \in Versions
    BY <2>1, PlacesApart DEF KindInv
  <2>3. aliases'[a] = aliases[a] /\ aliases[a] <= ids /\ aliases[a] \in Nat
    BY <1>1 DEF IdsInv
  <2>4. rows'[threads[u].fp].id = rows[threads[u].fp].id
    BY <1>1, <2>1, <2>2, <2>3 DEF RowRecord
  <2> QED
    BY <1>1, <2>1, <2>3, <2>4 DEF LateInv
<1>2. ASSUME NEW u \in Threads, NEW a \in Aliases, threads'[u].kind = "refresh",
             threads'[u].at \in {"volume", "file", "row"}, aliases'[a] # 0, aliases'[a] = threads'[u].id
      PROVE  a \in threads'[u].late
  <2>1. /\ threads[u].kind = "refresh" /\ threads'[u].late = threads[u].late
        /\ \/ threads[u].at \in {"volume", "file", "row"} /\ threads'[u].id = threads[u].id
           \/ threads[u].at = "find" /\ threads'[u].id = rows[threads[u].fp].id
    BY <1>2 DEF StepOf, Same
  <2>2. aliases'[a] = aliases[a]
    BY <1>2
  <2> QED
    BY <1>2, <2>1, <2>2 DEF LateInv
<1> QED
  BY <1>1, <1>2 DEF LateInv

\* Nothing new is heard of a server.
LEMMA ForwardKeeps ==
    ASSUME ForwardInv, NEW t \in Threads, StepOf(t), UNCHANGED <<server, cache>>, broken \subseteq broken',
           \A fp \in Versions : NoImage \notin broken' => Newest(rows'[fp].source, fp),
           NoImage \notin broken' =>
             /\ Newest(threads'[t].via, threads'[t].fp) /\ Newest(threads'[t].via, threads'[t].old)
             /\ threads'[t].kind = "refresh" /\ threads'[t].at \in Located \ {"find", "volume", "file", "row"}
                  => threads'[t].old <= threads'[t].fp
    PROVE  ForwardInv'
<1> SUFFICES ASSUME NoImage \notin broken'
             PROVE  /\ cache.fp <= server
                    /\ \A fp \in Versions : Newest(rows'[fp].source, fp)
                    /\ \A u \in Threads :
                         /\ Newest(threads'[u].via, threads'[u].fp) /\ Newest(threads'[u].via, threads'[u].old)
                         /\ threads'[u].kind = "refresh" /\ threads'[u].at \in Located \ {"find", "volume", "file", "row"}
                              => threads'[u].old <= threads'[u].fp
  BY DEF ForwardInv, Newest
<1>1. ASSUME NEW u \in Threads
      PROVE  /\ Newest(threads'[u].via, threads'[u].fp) /\ Newest(threads'[u].via, threads'[u].old)
             /\ threads'[u].kind = "refresh" /\ threads'[u].at \in Located \ {"find", "volume", "file", "row"}
                  => threads'[u].old <= threads'[u].fp
  <2>1. CASE u = t
    BY <2>1
  <2>2. CASE u # t
    BY <2>2 DEF StepOf, Same, ForwardInv
  <2> QED
    BY <2>1, <2>2
<1> QED
  BY <1>1 DEF ForwardInv

-----------------------------------------------------------------------------
(* Requests at work                                                          *)

\* Nobody else works on the image of a request at work.
LEMMA Alone ==
    ASSUME AloneInv, KindInv, NEW t \in Threads, threads[t].at \in Working, threads[t].fp \notin mixed
    PROVE  \A u \in Threads \ {t} : threads[u].fp = threads[t].fp => threads[u].at \notin Working
<1>1. threads[t].fp \in Versions \ mixed
  BY PlacesApart DEF KindInv
<1> QED
  BY <1>1 DEF AloneInv

\* So its image changes by its steps only.
LEMMA WorkerStore ==
    ASSUME ImagesIInv, NEW t \in Threads, threads[t].at \in Working, StepOf(t),
           NEW g, g = threads[t].fp,
           mixed' = mixed, kept \subseteq kept', broken \subseteq broken',
           threads'[t].at \in Working => threads'[t].fp = g,
           \A u \in Threads \ {t} : threads[u].fp # g => /\ threads'[u].linked = threads[u].linked
                                                          /\ threads'[u].truncated = threads[u].truncated,
           \A fp \in Versions \ {g} : /\ rows'[fp].id = rows[fp].id /\ files'[fp] = files[fp]
                                      /\ fp \in volumes' <=> fp \in volumes,
           /\ Progress(t) /\ (files[g] = "none" /\ g \notin kept => g \notin volumes)
           /\ threads[t].at = "upload" /\ g \notin broken => Settled(g)
           => /\ threads'[t].at \in Working => Progress(t)'
              /\ files'[g] = "none" /\ g \notin kept' => g \notin volumes'
              /\ g \notin broken' /\ threads'[t].at \notin Working \ {"upload"} => Settled(g)'
    PROVE  StoreInv'
<1>0. AloneInv /\ KindInv /\ StoreInv /\ g \in Versions
  BY PlacesApart DEF ImagesIInv, KindInv
<1>1. ASSUME g \notin mixed
      PROVE  /\ \A u \in Threads \ {t} : threads[u].fp = g => threads[u].at \notin Working
             /\ Progress(t) /\ (files[g] = "none" /\ g \notin kept => g \notin volumes)
             /\ threads[t].at = "upload" /\ g \notin broken => Settled(g)
  <2>1. \A u \in Threads \ {t} : threads[u].fp = g => threads[u].at \notin Working
    BY <1>0, <1>1, Alone
  <2>2. Progress(t) /\ (files[g] = "none" /\ g \notin kept => g \notin volumes)
    BY <1>0, <1>1 DEF StoreInv
  <2>3. ASSUME threads[t].at = "upload", g \notin broken PROVE Settled(g)
    <3>1. \A u \in Threads : threads[u].fp = g => threads[u].at \notin Working \ {"upload"}
      BY <2>1, <2>3
    <3> QED
      BY <1>0, <1>1, <2>3, <3>1 DEF StoreInv
  <2> QED
    BY <2>1, <2>2, <2>3
<1> QED
  BY <1>0, <1>1, StoreStep

\* A request goes on with its image.
LEMMA WorkStep ==
    ASSUME ImagesIInv, NEW t \in Threads, StepOf(t), Types', StoreInv', IdsInv',
           threads'[t].kind = threads[t].kind, threads'[t].fp = threads[t].fp, threads'[t].via = threads[t].via,
           threads'[t].old = threads[t].old, threads'[t].id = threads[t].id, threads'[t].new = threads[t].new,
           threads'[t].tries = threads[t].tries, threads'[t].late = threads[t].late,
           threads[t].at \in Working \cup Leaving, threads'[t].at \in Working \cup Leaving,
           threads[t].at \in Registered <=> threads'[t].at \in Registered,
           threads'[t].at \in Working => threads[t].at \in Working,
           threads[t].at \in {"volume", "file", "row"} <=> threads'[t].at \in {"volume", "file", "row"},
           UNCHANGED <<queue, server, cache, aliases>>, mixed \subseteq mixed', broken \subseteq broken',
           \A fp \in Versions : rows'[fp].id \in {rows[fp].id, 0} \/ rows'[fp].id > ids,
           \A fp \in Versions : \/ rows'[fp].source \in {rows[fp].source, "none"}
                                \/ fp = threads[t].fp /\ rows'[fp].source = threads[t].via
    PROVE  ImagesIInv'
<1>0. Types /\ ChannelInv /\ AloneInv /\ StoreInv /\ IdsInv /\ KindInv /\ LateInv /\ ForwardInv
  BY DEF ImagesIInv
<1>1. /\ threads[t].at # "wait" /\ threads'[t].at # "wait"
      /\ threads'[t].at \notin {"source", "lookup", "access", "move", "find", "publish"}
      /\ threads[t].at \in Located /\ threads'[t].at \in Located /\ threads[t].fp \in Versions
      /\ threads[t].at # "find"
  BY <1>0, PlacesApart DEF KindInv, Working, Leaving
<1>2. ChannelInv'
  BY <1>0, <1>1, ChannelKeeps
<1>3. AloneInv'
  BY <1>0, <1>1, AloneKeeps
<1>4. KindInv'
  <2>1. threads'[t].kind = "refresh" => threads[t].old \in Versions /\ threads[t].tries = 0
    BY <1>0 DEF KindInv
  <2>2. threads'[t].at \in Fetching => threads'[t].kind \in {"launch", "copy", "url", "refresh"}
    <3>1. threads'[t].at \in Fetching => threads'[t].at \in Registered
      BY PlacesApart DEF Fetching
    <3>2. threads[t].at \in Registered => threads[t].at \in Fetching
      BY DEF Fetching
    <3> QED
      BY <1>0, <3>1, <3>2 DEF KindInv
  <2> QED
    BY <1>0, <1>1, <2>1, <2>2, KindKeeps
<1>5. LateInv'
  BY <1>0, <1>1, LateKeeps DEF Types
<1>6. ForwardInv'
  <2>1. ASSUME NoImage \notin broken'
        PROVE  /\ Newest(threads'[t].via, threads'[t].fp) /\ Newest(threads'[t].via, threads'[t].old)
               /\ threads'[t].kind = "refresh" /\ threads'[t].at \in Located \ {"find", "volume", "file", "row"}
                    => threads'[t].old <= threads'[t].fp
               /\ \A fp \in Versions : Newest(rows'[fp].source, fp)
    <3>1. /\ Newest(threads[t].via, threads[t].fp) /\ Newest(threads[t].via, threads[t].old)
          /\ threads[t].kind = "refresh" /\ threads[t].at \in Located \ {"find", "volume", "file", "row"}
               => threads[t].old <= threads[t].fp
          /\ \A fp \in Versions : Newest(rows[fp].source, fp)
      BY <1>0, <2>1 DEF ForwardInv
    <3>2. \A fp : Newest("none", fp)
      BY DEF Newest
    <3> QED
      BY <1>1, <3>1, <3>2
  <2> QED
    BY <1>0, <2>1, ForwardKeeps
<1> QED
  BY <1>2, <1>3, <1>4, <1>5, <1>6 DEF ImagesIInv

\* A request ends that has registered no download.
LEMMA EndStep ==
    ASSUME ImagesIInv, NEW t \in Threads, StepOf(t), Types', StoreInv', IdsInv', threads'[t] = Idle,
           threads[t].at \notin Registered, threads[t].at # "wait",
           UNCHANGED <<queue, server, cache>>, mixed \subseteq mixed', broken \subseteq broken',
           \A fp \in Versions : rows'[fp].id \in {rows[fp].id, 0} \/ rows'[fp].id > ids,
           \A fp \in Versions : rows'[fp].source \in {rows[fp].source, "none"},
           \A a \in Aliases : aliases'[a] \in {aliases[a], 0}
    PROVE  ImagesIInv'
<1>0. Types /\ ChannelInv /\ AloneInv /\ StoreInv /\ IdsInv /\ KindInv /\ LateInv /\ ForwardInv
  BY DEF ImagesIInv
<1>1. /\ threads'[t].kind = "none" /\ threads'[t].at = "idle" /\ threads'[t].via = "none"
      /\ "idle" \notin Located /\ "idle" \notin Working /\ "idle" \notin Registered /\ "idle" \notin Fetching
  BY IdleTyped
<1>2. ChannelInv'
  BY <1>0, <1>1, ChannelKeeps
<1>3. AloneInv'
  BY <1>0, <1>1, AloneKeeps
<1>4. KindInv'
  BY <1>0, <1>1, KindKeeps
<1>5. LateInv'
  BY <1>0, <1>1, LateKeeps DEF Types
<1>6. ForwardInv'
  <2>1. \A fp : Newest("none", fp)
    BY DEF Newest
  <2>2. \A fp \in Versions : NoImage \notin broken' => Newest(rows'[fp].source, fp)
    BY <1>0, <2>1 DEF ForwardInv
  <2> QED
    BY <1>0, <1>1, <2>1, <2>2, ForwardKeeps
<1> QED
  BY <1>2, <1>3, <1>4, <1>5, <1>6 DEF ImagesIInv

\* The file of an image goes, and a request moves on.
LEMMA UnlinkedIs ==
    ASSUME NEW t \in Threads, NEW x \in Places, NEW g, threads \in [Threads -> ThreadRecord],
           threads' = [Unlinked(g) EXCEPT ![t].at = x]
    PROVE  /\ StepOf(t) /\ threads'[t].at = x
           /\ threads'[t].kind = threads[t].kind /\ threads'[t].fp = threads[t].fp
           /\ threads'[t].via = threads[t].via /\ threads'[t].old = threads[t].old /\ threads'[t].id = threads[t].id
           /\ threads'[t].new = threads[t].new /\ threads'[t].chan = threads[t].chan
           /\ threads'[t].tries = threads[t].tries /\ threads'[t].late = threads[t].late
           /\ \A u \in Threads \ {t} : threads[u].fp # g => threads'[u] = threads[u]
<1> DEFINE T == Unlinked(g)
<1>1. ASSUME NEW u \in Threads
      PROVE  /\ T[u] \in ThreadRecord /\ (threads[u].fp # g => T[u] = threads[u])
             /\ T[u].kind = threads[u].kind /\ T[u].at = threads[u].at /\ T[u].fp = threads[u].fp
             /\ T[u].via = threads[u].via /\ T[u].old = threads[u].old /\ T[u].id = threads[u].id
             /\ T[u].new = threads[u].new /\ T[u].chan = threads[u].chan
             /\ T[u].tries = threads[u].tries /\ T[u].late = threads[u].late
  <2>1. T[u] = IF threads[u].fp = g THEN [threads[u] EXCEPT !.linked = FALSE] ELSE threads[u]
    BY DEF Unlinked
  <2>2. threads[u] \in ThreadRecord
    OBVIOUS
  <2> HIDE DEF T
  <2> QED
    BY <2>1, <2>2 DEF ThreadRecord
<1>2. T \in [Threads -> ThreadRecord]
  <2>1. T = [u \in Threads |-> T[u]]
    BY DEF Unlinked
  <2> HIDE DEF T
  <2> QED
    BY <1>1, <2>1
<1> DEFINE r == [T[t] EXCEPT !.at = x]
<1>3. threads' = [T EXCEPT ![t] = r]
  OBVIOUS
<1> HIDE DEF T
<1>4. /\ r \in ThreadRecord /\ r.at = x
      /\ r.kind = T[t].kind /\ r.fp = T[t].fp /\ r.via = T[t].via /\ r.old = T[t].old /\ r.id = T[t].id
      /\ r.new = T[t].new /\ r.chan = T[t].chan /\ r.tries = T[t].tries /\ r.late = T[t].late
  BY <1>1 DEF ThreadRecord
<1> HIDE DEF r
<1>5. /\ threads' \in [Threads -> ThreadRecord] /\ threads'[t] = r
      /\ \A u \in Threads \ {t} : threads'[u] = T[u]
  BY <1>2, <1>3, <1>4
<1>6. ASSUME NEW u \in Threads \ {t} PROVE Same(u) /\ (threads[u].fp # g => threads'[u] = threads[u])
  BY <1>1, <1>5 DEF Same
<1>7. StepOf(t)
  BY <1>5, <1>6 DEF StepOf
<1> QED
  BY <1>1, <1>4, <1>5, <1>6, <1>7

\* A row is not touched.
LEMMA RowsStay ==
    ASSUME UNCHANGED rows
    PROVE  /\ \A fp \in Versions : rows'[fp].id \in {rows[fp].id, 0} \/ rows'[fp].id > ids
           /\ \A fp \in Versions : rows'[fp].id \in {rows[fp].id, 0}
           /\ \A fp \in Versions : rows'[fp].source \in {rows[fp].source, "none"}
           /\ \A fp \in Versions : rows'[fp].id = rows[fp].id /\ rows'[fp].source = rows[fp].source
OBVIOUS

\* What an earlier attempt has left is removed.
LEMMA CleanLeftoverInv ==
    ASSUME ImagesIInv, NEW t \in Threads, CleanLeftover(t)
    PROVE  ImagesIInv'
<1> DEFINE g == threads[t].fp
<1>0. Types /\ IdsInv /\ KindInv
  BY DEF ImagesIInv
<1>1. /\ threads[t].at = "leftover" /\ volumes' = IF files[g] # "none" THEN volumes \ {g} ELSE volumes
      /\ Goto(t, "open")
      /\ UNCHANGED <<rows, files, aliases, ids, server, cache, saved, queue, served, harm, mixed, kept, broken>>
  BY DEF CleanLeftover, streams, ghosts
<1>2. /\ StepOf(t) /\ \A u \in Threads \ {t} : threads'[u] = threads[u]
      /\ threads'[t].at = "open"
      /\ threads'[t].kind = threads[t].kind /\ threads'[t].fp = threads[t].fp
      /\ threads'[t].via = threads[t].via /\ threads'[t].old = threads[t].old /\ threads'[t].id = threads[t].id
      /\ threads'[t].new = threads[t].new
      /\ threads'[t].tries = threads[t].tries /\ threads'[t].late = threads[t].late
  <2>1. "open" \in Places
    BY PlacesApart
  <2> QED
    BY <1>0, <1>1, <2>1, GotoIs DEF Types
<1>3. Types'
  BY <1>0, <1>1, <1>2 DEF Types, StepOf, queue
<1>4. StoreInv'
  <2>1. \A fp \in Versions \ {g} : rows'[fp].id = rows[fp].id /\ files'[fp] = files[fp] /\ (fp \in volumes' <=> fp \in volumes)
    BY <1>1
  <2>2. ASSUME Progress(t), files[g] = "none" /\ g \notin kept => g \notin volumes
        PROVE  Progress(t)' /\ (files'[g] = "none" /\ g \notin kept' => g \notin volumes')
    BY <1>1, <1>2, <2>2 DEF Progress, ImageGet
  <2> QED
    BY <1>1, <1>2, <2>1, <2>2, WorkerStore DEF Working
<1>5. IdsInv'
  BY <1>0, <1>1, <1>2, IdsKeeps DEF Types
<1> QED
  BY <1>0, <1>1, <1>2, <1>3, <1>4, <1>5, RowsStay, PlacesApart, WorkStep

\* The file is opened.
LEMMA OpenFileInv ==
    ASSUME ImagesIInv, NEW t \in Threads, OpenFile(t)
    PROVE  ImagesIInv'
<1> DEFINE g == threads[t].fp
<1>0. Types /\ IdsInv /\ KindInv
  BY DEF ImagesIInv
<1>1. /\ threads[t].at = "open" /\ files' = [files EXCEPT ![g] = "partial"]
      /\ threads' = [u \in Threads |->
           IF u = t THEN [threads[t] EXCEPT !.at = "fetch", !.linked = TRUE, !.truncated = FALSE]
           ELSE IF threads[u].fp = g /\ threads[u].linked
                THEN [threads[u] EXCEPT !.truncated = TRUE] ELSE threads[u]]
      /\ UNCHANGED <<rows, volumes, aliases, ids, server, cache, saved, queue, served, harm, mixed, kept, broken>>
  BY DEF OpenFile, streams, ghosts
<1>2. g \in Versions /\ "fetch" \in Places
  BY <1>0, <1>1, PlacesApart DEF KindInv
<1>3. ASSUME NEW u \in Threads, u # t
      PROVE  threads'[u] \in ThreadRecord /\ Same(u) /\ (threads[u].fp # g => threads'[u] = threads[u])
  <2>1. threads'[u] = IF threads[u].fp = g /\ threads[u].linked THEN [threads[u] EXCEPT !.truncated = TRUE] ELSE threads[u]
    BY <1>1, <1>3
  <2>2. threads[u] \in ThreadRecord
    BY <1>0 DEF Types
  <2> QED
    BY <2>1, <2>2 DEF ThreadRecord, Same
<1>4. /\ threads'[t] \in ThreadRecord /\ threads'[t].at = "fetch" /\ threads'[t].linked /\ ~threads'[t].truncated
      /\ threads'[t].kind = threads[t].kind /\ threads'[t].fp = threads[t].fp
      /\ threads'[t].via = threads[t].via /\ threads'[t].old = threads[t].old /\ threads'[t].id = threads[t].id
      /\ threads'[t].new = threads[t].new
      /\ threads'[t].tries = threads[t].tries /\ threads'[t].late = threads[t].late
  <2>1. threads'[t] = [threads[t] EXCEPT !.at = "fetch", !.linked = TRUE, !.truncated = FALSE]
    BY <1>1
  <2>2. threads[t] \in ThreadRecord
    BY <1>0 DEF Types
  <2> QED
    BY <1>2, <2>1, <2>2 DEF ThreadRecord
<1>5. StepOf(t)
  <2>1. threads' = [u \in Threads |-> threads'[u]]
    BY <1>1
  <2> QED
    BY <1>0, <1>3, <1>4, <2>1 DEF StepOf, Types
<1>6. Types'
  BY <1>0, <1>1, <1>2, <1>5 DEF Types, StepOf, queue
<1>7. StoreInv'
  <2>1. \A fp \in Versions \ {g} : rows'[fp].id = rows[fp].id /\ files'[fp] = files[fp] /\ (fp \in volumes' <=> fp \in volumes)
    BY <1>0, <1>1 DEF Types
  <2>2. files'[g] = "partial"
    BY <1>0, <1>1, <1>2 DEF Types
  <2>3. ASSUME Progress(t) PROVE Progress(t)' /\ files'[g] # "none"
    BY <1>1, <1>4, <2>2, <2>3 DEF Progress, ImageGet
  <2> QED
    <3>1. \A u \in Threads \ {t} : threads[u].fp # g => /\ threads'[u].linked = threads[u].linked
                                                         /\ threads'[u].truncated = threads[u].truncated
      BY <1>3
    <3>2. threads[t].at \in Working /\ threads'[t].at \in Working \ {"upload"} /\ mixed' = mixed
          /\ kept \subseteq kept' /\ broken \subseteq broken' /\ threads'[t].fp = g
      BY <1>1, <1>4 DEF Working
    <3> QED
      BY <1>5, <2>1, <2>3, <3>1, <3>2, WorkerStore
<1>8. IdsInv'
  BY <1>0, <1>1, <1>4, <1>5, IdsKeeps DEF Types
<1> QED
  BY <1>0, <1>1, <1>4, <1>5, <1>6, <1>7, <1>8, RowsStay, PlacesApart, WorkStep

\* The file arrives, or does not.
LEMMA GetImageFileInv ==
    ASSUME ImagesIInv, NEW t \in Threads, GetImageFile(t)
    PROVE  ImagesIInv'
<1> DEFINE g == threads[t].fp
<1>0. Types /\ IdsInv /\ KindInv
  BY DEF ImagesIInv
<1>1. /\ threads[t].at = "fetch" /\ g \in Versions
      /\ UNCHANGED <<rows, volumes, aliases, ids, server, cache, saved, queue, served, mixed, kept, broken>>
      /\ harm' \in Nat
      /\ \/ /\ files' = IF threads[t].linked
                        THEN [files EXCEPT ![g] = IF threads[t].truncated /\ @ # "full" THEN "torn" ELSE "full"] ELSE files
            /\ Goto(t, "store")
         \/ files' = files /\ Goto(t, "cleanup")
  BY <1>0, PlacesApart DEF GetImageFile, streams, ghosts, KindInv, Types
<1>2. PICK x \in {"store", "cleanup"} : Goto(t, x) /\ (x = "cleanup" => files' = files)
                                        /\ (x = "store" => files' = IF threads[t].linked
                        THEN [files EXCEPT ![g] = IF threads[t].truncated /\ @ # "full" THEN "torn" ELSE "full"] ELSE files)
  BY <1>1
<1>3. /\ StepOf(t) /\ \A u \in Threads \ {t} : threads'[u] = threads[u]
      /\ threads'[t].at = x
      /\ threads'[t].kind = threads[t].kind /\ threads'[t].fp = threads[t].fp
      /\ threads'[t].via = threads[t].via /\ threads'[t].old = threads[t].old /\ threads'[t].id = threads[t].id
      /\ threads'[t].new = threads[t].new
      /\ threads'[t].tries = threads[t].tries /\ threads'[t].late = threads[t].late
  <2>1. x \in Places
    BY PlacesApart
  <2> QED
    BY <1>0, <1>2, <2>1, GotoIs DEF Types
<1>4. /\ files' \in [Versions -> {"none", "partial", "torn", "full"}]
      /\ \A fp \in Versions \ {g} : files'[fp] = files[fp]
      /\ x = "store" /\ threads[t].linked /\ ~threads[t].truncated => files'[g] = "full"
      /\ files'[g] = files[g] \/ files'[g] # "none"
  BY <1>0, <1>1, <1>2 DEF Types
<1>5. Types'
  BY <1>0, <1>1, <1>3, <1>4 DEF Types, StepOf, queue
<1>6. StoreInv'
  <2>1. \A fp \in Versions \ {g} : rows'[fp].id = rows[fp].id /\ files'[fp] = files[fp] /\ (fp \in volumes' <=> fp \in volumes)
    BY <1>1, <1>4
  <2>2. ASSUME Progress(t), files[g] = "none" /\ g \notin kept => g \notin volumes
        PROVE  Progress(t)' /\ (files'[g] = "none" /\ g \notin kept' => g \notin volumes')
    BY <1>1, <1>3, <1>4, <2>2 DEF Progress, ImageGet
  <2> QED
    BY <1>1, <1>3, <2>1, <2>2, WorkerStore DEF Working
<1>7. IdsInv'
  BY <1>0, <1>1, <1>3, IdsKeeps DEF Types
<1> QED
  BY <1>0, <1>1, <1>3, <1>5, <1>6, <1>7, RowsStay, PlacesApart, WorkStep

\* The file is unpacked into a volume, or cannot be.
LEMMA ImageCreateInv ==
    ASSUME ImagesIInv, NEW t \in Threads, ImageCreate(t)
    PROVE  ImagesIInv'
<1> DEFINE g == threads[t].fp
<1>0. Types /\ IdsInv /\ KindInv
  BY DEF ImagesIInv
<1>1. /\ threads[t].at = "store" /\ g \in Versions
      /\ UNCHANGED <<rows, files, aliases, ids, server, cache, saved, queue, served, mixed, kept, broken>>
      /\ harm' \in Nat
      /\ \/ volumes' = volumes \cup {g} /\ Goto(t, "insert")
         \/ volumes' = volumes /\ Goto(t, "cleanup")
  BY <1>0, PlacesApart DEF ImageCreate, Store, Goto, streams, ghosts, KindInv, Types
<1>2. PICK x \in {"insert", "cleanup"} : Goto(t, x) /\ (x = "cleanup" => volumes' = volumes)
                                         /\ (x = "insert" => volumes' = volumes \cup {g})
  BY <1>1
<1>3. /\ StepOf(t) /\ \A u \in Threads \ {t} : threads'[u] = threads[u]
      /\ threads'[t].at = x
      /\ threads'[t].kind = threads[t].kind /\ threads'[t].fp = threads[t].fp
      /\ threads'[t].via = threads[t].via /\ threads'[t].old = threads[t].old /\ threads'[t].id = threads[t].id
      /\ threads'[t].new = threads[t].new
      /\ threads'[t].tries = threads[t].tries /\ threads'[t].late = threads[t].late
  <2>1. x \in Places
    BY PlacesApart
  <2> QED
    BY <1>0, <1>2, <2>1, GotoIs DEF Types
<1>4. Types'
  BY <1>0, <1>1, <1>3 DEF Types, StepOf, queue
<1>5. StoreInv'
  <2>1. \A fp \in Versions \ {g} : rows'[fp].id = rows[fp].id /\ files'[fp] = files[fp] /\ (fp \in volumes' <=> fp \in volumes)
    BY <1>1
  <2>2. ASSUME Progress(t) PROVE Progress(t)' /\ files'[g] # "none"
    BY <1>1, <1>2, <1>3, <2>2 DEF Progress, ImageGet
  <2> QED
    BY <1>1, <1>3, <2>1, <2>2, WorkerStore DEF Working
<1>6. IdsInv'
  BY <1>0, <1>1, <1>3, IdsKeeps DEF Types
<1> QED
  BY <1>0, <1>1, <1>3, <1>4, <1>5, <1>6, RowsStay, PlacesApart, WorkStep

\* A row is inserted, with an id that nothing has had.
LEMMA InsertIs ==
    ASSUME Types, IdsInv, NEW g \in Versions, NEW row \in RowRecord, row.source = "none", ImageInsert(g, row),
           NEW t \in Threads, StepOf(t), UNCHANGED aliases, threads'[t].at \notin {"access", "move"}
    PROVE  /\ rows' \in [Versions -> RowRecord] /\ ids' \in Nat /\ rows'[g].id = ids + 1 /\ rows'[g].id # 0
           /\ rows'[g].source = "none" /\ \A fp \in Versions \ {g} : rows'[fp] = rows[fp]
           /\ \A fp \in Versions : rows'[fp].id \in {rows[fp].id, 0} \/ rows'[fp].id > ids
           /\ \A fp \in Versions : rows'[fp].source \in {rows[fp].source, "none"}
           /\ IdsInv'
<1> DEFINE n == ids + 1
           r == [row EXCEPT !.id = n]
<1>1. n \in Nat /\ n > ids /\ n # 0 /\ ids \in Nat /\ ids' = n /\ rows' = [rows EXCEPT ![g] = r]
  BY DEF Types, ImageInsert
<1>2. \A x \in Nat : x <= ids => x <= n /\ x # n
  BY <1>1
<1> HIDE DEF n
<1>3. r \in RowRecord /\ r.id = n /\ r.source = "none"
  BY <1>1 DEF RowRecord
<1> HIDE DEF r
<1>4. /\ rows' \in [Versions -> RowRecord] /\ rows'[g] = r /\ \A fp \in Versions \ {g} : rows'[fp] = rows[fp]
  BY <1>1, <1>3 DEF Types
<1>5. \A fp \in Versions : rows[fp].id \in Nat /\ rows[fp].id <= ids
  BY DEF Types, RowRecord, IdsInv
<1>6. \A fp \in Versions : rows'[fp].id <= n
  BY <1>1, <1>2, <1>3, <1>4, <1>5
<1>7. \A fp, h \in Versions : rows'[fp].id = rows'[h].id /\ rows'[fp].id # 0 => fp = h
  BY <1>2, <1>3, <1>4, <1>5 DEF IdsInv
<1>8. \A a \in Aliases : aliases'[a] <= n
  BY <1>2 DEF Types, IdsInv
<1>9. ASSUME NEW u \in Threads, threads'[u].at \in {"access", "move"} PROVE threads'[u].new # 0 /\ threads'[u].new <= n
  <2>1. u # t /\ threads[u].at \in {"access", "move"} /\ threads'[u].new = threads[u].new
    BY <1>9 DEF StepOf, Same
  <2>2. threads[u].new \in Nat
    BY DEF Types, ThreadRecord
  <2> QED
    BY <1>2, <2>1, <2>2 DEF IdsInv
<1>10. IdsInv'
  BY <1>1, <1>6, <1>7, <1>8, <1>9 DEF IdsInv
<1> QED
  BY <1>1, <1>3, <1>4, <1>10 DEF n

\* The row of a downloaded image.
LEMMA InsertImageInv ==
    ASSUME ImagesIInv, NEW t \in Threads, InsertImage(t)
    PROVE  ImagesIInv'
<1> DEFINE g == threads[t].fp
           row == [NoRow EXCEPT !.auto = (threads[t].via # "none")]
<1>0. Types /\ IdsInv /\ KindInv
  BY DEF ImagesIInv
<1>1. /\ threads[t].at = "insert" /\ g \in Versions
      /\ UNCHANGED <<files, volumes, aliases, server, cache, saved, queue, served, harm, mixed, kept, broken>>
      /\ \/ ImageInsert(g, row) /\ Goto(t, "record")
         \/ ImageGet(g) /\ Goto(t, "cleanup") /\ UNCHANGED <<rows, ids>>
  BY <1>0, PlacesApart DEF InsertImage, streams, ghosts, KindInv
<1>2. row \in RowRecord /\ row.source = "none"
  BY DEF NoRow, RowRecord
<1> HIDE DEF row
<1>3. PICK x \in {"record", "cleanup"} : Goto(t, x) /\ (x = "record" => ImageInsert(g, row))
                                         /\ (x = "cleanup" => ImageGet(g) /\ UNCHANGED <<rows, ids>>)
  BY <1>1
<1>4. /\ StepOf(t) /\ \A u \in Threads \ {t} : threads'[u] = threads[u]
      /\ threads'[t].at = x
      /\ threads'[t].kind = threads[t].kind /\ threads'[t].fp = threads[t].fp
      /\ threads'[t].via = threads[t].via /\ threads'[t].old = threads[t].old /\ threads'[t].id = threads[t].id
      /\ threads'[t].new = threads[t].new
      /\ threads'[t].tries = threads[t].tries /\ threads'[t].late = threads[t].late
  <2>1. x \in Places
    BY PlacesApart DEF Leaving
  <2> QED
    BY <1>0, <1>3, <2>1, GotoIs DEF Types
<1>5. /\ rows' \in [Versions -> RowRecord] /\ ids' \in Nat /\ IdsInv'
      /\ \A fp \in Versions \ {g} : rows'[fp] = rows[fp]
      /\ \A fp \in Versions : rows'[fp].id \in {rows[fp].id, 0} \/ rows'[fp].id > ids
      /\ \A fp \in Versions : rows'[fp].source \in {rows[fp].source, "none"}
      /\ x = "record" => rows'[g].id # 0
  <2>1. CASE x = "record"
    BY <1>0, <1>1, <1>2, <1>3, <1>4, <2>1, InsertIs
  <2>2. CASE x = "cleanup"
    <3>1. IdsInv'
      BY <1>0, <1>1, <1>3, <1>4, <2>2, IdsKeeps DEF Types
    <3> QED
      BY <1>0, <1>3, <2>2, <3>1 DEF Types
  <2> QED
    BY <2>1, <2>2
<1>6. Types'
  BY <1>0, <1>1, <1>4, <1>5 DEF Types, StepOf, queue
<1>7. StoreInv'
  <2>1. \A fp \in Versions \ {g} : rows'[fp].id = rows[fp].id /\ files'[fp] = files[fp] /\ (fp \in volumes' <=> fp \in volumes)
    BY <1>1, <1>5
  <2>2. ASSUME Progress(t)
        PROVE  /\ x = "record" /\ files'[g] # "none" /\ (g \notin broken' => Settled(g)')
               /\ threads'[t].at \notin Working
    BY <1>1, <1>3, <1>4, <1>5, <2>2 DEF Progress, ImageGet, Settled, Working
  <2> QED
    BY <1>1, <1>4, <2>1, <2>2, WorkerStore DEF Working
<1>8. threads[t].at \in Working \cap Registered /\ threads'[t].at \in Registered
      /\ threads'[t].at \in Working \cup Leaving /\ threads'[t].at \notin {"volume", "file", "row"}
  BY <1>1, <1>4, PlacesApart DEF Leaving
<1> QED
  BY <1>0, <1>1, <1>4, <1>5, <1>6, <1>7, <1>8, WorkStep

\* The source of an image is noted.
LEMMA RecordSourceInv ==
    ASSUME ImagesIInv, NEW t \in Threads, RecordSource(t)
    PROVE  ImagesIInv'
<1> DEFINE g == threads[t].fp
<1>0. Types /\ IdsInv /\ KindInv /\ StoreInv
  BY DEF ImagesIInv
<1>1. /\ threads[t].at = "record" /\ g \in Versions
      /\ UNCHANGED <<files, volumes, aliases, ids, server, cache, saved, queue, served, harm, mixed, kept, broken>>
      /\ rows' = IF ImageGet(g)
                 THEN [rows EXCEPT ![g].source = threads[t].via, ![g].cached = @ \/ threads[t].kind = "launch"] ELSE rows
  BY <1>0, PlacesApart DEF RecordSource, streams, ghosts, KindInv, Leaving
<1>2. PICK x \in {"failed", "unlock"} : Goto(t, x)
  BY DEF RecordSource
<1>3. /\ StepOf(t) /\ \A u \in Threads \ {t} : threads'[u] = threads[u]
      /\ threads'[t].at = x
      /\ threads'[t].kind = threads[t].kind /\ threads'[t].fp = threads[t].fp
      /\ threads'[t].via = threads[t].via /\ threads'[t].old = threads[t].old /\ threads'[t].id = threads[t].id
      /\ threads'[t].new = threads[t].new
      /\ threads'[t].tries = threads[t].tries /\ threads'[t].late = threads[t].late
  <2>1. x \in Places
    BY PlacesApart DEF Leaving
  <2> QED
    BY <1>0, <1>2, <2>1, GotoIs DEF Types
<1>4. /\ rows' \in [Versions -> RowRecord] /\ \A fp \in Versions \ {g} : rows'[fp] = rows[fp]
      /\ rows'[g].id = rows[g].id /\ rows'[g].source \in {rows[g].source, threads[t].via}
  <2> DEFINE c == rows[g].cached \/ threads[t].kind = "launch"
             v == threads[t].via
             r == [rows[g] EXCEPT !.source = v, !.cached = c]
  <2>1. rows[g] \in RowRecord /\ v \in Protocols \cup {"none"}
    BY <1>0, <1>1 DEF Types, ThreadRecord
  <2>2. c \in BOOLEAN
    BY <2>1 DEF RowRecord
  <2>3. rows' = IF ImageGet(g) THEN [rows EXCEPT ![g] = r] ELSE rows
    BY <1>0, <1>1 DEF Types
  <2> HIDE DEF c, v
  <2>4. r \in RowRecord /\ r.id = rows[g].id /\ r.source = v
    BY <2>1, <2>2 DEF RowRecord
  <2> HIDE DEF r
  <2>5. rows' \in [Versions -> RowRecord] /\ \A fp \in Versions \ {g} : rows'[fp] = rows[fp]
    BY <1>0, <1>1, <2>3, <2>4 DEF Types
  <2>6. rows'[g] = r \/ rows'[g] = rows[g]
    BY <1>0, <1>1, <2>3, <2>4 DEF Types
  <2> QED
    BY <2>4, <2>5, <2>6 DEF v
<1>5. \A fp \in Versions : rows'[fp].id = rows[fp].id
  BY <1>4
<1>6. Types'
  BY <1>0, <1>1, <1>3, <1>4 DEF Types, StepOf, queue
<1>7. "record" \in Leaving /\ x \in Leaving /\ Leaving \cap Working = {} /\ Leaving \subseteq Registered
  BY PlacesApart DEF Leaving
<1>8. StoreInv'
  <2>1. threads[t].at \notin Working /\ threads'[t].at \notin Working
    BY <1>1, <1>3, <1>7
  <2> QED
    BY <1>0, <1>1, <1>3, <1>5, <2>1, StoreKeeps
<1>9. IdsInv'
  BY <1>0, <1>1, <1>3, <1>5, IdsKeeps DEF Types
<1>10. \A fp \in Versions : \/ rows'[fp].source \in {rows[fp].source, "none"}
                            \/ fp = threads[t].fp /\ rows'[fp].source = threads[t].via
  BY <1>4
<1>11. threads[t].at \in Leaving \ Working /\ threads'[t].at \in Leaving \ Working
       /\ threads[t].at \in Registered /\ threads'[t].at \in Registered
       /\ threads[t].at \notin {"volume", "file", "row"} /\ threads'[t].at \notin {"volume", "file", "row"}
  BY <1>1, <1>3, <1>7, PlacesApart
<1> QED
  BY <1>1, <1>3, <1>5, <1>6, <1>8, <1>9, <1>10, <1>11, WorkStep

\* A failed download takes back what it has made.
LEMMA CleanupInv ==
    ASSUME ImagesIInv, NEW t \in Threads, Cleanup(t)
    PROVE  ImagesIInv'
<1> DEFINE g == threads[t].fp
<1>0. Types /\ IdsInv /\ KindInv
  BY DEF ImagesIInv
<1>1. /\ threads[t].at = "cleanup" /\ g \in Versions
      /\ files' = [files EXCEPT ![g] = "none"] /\ volumes' = volumes \ {g}
      /\ threads' = [Unlinked(g) EXCEPT ![t].at = "failed"]
      /\ UNCHANGED <<rows, aliases, ids, server, cache, saved, queue, served, harm, mixed, kept, broken>>
  BY <1>0, PlacesApart DEF Cleanup, streams, ghosts, KindInv
<1>2. /\ StepOf(t) /\ threads'[t].at = "failed"
      /\ threads'[t].kind = threads[t].kind /\ threads'[t].fp = threads[t].fp
      /\ threads'[t].via = threads[t].via /\ threads'[t].old = threads[t].old /\ threads'[t].id = threads[t].id
      /\ threads'[t].new = threads[t].new
      /\ threads'[t].tries = threads[t].tries /\ threads'[t].late = threads[t].late
      /\ \A u \in Threads \ {t} : threads[u].fp # g => threads'[u] = threads[u]
  <2>1. "failed" \in Places
    BY PlacesApart DEF Leaving
  <2> QED
    BY <1>0, <1>1, <2>1, UnlinkedIs DEF Types
<1>3. files' \in [Versions -> {"none", "partial", "torn", "full"}] /\ files'[g] = "none"
      /\ \A fp \in Versions \ {g} : files'[fp] = files[fp]
  BY <1>0, <1>1 DEF Types
<1>4. Types'
  BY <1>0, <1>1, <1>2, <1>3 DEF Types, StepOf, queue
<1>5. threads[t].at \in Working \cap Registered /\ threads'[t].at \in Leaving /\ threads'[t].at \in Registered
      /\ threads'[t].at \notin Working /\ threads'[t].at \notin {"volume", "file", "row"}
  BY <1>1, <1>2, PlacesApart DEF Leaving
<1>6. StoreInv'
  <2>1. \A fp \in Versions \ {g} : rows'[fp].id = rows[fp].id /\ files'[fp] = files[fp] /\ (fp \in volumes' <=> fp \in volumes)
    BY <1>1, <1>3
  <2>2. ASSUME Progress(t) PROVE Settled(g)' /\ g \notin volumes'
    BY <1>1, <1>2, <1>3, <2>2 DEF Progress, ImageGet, Settled
  <2> QED
    BY <1>1, <1>2, <1>5, <2>1, <2>2, WorkerStore
<1>7. IdsInv'
  BY <1>0, <1>1, <1>2, IdsKeeps DEF Types
<1> QED
  BY <1>0, <1>1, <1>2, <1>4, <1>5, <1>6, <1>7, RowsStay, WorkStep

\* A volume is deleted, or stays.
LEMMA DeleteVolumeInv ==
    ASSUME ImagesIInv, NEW t \in Threads, DeleteVolume(t)
    PROVE  ImagesIInv'
<1> DEFINE g == threads[t].fp
<1>0. Types /\ IdsInv /\ KindInv
  BY DEF ImagesIInv
<1>1. /\ threads[t].at = "volume" /\ g \in Versions /\ Goto(t, "file")
      /\ UNCHANGED <<rows, files, aliases, ids, server, cache, saved, queue, served, mixed>>
      /\ harm' \in Nat
      /\ \/ volumes' = volumes \ {g} /\ UNCHANGED <<kept, broken>>
         \/ volumes' = volumes /\ broken' = broken \cup {g} /\ kept' = kept \cup {g}
  BY <1>0, PlacesApart DEF DeleteVolume, streams, KindInv, Types
<1>2. /\ StepOf(t) /\ \A u \in Threads \ {t} : threads'[u] = threads[u]
      /\ threads'[t].at = "file"
      /\ threads'[t].kind = threads[t].kind /\ threads'[t].fp = threads[t].fp
      /\ threads'[t].via = threads[t].via /\ threads'[t].old = threads[t].old /\ threads'[t].id = threads[t].id
      /\ threads'[t].new = threads[t].new
      /\ threads'[t].tries = threads[t].tries /\ threads'[t].late = threads[t].late
  <2>1. "file" \in Places
    BY PlacesApart
  <2> QED
    BY <1>0, <1>1, <2>1, GotoIs DEF Types
<1>3. Types'
  BY <1>0, <1>1, <1>2 DEF Types, StepOf, queue
<1>4. StoreInv'
  <2>1. \A fp \in Versions \ {g} : rows'[fp].id = rows[fp].id /\ files'[fp] = files[fp] /\ (fp \in volumes' <=> fp \in volumes)
    BY <1>1
  <2>2. ASSUME Progress(t), files[g] = "none" /\ g \notin kept => g \notin volumes
        PROVE  Progress(t)' /\ (files'[g] = "none" /\ g \notin kept' => g \notin volumes')
    BY <1>1, <1>2, <2>2 DEF Progress, ImageGet
  <2> QED
    BY <1>1, <1>2, <2>1, <2>2, WorkerStore DEF Working
<1>5. IdsInv'
  BY <1>0, <1>1, <1>2, IdsKeeps DEF Types
<1>6. broken \subseteq broken'
  BY <1>1
<1> QED
  BY <1>0, <1>1, <1>2, <1>3, <1>4, <1>5, <1>6, RowsStay, PlacesApart, WorkStep

\* The file goes after the volume.
LEMMA DeleteFilesInv ==
    ASSUME ImagesIInv, NEW t \in Threads, DeleteFiles(t)
    PROVE  ImagesIInv'
<1> DEFINE g == threads[t].fp
<1>0. Types /\ IdsInv /\ KindInv
  BY DEF ImagesIInv
<1>1. /\ threads[t].at = "file" /\ g \in Versions
      /\ files' = [files EXCEPT ![g] = "none"]
      /\ threads' = [Unlinked(g) EXCEPT ![t].at = "row"]
      /\ UNCHANGED <<rows, volumes, aliases, ids, server, cache, saved, queue, served, harm, mixed, kept, broken>>
  BY <1>0, PlacesApart DEF DeleteFiles, streams, ghosts, KindInv
<1>2. /\ StepOf(t) /\ threads'[t].at = "row"
      /\ threads'[t].kind = threads[t].kind /\ threads'[t].fp = threads[t].fp
      /\ threads'[t].via = threads[t].via /\ threads'[t].old = threads[t].old /\ threads'[t].id = threads[t].id
      /\ threads'[t].new = threads[t].new
      /\ threads'[t].tries = threads[t].tries /\ threads'[t].late = threads[t].late
      /\ \A u \in Threads \ {t} : threads[u].fp # g => threads'[u] = threads[u]
  <2>1. "row" \in Places
    BY PlacesApart
  <2> QED
    BY <1>0, <1>1, <2>1, UnlinkedIs DEF Types
<1>3. files' \in [Versions -> {"none", "partial", "torn", "full"}] /\ files'[g] = "none"
      /\ \A fp \in Versions \ {g} : files'[fp] = files[fp]
  BY <1>0, <1>1 DEF Types
<1>4. Types'
  BY <1>0, <1>1, <1>2, <1>3 DEF Types, StepOf, queue
<1>5. StoreInv'
  <2>1. \A fp \in Versions \ {g} : rows'[fp].id = rows[fp].id /\ files'[fp] = files[fp] /\ (fp \in volumes' <=> fp \in volumes)
    BY <1>1, <1>3
  <2>2. ASSUME Progress(t) PROVE Progress(t)' /\ (g \notin kept' => g \notin volumes')
    BY <1>1, <1>2, <1>3, <2>2 DEF Progress, ImageGet
  <2> QED
    BY <1>1, <1>2, <2>1, <2>2, WorkerStore DEF Working
<1>6. IdsInv'
  BY <1>0, <1>1, <1>2, IdsKeeps DEF Types
<1> QED
  BY <1>0, <1>1, <1>2, <1>4, <1>5, <1>6, RowsStay, PlacesApart, WorkStep

\* And the row last, with its aliases.
LEMMA ImageDeleteInv ==
    ASSUME ImagesIInv, NEW t \in Threads, ImageDelete(t)
    PROVE  ImagesIInv'
<1>g. PICK g : g = threads[t].fp
  OBVIOUS
<1>0. Types /\ IdsInv /\ KindInv
  BY DEF ImagesIInv
<1>1. /\ threads[t].at = "row" /\ g \in Versions
      /\ rows' = IF rows[g].id = threads[t].id THEN [rows EXCEPT ![g] = NoRow] ELSE rows
      /\ aliases' = [a \in Aliases |-> IF aliases[a] = threads[t].id THEN 0 ELSE aliases[a]]
      /\ threads' = [threads EXCEPT ![t] = Idle]
      /\ UNCHANGED <<files, volumes, ids, server, cache, saved, queue, served, harm, mixed, kept, broken>>
  BY <1>g, <1>0, PlacesApart DEF ImageDelete, Ends, streams, ghosts, KindInv
<1>2. StepOf(t) /\ threads'[t] = Idle /\ \A u \in Threads \ {t} : threads'[u] = threads[u]
  BY <1>0, <1>1, IdleTyped, OneThread DEF Types
<1>3. NoRow \in RowRecord /\ NoRow.id = 0 /\ NoRow.source = "none"
  BY DEF NoRow, RowRecord
<1>4. /\ rows' \in [Versions -> RowRecord] /\ \A fp \in Versions \ {g} : rows'[fp] = rows[fp]
      /\ rows'[g] \in {rows[g], NoRow} /\ (rows[g].id = threads[t].id => rows'[g] = NoRow)
  BY <1>0, <1>1, <1>3 DEF Types
<1>5. aliases' \in [Aliases -> Nat] /\ \A a \in Aliases : aliases'[a] \in {aliases[a], 0}
  BY <1>0, <1>1 DEF Types
<1>6. /\ \A fp \in Versions : rows'[fp].id \in {rows[fp].id, 0}
      /\ \A fp \in Versions : rows'[fp].source \in {rows[fp].source, "none"}
  BY <1>3, <1>4
<1>7. Types'
  BY <1>0, <1>1, <1>2, <1>4, <1>5 DEF Types, StepOf, queue
<1>8. "idle" \notin Working /\ threads'[t].at = "idle" /\ "idle" # "access" /\ "idle" # "move"
  BY <1>2, IdleTyped
<1>9. StoreInv'
  <2>1. \A fp \in Versions \ {g} : rows'[fp].id = rows[fp].id /\ files'[fp] = files[fp] /\ (fp \in volumes' <=> fp \in volumes)
    BY <1>1, <1>4
  <2>2. ASSUME Progress(t), files[g] = "none" /\ g \notin kept => g \notin volumes, g \notin broken PROVE Settled(g)'
    <3>1. kept \subseteq broken
      BY <1>0 DEF Types
    <3> QED
      BY <1>g, <1>1, <1>3, <1>4, <2>2, <3>1 DEF Progress, ImageGet, Settled
  <2> QED
    BY <1>g, <1>1, <1>2, <1>8, <2>1, <2>2, WorkerStore DEF Working
<1>10. IdsInv'
  BY <1>0, <1>1, <1>2, <1>5, <1>6, <1>8, IdsKeeps DEF Types
<1>11. threads[t].at \notin Registered /\ threads[t].at # "wait"
  BY <1>1, PlacesApart
<1> QED
  BY <1>1, <1>2, <1>5, <1>6, <1>7, <1>9, <1>10, <1>11, EndStep

\* An uploaded file takes its place.
LEMMA MoveUploadInv ==
    ASSUME ImagesIInv, NEW t \in Threads, MoveUpload(t)
    PROVE  ImagesIInv'
<1> DEFINE g == threads[t].fp
<1>0. Types /\ IdsInv /\ KindInv
  BY DEF ImagesIInv
<1>1. /\ threads[t].at = "upload" /\ g \in Versions
      /\ files' = [files EXCEPT ![g] = "full"]
      /\ threads' = [Unlinked(g) EXCEPT ![t].at = "import"]
      /\ UNCHANGED <<rows, volumes, aliases, ids, server, cache, saved, queue, served, harm, mixed, kept, broken>>
  BY <1>0, PlacesApart DEF MoveUpload, streams, ghosts, KindInv
<1>2. /\ StepOf(t) /\ threads'[t].at = "import"
      /\ threads'[t].kind = threads[t].kind /\ threads'[t].fp = threads[t].fp
      /\ threads'[t].via = threads[t].via /\ threads'[t].old = threads[t].old /\ threads'[t].id = threads[t].id
      /\ threads'[t].new = threads[t].new
      /\ threads'[t].tries = threads[t].tries /\ threads'[t].late = threads[t].late
      /\ \A u \in Threads \ {t} : threads[u].fp # g => threads'[u] = threads[u]
  <2>1. "import" \in Places
    BY PlacesApart
  <2> QED
    BY <1>0, <1>1, <2>1, UnlinkedIs DEF Types
<1>3. files' \in [Versions -> {"none", "partial", "torn", "full"}] /\ files'[g] = "full"
      /\ \A fp \in Versions \ {g} : files'[fp] = files[fp]
  BY <1>0, <1>1 DEF Types
<1>4. Types'
  BY <1>0, <1>1, <1>2, <1>3 DEF Types, StepOf, queue
<1>5. StoreInv'
  <2>1. \A fp \in Versions \ {g} : rows'[fp].id = rows[fp].id /\ files'[fp] = files[fp] /\ (fp \in volumes' <=> fp \in volumes)
    BY <1>1, <1>3
  <2>2. ASSUME Progress(t), g \notin broken => Settled(g) PROVE Progress(t)' /\ files'[g] # "none"
    BY <1>1, <1>2, <1>3, <2>2 DEF Progress, ImageGet, Settled
  <2> QED
    BY <1>1, <1>2, <2>1, <2>2, WorkerStore DEF Working
<1>6. IdsInv'
  BY <1>0, <1>1, <1>2, IdsKeeps DEF Types
<1> QED
  BY <1>0, <1>1, <1>2, <1>4, <1>5, <1>6, RowsStay, PlacesApart, WorkStep

\* It is unpacked, or what there is stays.
LEMMA ImportImageInv ==
    ASSUME ImagesIInv, NEW t \in Threads, ImportImage(t)
    PROVE  ImagesIInv'
<1> DEFINE g == threads[t].fp
<1>0. Types /\ IdsInv /\ KindInv
  BY DEF ImagesIInv
<1>1. /\ threads[t].at = "import" /\ g \in Versions
      /\ UNCHANGED <<rows, files, aliases, ids, server, cache, saved, queue, served, mixed, kept>>
      /\ harm' \in Nat
      /\ broken' = IF threads'[t] = Idle THEN broken \cup {g} ELSE broken
      /\ \/ volumes' = volumes \cup {g} /\ Goto(t, "add")
         \/ volumes' = volumes /\ threads' = [threads EXCEPT ![t] = Idle]
  BY <1>0, PlacesApart DEF ImportImage, Store, streams, KindInv, Types
<1>2. CASE volumes' = volumes \cup {g} /\ Goto(t, "add")
  <2>1. /\ StepOf(t) /\ \A u \in Threads \ {t} : threads'[u] = threads[u]
        /\ threads'[t].at = "add"
        /\ threads'[t].kind = threads[t].kind /\ threads'[t].fp = threads[t].fp
        /\ threads'[t].via = threads[t].via /\ threads'[t].old = threads[t].old /\ threads'[t].id = threads[t].id
        /\ threads'[t].new = threads[t].new
        /\ threads'[t].tries = threads[t].tries /\ threads'[t].late = threads[t].late
    <3>1. "add" \in Places
      BY PlacesApart
    <3> QED
      BY <1>0, <1>2, <3>1, GotoIs DEF Types
  <2>2. broken' = broken
    BY <1>1, <2>1, IdleTyped
  <2>3. Types'
    BY <1>0, <1>1, <1>2, <2>1, <2>2 DEF Types, StepOf, queue
  <2>4. StoreInv'
    <3>1. \A fp \in Versions \ {g} : rows'[fp].id = rows[fp].id /\ files'[fp] = files[fp] /\ (fp \in volumes' <=> fp \in volumes)
      BY <1>1, <1>2
    <3>2. ASSUME Progress(t) PROVE Progress(t)' /\ files'[g] # "none"
      BY <1>1, <1>2, <2>1, <2>2, <3>2 DEF Progress, ImageGet
    <3> QED
      BY <1>1, <2>1, <2>2, <3>1, <3>2, WorkerStore DEF Working
  <2>5. IdsInv'
    BY <1>0, <1>1, <2>1, IdsKeeps DEF Types
  <2> QED
    BY <1>0, <1>1, <2>1, <2>2, <2>3, <2>4, <2>5, RowsStay, PlacesApart, WorkStep
<1>3. CASE volumes' = volumes /\ threads' = [threads EXCEPT ![t] = Idle]
  <2>1. StepOf(t) /\ threads'[t] = Idle /\ \A u \in Threads \ {t} : threads'[u] = threads[u]
    BY <1>0, <1>3, IdleTyped, OneThread DEF Types
  <2>2. broken' = broken \cup {g}
    BY <1>1, <2>1
  <2>3. Types'
    BY <1>0, <1>1, <1>3, <2>1, <2>2 DEF Types, StepOf, queue
  <2>4. "idle" \notin Working /\ threads'[t].at = "idle" /\ "idle" # "access" /\ "idle" # "move"
    BY <2>1, IdleTyped
  <2>5. StoreInv'
    <3>1. \A fp \in Versions \ {g} : rows'[fp].id = rows[fp].id /\ files'[fp] = files[fp] /\ (fp \in volumes' <=> fp \in volumes)
      BY <1>1, <1>3
    <3>2. ASSUME Progress(t) PROVE files'[g] # "none"
      BY <1>1, <3>2 DEF Progress
    <3> QED
      BY <1>1, <2>1, <2>2, <2>4, <3>1, <3>2, WorkerStore DEF Working
  <2>6. IdsInv'
    BY <1>0, <1>1, <2>1, <2>4, IdsKeeps DEF Types
  <2>7. threads[t].at \notin Registered /\ threads[t].at # "wait"
    BY <1>1, PlacesApart
  <2>8. \A a \in Aliases : aliases'[a] \in {aliases[a], 0}
    BY <1>1
  <2> QED
    BY <1>1, <2>1, <2>2, <2>3, <2>5, <2>6, <2>7, <2>8, RowsStay, EndStep
<1> QED
  BY <1>1, <1>2, <1>3

\* The row of an upload, unless there is one.
LEMMA AddImageInv ==
    ASSUME ImagesIInv, NEW t \in Threads, AddImage(t)
    PROVE  ImagesIInv'
<1>g. PICK g : g = threads[t].fp
  OBVIOUS
<1>0. Types /\ IdsInv /\ KindInv
  BY DEF ImagesIInv
<1>1. /\ threads[t].at = "add" /\ g \in Versions
      /\ threads' = [threads EXCEPT ![t] = Idle]
      /\ UNCHANGED <<files, volumes, aliases, server, cache, saved, queue, served, harm, mixed, kept, broken>>
      /\ \/ ImageInsert(g, NoRow)
         \/ ImageGet(g) /\ UNCHANGED <<rows, ids>>
  BY <1>g, <1>0, PlacesApart DEF AddImage, Ends, streams, ghosts, KindInv
<1>2. StepOf(t) /\ threads'[t] = Idle /\ \A u \in Threads \ {t} : threads'[u] = threads[u]
  BY <1>0, <1>1, IdleTyped, OneThread DEF Types
<1>3. "idle" \notin Working /\ threads'[t].at = "idle" /\ "idle" # "access" /\ "idle" # "move"
  BY <1>2, IdleTyped
<1>4. NoRow \in RowRecord /\ NoRow.source = "none"
  BY DEF NoRow, RowRecord
<1>5. /\ rows' \in [Versions -> RowRecord] /\ ids' \in Nat /\ IdsInv'
      /\ \A fp \in Versions \ {g} : rows'[fp] = rows[fp]
      /\ \A fp \in Versions : rows'[fp].id \in {rows[fp].id, 0} \/ rows'[fp].id > ids
      /\ \A fp \in Versions : rows'[fp].source \in {rows[fp].source, "none"}
      /\ rows'[g].id # 0
  <2>1. CASE ImageInsert(g, NoRow)
    BY <1>0, <1>1, <1>2, <1>3, <1>4, <2>1, InsertIs
  <2>2. CASE ImageGet(g) /\ UNCHANGED <<rows, ids>>
    <3>1. IdsInv'
      BY <1>0, <1>1, <1>2, <1>3, <2>2, IdsKeeps DEF Types
    <3> QED
      BY <1>0, <1>1, <2>2, <3>1 DEF Types, ImageGet
  <2> QED
    BY <1>1, <2>1, <2>2
<1>6. Types'
  BY <1>0, <1>1, <1>2, <1>5 DEF Types, StepOf, queue
<1>7. StoreInv'
  <2>1. \A fp \in Versions \ {g} : rows'[fp].id = rows[fp].id /\ files'[fp] = files[fp] /\ (fp \in volumes' <=> fp \in volumes)
    BY <1>1, <1>5
  <2>2. ASSUME Progress(t) PROVE files'[g] # "none" /\ (g \notin broken' => Settled(g)')
    BY <1>g, <1>1, <1>5, <2>2 DEF Progress, ImageGet, Settled
  <2> QED
    BY <1>g, <1>1, <1>2, <1>3, <2>1, <2>2, WorkerStore DEF Working
<1>8. threads[t].at \notin Registered /\ threads[t].at # "wait"
  BY <1>1, PlacesApart
<1>9. \A a \in Aliases : aliases'[a] \in {aliases[a], 0}
  BY <1>1
<1> QED
  BY <1>1, <1>2, <1>5, <1>6, <1>7, <1>8, <1>9, EndStep

-----------------------------------------------------------------------------
(* Requests not at work                                                      *)

\* Fingerprints are numbers.
LEMMA Numbers ==
    ASSUME Types
    PROVE  /\ server \in Nat /\ server \in Versions /\ cache.fp \in Nat /\ Versions \subseteq Nat \ {0}
           /\ \A t \in Threads : threads[t].fp \in Nat /\ threads[t].old \in Nat
<1>1. Versions \subseteq Nat \ {0} /\ server \in 1..MaxPublished /\ MaxPublished \in Nat /\ 1..MaxPublished \subseteq Versions
  BY ImagesAssumption DEF Types
<1>2. server \in Versions
  BY <1>1
<1>3. Versions \cup {NoImage} \subseteq Nat
  BY <1>1 DEF NoImage
<1>4. cache.fp \in Versions \cup {NoImage}
  BY DEF Types
<1>5. ASSUME NEW t \in Threads PROVE threads[t].fp \in Versions \cup {NoImage} /\ threads[t].old \in Versions \cup {NoImage}
  <2>1. threads[t] \in ThreadRecord
    BY DEF Types
  <2> QED
    BY <2>1 DEF ThreadRecord
<1> QED
  BY <1>1, <1>2, <1>3, <1>4, <1>5

\* Something may be heard of a server, and the cache goes forward.
LEMMA ForwardHears ==
    ASSUME ForwardInv, Types, NEW t \in Threads, StepOf(t), NEW r, threads'[t] = r,
           server' = server, cache'.fp \in {cache.fp, server}, broken \subseteq broken',
           \A fp \in Versions : rows'[fp].source \in {rows[fp].source, "none"},
           NoImage \notin broken' =>
             /\ Newest(r.via, r.fp)' /\ Newest(r.via, r.old)'
             /\ r.kind = "refresh" /\ r.at \in Located \ {"find", "volume", "file", "row"} => r.old <= r.fp
    PROVE  ForwardInv'
<1> SUFFICES ASSUME NoImage \notin broken' PROVE ForwardInv'
  BY DEF ForwardInv
<1>1. /\ cache.fp <= server
      /\ \A fp \in Versions : Newest(rows[fp].source, fp)
      /\ \A u \in Threads :
           /\ Newest(threads[u].via, threads[u].fp) /\ Newest(threads[u].via, threads[u].old)
           /\ threads[u].kind = "refresh" /\ threads[u].at \in Located \ {"find", "volume", "file", "row"}
                => threads[u].old <= threads[u].fp
  BY DEF ForwardInv
<1>2. server \in Nat /\ cache.fp \in Nat /\ Versions \subseteq Nat
  BY Numbers
<1>3. cache'.fp <= server' /\ \A x \in Nat : x <= cache.fp => x <= cache'.fp
  BY <1>1, <1>2
<1>4. \A via : \A x \in Nat : Newest(via, x) => Newest(via, x)'
  BY <1>3 DEF Newest
<1>5. \A fp \in Versions : Newest(rows'[fp].source, fp) /\ Newest("none", fp)'
  BY <1>1 DEF Newest
<1>6. ASSUME NEW fp \in Versions
      PROVE  /\ rows'[fp].source = "lxd" => fp <= server'
             /\ rows'[fp].source = "simplestreams" => fp <= cache'.fp
  <2>1. fp \in Nat /\ (fp <= cache.fp => fp <= cache'.fp)
    BY <1>2, <1>3
  <2> QED
    BY <1>5, <2>1 DEF Newest
<1>7. ASSUME NEW u \in Threads
      PROVE  /\ threads'[u].via = "lxd" => threads'[u].fp <= server' /\ threads'[u].old <= server'
             /\ threads'[u].via = "simplestreams" => threads'[u].fp <= cache'.fp /\ threads'[u].old <= cache'.fp
             /\ threads'[u].kind = "refresh" /\ threads'[u].at \in Located \ {"find", "volume", "file", "row"}
                  => threads'[u].old <= threads'[u].fp
  <2>1. CASE u = t
    BY <2>1 DEF Newest
  <2>2. CASE u # t
    <3>1. Same(u)
      BY <2>2 DEF StepOf
    <3>2. threads[u].fp \in Nat /\ threads[u].old \in Nat
      BY Numbers
    <3>3. Newest(threads[u].via, threads[u].fp) /\ Newest(threads[u].via, threads[u].old)
      BY <1>1
    <3>4. /\ threads[u].via = "lxd" => threads[u].fp <= server' /\ threads[u].old <= server'
          /\ threads[u].via = "simplestreams" => threads[u].fp <= cache'.fp /\ threads[u].old <= cache'.fp
      BY <1>3, <3>2, <3>3 DEF Newest
    <3> QED
      BY <1>1, <3>1, <3>4 DEF Same
  <2> QED
    BY <2>1, <2>2
<1> QED
  BY <1>3, <1>6, <1>7 DEF ForwardInv, Newest

\* A request that is not at work moves on, no image changes, and the channels are seen to.
LEMMA QueueTurn ==
    ASSUME ImagesIInv, NEW t \in Threads, NEW r \in ThreadRecord, threads' = [threads EXCEPT ![t] = r],
           UNCHANGED <<files, volumes, aliases, ids, kept, broken, server>>,
           downloading' \in [Versions -> Nat], mixed \subseteq mixed', mixed' \subseteq Versions,
           ChannelInv', AloneInv',
           served' \in Nat, harm' \in Nat, saved' \in Versions \cup {NoImage},
           cache' \in [fp : Versions \cup {NoImage}, expired : BOOLEAN], cache'.fp \in {cache.fp, server},
           rows' \in [Versions -> RowRecord],
           \A fp \in Versions : rows'[fp].id = rows[fp].id /\ rows'[fp].source = rows[fp].source,
           threads[t].at \notin Working, r.at \notin Working, r.at # "find", r.at # "publish",
           r.at \in Located => r.fp \in Versions,
           r.at \in {"source", "lookup", "access", "move"} => r.kind = "refresh",
           r.at = "source" => r.fp = NoImage,
           r.at \in Fetching => r.kind \in {"launch", "copy", "url", "refresh"},
           r.at \in {"access", "move"} => r.new # 0 /\ r.new <= ids,
           r.kind = "refresh" =>
             /\ r.old \in Versions /\ r.tries = 0 /\ (r.at \in {"lookup", "access", "move"} => r.fp # r.old)
             /\ threads[t].kind = "refresh" \/ \A u \in Threads \ {t} : threads[u].kind # "refresh",
           NoImage \notin broken =>
             /\ Newest(r.via, r.fp)' /\ Newest(r.via, r.old)'
             /\ r.kind = "refresh" /\ r.at \in Located => r.old <= r.fp
    PROVE  ImagesIInv'
<1>0. Types /\ StoreInv /\ IdsInv /\ KindInv /\ LateInv /\ ForwardInv
  BY DEF ImagesIInv
<1>1. StepOf(t) /\ threads'[t] = r /\ \A u \in Threads \ {t} : threads'[u] = threads[u]
  BY <1>0, OneThread DEF Types
<1>2. Types'
  BY <1>0, <1>1 DEF Types, StepOf
<1>3. r.at \notin {"find", "volume", "file", "row"}
  BY PlacesApart
<1>6. StoreInv'
  BY <1>0, <1>1, <1>3, StoreKeeps
<1>7. IdsInv'
  BY <1>0, <1>1, IdsKeeps DEF Types
<1>8. KindInv'
  BY <1>0, <1>1, KindKeeps
<1>9. LateInv'
  <2>1. \A a \in Aliases : aliases'[a] \in {aliases[a], 0}
    OBVIOUS
  <2> QED
    BY <1>0, <1>1, <1>3, <2>1, LateKeeps DEF Types
<1>10. ForwardInv'
  BY <1>0, <1>1, ForwardHears
<1> QED
  BY <1>2, <1>6, <1>7, <1>8, <1>9, <1>10 DEF ImagesIInv

\* And the channels are not touched.
LEMMA QuietTurn ==
    ASSUME ImagesIInv, NEW t \in Threads, NEW r \in ThreadRecord, threads' = [threads EXCEPT ![t] = r],
           UNCHANGED <<files, volumes, aliases, ids, queue, mixed, kept, broken, server>>,
           served' \in Nat, harm' \in Nat, saved' \in Versions \cup {NoImage},
           cache' \in [fp : Versions \cup {NoImage}, expired : BOOLEAN], cache'.fp \in {cache.fp, server},
           rows' \in [Versions -> RowRecord],
           \A fp \in Versions : rows'[fp].id = rows[fp].id /\ rows'[fp].source = rows[fp].source,
           threads[t].at \notin Working \cup Registered, threads[t].at # "wait",
           r.at \notin Working \cup Registered, r.at # "find", r.at # "publish",
           r.at = "wait" => r.chan # 0 /\ r.chan = downloading[r.fp],
           r.at \in Located => r.fp \in Versions,
           r.at \in {"source", "lookup", "access", "move"} => r.kind = "refresh",
           r.at = "source" => r.fp = NoImage,
           r.at \in Fetching => r.kind \in {"launch", "copy", "url", "refresh"},
           r.at \in {"access", "move"} => r.new # 0 /\ r.new <= ids,
           r.kind = "refresh" =>
             /\ r.old \in Versions /\ r.tries = 0 /\ (r.at \in {"lookup", "access", "move"} => r.fp # r.old)
             /\ threads[t].kind = "refresh" \/ \A u \in Threads \ {t} : threads[u].kind # "refresh",
           NoImage \notin broken =>
             /\ Newest(r.via, r.fp)' /\ Newest(r.via, r.old)'
             /\ r.kind = "refresh" /\ r.at \in Located => r.old <= r.fp
    PROVE  ImagesIInv'
<1>0. Types /\ ChannelInv /\ AloneInv
  BY DEF ImagesIInv
<1>1. StepOf(t) /\ threads'[t] = r
  BY <1>0, OneThread DEF Types
<1>2. ChannelInv'
  BY <1>0, <1>1, ChannelKeeps
<1>3. AloneInv'
  BY <1>0, <1>1, AloneKeeps
<1>4. downloading' \in [Versions -> Nat] /\ mixed' \subseteq Versions
  BY <1>0 DEF Types, queue
<1> QED
  BY <1>2, <1>3, <1>4, QueueTurn

\* A failing request ends, or is a copy to be tried again.
LEMMA FailingIs ==
    ASSUME NEW t \in Threads, threads \in [Threads -> ThreadRecord]
    PROVE  \E r \in ThreadRecord :
             /\ Failing(t) = [threads EXCEPT ![t] = r]
             /\ r.at \in {"idle", "resolve"} /\ r.kind # "refresh" /\ (r.at = "resolve" => r.kind = "copy")
             /\ r.fp = 0 /\ r.old = 0 /\ r.chan = 0 /\ (r.at = "idle" => r.kind = "none")
<1> DEFINE r == IF threads[t].tries > 0
                THEN [Idle EXCEPT !.kind = "copy", !.at = "resolve", !.via = threads[t].via] ELSE Idle
<1>1. Failing(t) = [threads EXCEPT ![t] = r]
  BY DEF Failing
<1>2. threads[t].via \in Protocols \cup {"none"}
  BY DEF ThreadRecord
<1>3. /\ r \in ThreadRecord /\ r.at \in {"idle", "resolve"} /\ r.kind # "refresh" /\ (r.at = "resolve" => r.kind = "copy")
      /\ r.fp = 0 /\ r.old = 0 /\ r.chan = 0 /\ (r.at = "idle" => r.kind = "none")
  BY <1>2, PlacesApart DEF Idle, ThreadRecord, NoImage
<1> QED
  BY <1>1, <1>3

\* What follows a download.
LEMMA DownloadedIs ==
    ASSUME Types, KindInv, NEW t \in Threads, threads[t].at \in Fetching
    PROVE  LET r == Downloaded(t) IN
           /\ r \in ThreadRecord /\ r.at \in {"idle", "update", "lookup"}
           /\ r.at = "idle" => r = Idle
           /\ r.at # "idle" => /\ r.kind = threads[t].kind /\ r.fp = threads[t].fp /\ r.via = threads[t].via
                               /\ r.old = threads[t].old /\ r.tries = threads[t].tries
           /\ r.at = "lookup" => r.kind = "refresh" /\ r.fp # r.old
           /\ r.kind = "refresh" => r.at = "lookup"
<1>1. threads[t] \in ThreadRecord /\ threads[t].kind \in {"launch", "copy", "url", "refresh"}
  BY DEF Types, KindInv
<1>2. "update" \in Places /\ "lookup" \in Places
  BY PlacesApart
<1>3. CASE threads[t].kind = "launch"
  BY <1>3, IdleTyped DEF Downloaded
<1>4. CASE threads[t].kind \in {"copy", "url"}
  <2>1. Downloaded(t) = [threads[t] EXCEPT !.at = "update", !.chan = 0, !.linked = FALSE]
    BY <1>4 DEF Downloaded
  <2> DEFINE r == [threads[t] EXCEPT !.at = "update", !.chan = 0, !.linked = FALSE]
  <2>2. /\ r \in ThreadRecord /\ r.at = "update" /\ r.kind = threads[t].kind /\ r.fp = threads[t].fp
        /\ r.via = threads[t].via /\ r.old = threads[t].old /\ r.tries = threads[t].tries
    BY <1>1, <1>2 DEF ThreadRecord
  <2> HIDE DEF r
  <2>3. Downloaded(t) = r
    BY <2>1 DEF r
  <2> QED
    BY <1>4, <2>2, <2>3
<1>5. CASE threads[t].kind = "refresh" /\ threads[t].fp = threads[t].old
  BY <1>5, IdleTyped DEF Downloaded
<1>6. CASE threads[t].kind = "refresh" /\ threads[t].fp # threads[t].old
  <2>1. Downloaded(t) = [threads[t] EXCEPT !.at = "lookup", !.chan = 0, !.linked = FALSE]
    BY <1>6 DEF Downloaded
  <2> DEFINE r == [threads[t] EXCEPT !.at = "lookup", !.chan = 0, !.linked = FALSE]
  <2>2. /\ r \in ThreadRecord /\ r.at = "lookup" /\ r.kind = threads[t].kind /\ r.fp = threads[t].fp
        /\ r.via = threads[t].via /\ r.old = threads[t].old /\ r.tries = threads[t].tries
    BY <1>1, <1>2 DEF ThreadRecord
  <2> HIDE DEF r
  <2>3. Downloaded(t) = r
    BY <2>1 DEF r
  <2> QED
    BY <1>6, <2>2, <2>3
<1> QED
  BY <1>1, <1>3, <1>4, <1>5, <1>6

\* What is known of a request by the servers' word.
LEMMA NewestKnown ==
    ASSUME Types, ForwardInv, NEW t \in Threads
    PROVE  /\ \A via : Newest(via, 0) /\ \A x : Newest("none", x)
           /\ NoImage \notin broken =>
                /\ Newest(threads[t].via, threads[t].fp) /\ Newest(threads[t].via, threads[t].old)
                /\ threads[t].kind = "refresh" /\ threads[t].at \in Located \ {"find", "volume", "file", "row"}
                     => threads[t].old <= threads[t].fp
                /\ \A fp \in Versions : Newest(rows[fp].source, fp)
                /\ cache.fp <= server
<1>1. server \in Nat /\ cache.fp \in Nat
  BY Numbers
<1>2. \A via : Newest(via, 0) /\ \A x : Newest("none", x)
  BY <1>1 DEF Newest
<1> QED
  BY <1>2 DEF ForwardInv

\* A refresh starts from where the image came from.
LEMMA ImageSourceGetInv ==
    ASSUME ImagesIInv, NEW t \in Threads, ImageSourceGet(t)
    PROVE  ImagesIInv'
<1>0. Types /\ KindInv /\ ForwardInv
  BY DEF ImagesIInv
<1>1. /\ threads[t].at = "source" /\ threads[t].kind = "refresh" /\ threads[t].old \in Versions
      /\ threads[t].tries = 0 /\ threads[t].fp = NoImage /\ threads[t] \in ThreadRecord
      /\ UNCHANGED <<rows, files, volumes, aliases, ids, server, cache, saved, queue, served, harm, mixed, kept, broken>>
  BY <1>0 DEF ImageSourceGet, streams, ghosts, stored, KindInv, Types
<1>2. PICK via : via = rows[threads[t].old].source
  OBVIOUS
<1>3. via \in Protocols \cup {"none"} /\ rows[threads[t].old] \in RowRecord
  BY <1>0, <1>1, <1>2 DEF Types, RowRecord
<1>4. PICK r : /\ threads' = [threads EXCEPT ![t] = r]
               /\ r \in {Idle, [threads[t] EXCEPT !.at = "resolve", !.via = via]}
  BY <1>1, <1>2 DEF ImageSourceGet, Ends
<1>5. /\ r \in ThreadRecord /\ r.at \in {"idle", "resolve"} /\ (r.at = "idle" => r.kind = "none" /\ r.via = "none")
      /\ r.at = "resolve" => /\ r.kind = "refresh" /\ r.via = via /\ r.old = threads[t].old /\ r.fp = 0 /\ r.tries = 0
  <2>1. "resolve" \in Places
    BY PlacesApart
  <2>2. CASE r = Idle
    BY <2>2, IdleTyped
  <2>3. CASE r = [threads[t] EXCEPT !.at = "resolve", !.via = via]
    BY <1>1, <1>3, <2>1, <2>3 DEF ThreadRecord, NoImage
  <2> QED
    BY <1>4, <2>2, <2>3
<1>6. NoImage \notin broken => Newest(r.via, r.fp)' /\ Newest(r.via, r.old)'
  <2>1. NoImage \notin broken => Newest(via, threads[t].old)
    BY <1>0, <1>1, <1>2 DEF ForwardInv
  <2>2. \A x : Newest("none", x)' /\ (Newest(via, x) => Newest(via, x)')
    BY <1>1 DEF Newest
  <2>3. Newest(via, 0)
    BY <1>0, NewestKnown
  <2> QED
    BY <1>5, <2>1, <2>2, <2>3
<1>7. /\ r.at \notin Working \cup Registered /\ r.at \notin Located
      /\ r.at \notin {"find", "wait", "source", "lookup", "access", "move", "publish"}
      /\ r.at \in Fetching => r.kind = "refresh"
      /\ threads[t].at \notin Working \cup Registered
  BY <1>1, <1>5, PlacesApart
<1>8. rows' \in [Versions -> RowRecord]
      /\ \A fp \in Versions : rows'[fp].id = rows[fp].id /\ rows'[fp].source = rows[fp].source
  BY <1>0, <1>1 DEF Types
<1>9. served' \in Nat /\ harm' \in Nat /\ saved' \in Versions \cup {NoImage}
      /\ cache' \in [fp : Versions \cup {NoImage}, expired : BOOLEAN] /\ cache'.fp \in {cache.fp, server}
  BY <1>0, <1>1 DEF Types
<1> QED
  BY <1>1, <1>4, <1>5, <1>6, <1>7, <1>8, <1>9, QuietTurn

\* The alias has been resolved.
LEMMA ResolvedIs ==
    ASSUME Types, KindInv, NEW t \in Threads, NEW fp \in Versions, threads[t].at = "resolve", Resolved(t, fp)
    PROVE  \E r \in ThreadRecord :
             /\ threads' = [threads EXCEPT ![t] = r]
             /\ r.at = "check" /\ r.kind = threads[t].kind /\ r.kind \in {"launch", "copy", "url", "refresh"} /\ r.fp = fp
             /\ r.old = threads[t].old /\ r.via = threads[t].via /\ r.tries = threads[t].tries
<1>1. threads[t] \in ThreadRecord /\ threads[t].kind \in {"launch", "copy", "url", "refresh"} /\ "check" \in Places
  BY PlacesApart DEF Types, KindInv, Fetching
<1> DEFINE r == [threads[t] EXCEPT !.fp = fp, !.at = "check"]
<1>2. threads' = [threads EXCEPT ![t] = r]
  BY DEF Resolved
<1>3. /\ r \in ThreadRecord /\ r.at = "check" /\ r.kind = threads[t].kind /\ r.fp = fp
      /\ r.old = threads[t].old /\ r.via = threads[t].via /\ r.tries = threads[t].tries
  BY <1>1 DEF ThreadRecord
<1> HIDE DEF r
<1> QED
  BY <1>1, <1>2, <1>3

\* The fingerprint a server names is not older than what it named before.
LEMMA ResolveInv ==
    ASSUME ImagesIInv, NEW t \in Threads, NEW fp \in Versions, threads[t].at = "resolve", Resolved(t, fp),
           threads[t].via = "lxd" => fp = server,
           threads[t].via = "simplestreams" => fp = cache'.fp,
           threads[t].via \in {"lxd", "simplestreams"},
           UNCHANGED <<rows, files, volumes, aliases, ids, queue, served, mixed, kept, broken, server>>,
           harm' \in Nat, saved' \in Versions \cup {NoImage},
           cache' \in [fp : Versions \cup {NoImage}, expired : BOOLEAN], cache'.fp \in {cache.fp, server}
    PROVE  ImagesIInv'
<1>0. Types /\ KindInv /\ ForwardInv
  BY DEF ImagesIInv
<1>1. PICK r \in ThreadRecord :
             /\ threads' = [threads EXCEPT ![t] = r]
             /\ r.at = "check" /\ r.kind = threads[t].kind /\ r.kind \in {"launch", "copy", "url", "refresh"} /\ r.fp = fp
             /\ r.old = threads[t].old /\ r.via = threads[t].via /\ r.tries = threads[t].tries
  BY <1>0, ResolvedIs
<1>2. NoImage \notin broken => /\ Newest(r.via, r.fp)' /\ Newest(r.via, r.old)'
                               /\ r.old <= r.fp
  <2>1. server \in Nat /\ cache.fp \in Nat /\ fp \in Nat /\ r.old \in Nat
    BY <1>0, <1>1, Numbers
  <2>2. NoImage \notin broken => cache.fp <= server /\ Newest(threads[t].via, threads[t].old)
    BY <1>0 DEF ForwardInv
  <2> QED
    BY <1>1, <2>1, <2>2 DEF Newest
<1>3. r.kind = "refresh" => r.old \in Versions /\ r.tries = 0
  BY <1>0, <1>1 DEF KindInv
<1>4. r.at \notin Working \cup Registered /\ threads[t].at \notin Working \cup Registered
  BY <1>1, PlacesApart
<1>5. /\ rows' \in [Versions -> RowRecord]
      /\ \A h \in Versions : rows'[h].id = rows[h].id /\ rows'[h].source = rows[h].source
      /\ served' \in Nat
  BY <1>0 DEF Types
<1> QED
  BY <1>1, <1>2, <1>3, <1>4, <1>5, QuietTurn

\* The alias is asked of the server.
LEMMA ResolveLXDInv ==
    ASSUME ImagesIInv, NEW t \in Threads, ResolveLXD(t)
    PROVE  ImagesIInv'
<1>0. Types
  BY DEF ImagesIInv
<1>1. PICK fp : fp = server
  OBVIOUS
<1>2. /\ threads[t].at = "resolve" /\ threads[t].via = "lxd" /\ Resolved(t, fp) /\ fp \in Versions
      /\ UNCHANGED <<rows, files, volumes, aliases, ids, server, cache, saved, queue, served, harm, mixed, kept, broken>>
  BY <1>0, <1>1, Numbers DEF ResolveLXD, streams, ghosts, stored
<1>3. harm' \in Nat /\ saved' \in Versions \cup {NoImage}
      /\ cache' \in [fp : Versions \cup {NoImage}, expired : BOOLEAN] /\ cache'.fp \in {cache.fp, server}
  BY <1>0, <1>2 DEF Types
<1> QED
  BY <1>1, <1>2, <1>3, ResolveInv

\* A request without a download ends, or tries again.
LEMMA EndTurn ==
    ASSUME ImagesIInv, NEW t \in Threads, NEW r \in ThreadRecord, threads' = [threads EXCEPT ![t] = r],
           r.at \in {"idle", "resolve"}, r.kind # "refresh", r.at = "resolve" => r.kind = "copy", r.fp = 0, r.old = 0,
           threads[t].at \notin Working \cup Registered, threads[t].at # "wait",
           UNCHANGED <<files, volumes, aliases, ids, queue, mixed, kept, broken, server>>,
           rows' \in [Versions -> RowRecord], served' \in Nat,
           \A h \in Versions : rows'[h].id = rows[h].id /\ rows'[h].source = rows[h].source,
           harm' \in Nat, saved' \in Versions \cup {NoImage},
           cache' \in [fp : Versions \cup {NoImage}, expired : BOOLEAN], cache'.fp \in {cache.fp, server}
    PROVE  ImagesIInv'
<1>1. Newest(r.via, r.fp)' /\ Newest(r.via, r.old)'
  <2>1. cache'.fp \in Nat /\ server \in Nat
    BY Numbers DEF ImagesIInv
  <2> QED
    BY <2>1 DEF Newest
<1>2. /\ r.at \notin Working \cup Registered /\ r.at \notin Located
      /\ r.at \in Fetching => r.kind \in {"launch", "copy", "url", "refresh"}
  BY PlacesApart
<1> QED
  BY <1>1, <1>2, QuietTurn

\* A request without a download fails.
LEMMA FailInv ==
    ASSUME ImagesIInv, NEW t \in Threads, threads' = Failing(t),
           threads[t].at \notin Working \cup Registered, threads[t].at # "wait",
           UNCHANGED <<rows, files, volumes, aliases, ids, queue, served, mixed, kept, broken, server>>,
           harm' \in Nat, saved' \in Versions \cup {NoImage},
           cache' \in [fp : Versions \cup {NoImage}, expired : BOOLEAN], cache'.fp \in {cache.fp, server}
    PROVE  ImagesIInv'
<1>0. Types /\ KindInv /\ ForwardInv
  BY DEF ImagesIInv
<1>1. PICK r \in ThreadRecord :
             /\ threads' = [threads EXCEPT ![t] = r]
             /\ r.at \in {"idle", "resolve"} /\ r.kind # "refresh" /\ (r.at = "resolve" => r.kind = "copy")
             /\ r.fp = 0 /\ r.old = 0 /\ r.chan = 0 /\ (r.at = "idle" => r.kind = "none")
  BY <1>0, FailingIs DEF Types
<1>2. /\ rows' \in [Versions -> RowRecord]
      /\ \A h \in Versions : rows'[h].id = rows[h].id /\ rows'[h].source = rows[h].source
      /\ served' \in Nat
  BY <1>0 DEF Types
<1> QED
  BY <1>1, <1>2, EndTurn

\* The alias is looked up in the cache, refreshed or not.
LEMMA ResolveStreamsInv ==
    ASSUME ImagesIInv, NEW t \in Threads, ResolveStreams(t)
    PROVE  ImagesIInv'
<1>0. Types
  BY DEF ImagesIInv
<1>1. /\ threads[t].at = "resolve" /\ threads[t].via = "simplestreams"
      /\ UNCHANGED <<rows, files, volumes, aliases, ids, server, queue, served, mixed, kept, broken>>
  BY DEF ResolveStreams, ghosts, stored
<1>2. /\ harm' \in Nat /\ saved' \in Versions \cup {NoImage}
      /\ cache' \in [fp : Versions \cup {NoImage}, expired : BOOLEAN] /\ cache'.fp \in {cache.fp, server}
      /\ \/ cache'.fp # NoImage /\ Resolved(t, cache'.fp)
         \/ threads' = Failing(t)
  <2>1. /\ harm \in Nat /\ saved \in Versions \cup {NoImage} /\ server \in Versions /\ server # NoImage
        /\ cache \in [fp : Versions \cup {NoImage}, expired : BOOLEAN]
    BY <1>0, Numbers DEF Types, NoImage
  <2>2. CASE cache.fp # NoImage /\ Resolved(t, cache.fp) /\ UNCHANGED <<cache, saved, harm>>
    BY <2>1, <2>2
  <2>3. CASE /\ cache' = [fp |-> server, expired |-> FALSE] /\ Resolved(t, server)
             /\ saved' \in {saved, server} /\ harm' \in {harm, harm + 1}
    BY <2>1, <2>3
  <2>4. CASE /\ harm' = harm + 1 /\ cache' = [cache EXCEPT !.expired = FALSE] /\ UNCHANGED saved
             /\ IF cache.fp # NoImage THEN Resolved(t, cache.fp) ELSE threads' = Failing(t)
    <3>1. cache' \in [fp : Versions \cup {NoImage}, expired : BOOLEAN] /\ cache'.fp = cache.fp
      BY <2>1, <2>4
    <3> QED
      BY <2>1, <2>4, <3>1
  <2> QED
    BY <2>2, <2>3, <2>4 DEF ResolveStreams
<1>3. PICK fp : fp = cache'.fp
  OBVIOUS
<1>4. CASE fp # NoImage /\ Resolved(t, fp)
  <2>1. fp \in Versions
    BY <1>2, <1>3, <1>4
  <2> QED
    BY <1>1, <1>2, <1>3, <1>4, <2>1, ResolveInv
<1>5. CASE threads' = Failing(t)
  BY <1>1, <1>2, <1>5, PlacesApart, FailInv
<1> QED
  BY <1>2, <1>3, <1>4, <1>5

\* What follows a download is fit for the request.
LEMMA AfterDownload ==
    ASSUME ImagesIInv, NEW t \in Threads, threads[t].at \in Fetching \cap Located
    PROVE  LET r == Downloaded(t) IN
           /\ r \in ThreadRecord /\ r.at \in {"idle", "update", "lookup"} /\ r.fp \in Versions \cup {NoImage}
           /\ r.at \in Located => r.fp \in Versions
           /\ r.at \in {"source", "lookup", "access", "move"} => r.kind = "refresh"
           /\ r.at \notin Fetching /\ r.at \notin Working /\ r.at \notin Registered
           /\ r.kind = "refresh" =>
                /\ r.old \in Versions /\ r.tries = 0 /\ (r.at \in {"lookup", "access", "move"} => r.fp # r.old)
                /\ threads[t].kind = "refresh"
           /\ NoImage \notin broken =>
                /\ Newest(r.via, r.fp) /\ Newest(r.via, r.old)
                /\ r.kind = "refresh" /\ r.at \in Located => r.old <= r.fp
<1> DEFINE r == Downloaded(t)
<1>0. Types /\ KindInv /\ ForwardInv
  BY DEF ImagesIInv
<1>1. /\ r \in ThreadRecord /\ r.at \in {"idle", "update", "lookup"}
      /\ r.at = "idle" => r = Idle
      /\ r.at # "idle" => /\ r.kind = threads[t].kind /\ r.fp = threads[t].fp /\ r.via = threads[t].via
                          /\ r.old = threads[t].old /\ r.tries = threads[t].tries
      /\ r.at = "lookup" => r.kind = "refresh" /\ r.fp # r.old
      /\ r.kind = "refresh" => r.at = "lookup"
  BY <1>0, DownloadedIs
<1> HIDE DEF r
<1>2. /\ threads[t].fp \in Versions
      /\ threads[t].kind = "refresh" => threads[t].old \in Versions /\ threads[t].tries = 0
      /\ threads[t].at \notin {"find", "volume", "file", "row"}
  BY <1>0, PlacesApart DEF KindInv
<1>3. r.at \notin Fetching /\ r.at \notin Working /\ r.at \notin Registered /\ (r.at = "idle" <=> r.at \notin Located)
  BY <1>1, PlacesApart
<1>4. ASSUME NoImage \notin broken
      PROVE  /\ Newest(r.via, r.fp) /\ Newest(r.via, r.old)
             /\ r.kind = "refresh" /\ r.at \in Located => r.old <= r.fp
  <2>1. CASE r.at = "idle"
    <3>1. r.via = "none" /\ r.kind = "none"
      BY <1>1, <2>1, IdleTyped
    <3> QED
      BY <1>0, <3>1, NewestKnown
  <2>2. CASE r.at # "idle"
    BY <1>0, <1>1, <1>2, <1>4, <2>2, NewestKnown
  <2> QED
    BY <2>1, <2>2
<1>5. r.kind = "refresh" => r.old \in Versions /\ r.tries = 0 /\ threads[t].kind = "refresh"
  BY <1>1, <1>2
<1>6. r.fp \in Versions \cup {NoImage} /\ (r.at \in Located => r.fp \in Versions)
  BY <1>1, <1>2, <1>3 DEF ThreadRecord
<1> QED
  BY <1>1, <1>3, <1>4, <1>5, <1>6 DEF r

\* Newest is about the servers and the cache only.
LEMMA NewestStays ==
    ASSUME UNCHANGED <<server, cache>>, NEW via, NEW x, Newest(via, x)
    PROVE  Newest(via, x)'
BY DEF Newest

\* The request moves within a download, before it is registered.
LEMMA CheckTurn ==
    ASSUME ImagesIInv, NEW t \in Threads, threads[t].at \in {"check", "queue"}, NEW x \in {"queue", "wait", "register"},
           NEW c \in Nat, threads' = [threads EXCEPT ![t] = [threads[t] EXCEPT !.at = x, !.chan = c]],
           x = "wait" => c # 0 /\ c = downloading[threads[t].fp],
           UNCHANGED <<rows, files, volumes, aliases, ids, server, cache, saved, queue, served, harm, mixed, kept, broken>>
    PROVE  ImagesIInv'
<1>0. Types /\ KindInv /\ ForwardInv
  BY DEF ImagesIInv
<1>1. /\ threads[t] \in ThreadRecord /\ threads[t].kind \in {"launch", "copy", "url", "refresh"} /\ threads[t].fp \in Versions
      /\ x \in Places /\ x \in Located /\ x \notin Working \cup Registered
      /\ threads[t].at \notin Working \cup Registered /\ threads[t].at \in Located \ {"find", "volume", "file", "row"}
      /\ threads[t].kind = "refresh" => threads[t].old \in Versions /\ threads[t].tries = 0
  BY <1>0, PlacesApart DEF Types, KindInv, Fetching
<1>2. PICK r : r = [threads[t] EXCEPT !.at = x, !.chan = c]
  OBVIOUS
<1>3. /\ r \in ThreadRecord /\ r.at = x /\ r.chan = c /\ r.kind = threads[t].kind /\ r.fp = threads[t].fp
      /\ r.via = threads[t].via /\ r.old = threads[t].old /\ r.tries = threads[t].tries
  BY <1>1, <1>2 DEF ThreadRecord
<1>4. NoImage \notin broken =>
        /\ Newest(r.via, r.fp)' /\ Newest(r.via, r.old)'
        /\ r.kind = "refresh" => r.old <= r.fp
  BY <1>0, <1>1, <1>3, NewestKnown, NewestStays
<1>5. /\ rows' \in [Versions -> RowRecord] /\ served' \in Nat /\ harm' \in Nat /\ saved' \in Versions \cup {NoImage}
      /\ cache' \in [fp : Versions \cup {NoImage}, expired : BOOLEAN] /\ cache'.fp \in {cache.fp, server}
      /\ \A fp \in Versions : rows'[fp].id = rows[fp].id /\ rows'[fp].source = rows[fp].source
  BY <1>0 DEF Types
<1>6. threads' = [threads EXCEPT ![t] = r]
  BY <1>2
<1> QED
  BY <1>1, <1>3, <1>4, <1>5, <1>6, QuietTurn

\* The image may be there already.
LEMMA CheckExistsInv ==
    ASSUME ImagesIInv, NEW t \in Threads, CheckExists(t)
    PROVE  ImagesIInv'
<1>0. Types /\ KindInv
  BY DEF ImagesIInv
<1>1. /\ threads[t].at = "check" /\ threads[t] \in ThreadRecord
      /\ UNCHANGED <<rows, files, volumes, aliases, ids, server, cache, saved, queue, served, harm, mixed, kept, broken>>
      /\ threads' = [threads EXCEPT ![t] = IF ImageGet(threads[t].fp) THEN Downloaded(t)
                                           ELSE [threads[t] EXCEPT !.at = "queue"]]
  BY <1>0 DEF CheckExists, streams, ghosts, stored, Types
<1>2. CASE threads' = [threads EXCEPT ![t] = Downloaded(t)]
  <2>1. threads[t].at \in Fetching \cap Located /\ threads[t].at \notin Working \cup Registered
    BY <1>1, PlacesApart DEF Fetching
  <2>2. PICK r : r = Downloaded(t)
    OBVIOUS
  <2>3. /\ r \in ThreadRecord /\ r.at \in {"idle", "update", "lookup"}
        /\ r.at \in Located => r.fp \in Versions
        /\ r.at \in {"source", "lookup", "access", "move"} => r.kind = "refresh"
        /\ r.at \notin Fetching /\ r.at \notin Working /\ r.at \notin Registered
        /\ r.kind = "refresh" =>
             /\ r.old \in Versions /\ r.tries = 0 /\ (r.at \in {"lookup", "access", "move"} => r.fp # r.old)
             /\ threads[t].kind = "refresh"
        /\ NoImage \notin broken =>
             /\ Newest(r.via, r.fp) /\ Newest(r.via, r.old)
             /\ r.kind = "refresh" /\ r.at \in Located => r.old <= r.fp
    BY <2>1, <2>2, AfterDownload
  <2>4. NoImage \notin broken => Newest(r.via, r.fp)' /\ Newest(r.via, r.old)'
    BY <1>1, <2>3, NewestStays
  <2>5. /\ rows' \in [Versions -> RowRecord] /\ served' \in Nat /\ harm' \in Nat /\ saved' \in Versions \cup {NoImage}
        /\ cache' \in [fp : Versions \cup {NoImage}, expired : BOOLEAN] /\ cache'.fp \in {cache.fp, server}
        /\ \A fp \in Versions : rows'[fp].id = rows[fp].id /\ rows'[fp].source = rows[fp].source
    BY <1>0, <1>1 DEF Types
  <2>6. threads' = [threads EXCEPT ![t] = r]
    BY <1>2, <2>2
  <2> QED
    BY <1>1, <2>1, <2>3, <2>4, <2>5, <2>6, QuietTurn
<1>3. CASE threads' = [threads EXCEPT ![t] = [threads[t] EXCEPT !.at = "queue"]]
  <2>1. threads[t].chan \in Nat /\ [threads[t] EXCEPT !.at = "queue"] = [threads[t] EXCEPT !.at = "queue", !.chan = threads[t].chan]
    BY <1>1 DEF ThreadRecord
  <2>2. PICK c : c = threads[t].chan
    OBVIOUS
  <2>3. PICK x \in {"queue", "wait", "register"} : x = "queue"
    OBVIOUS
  <2>4. threads' = [threads EXCEPT ![t] = [threads[t] EXCEPT !.at = x, !.chan = c]]
    BY <1>3, <2>1, <2>2, <2>3
  <2> QED
    BY <1>1, <2>1, <2>2, <2>3, <2>4, CheckTurn
<1> QED
  BY <1>1, <1>2, <1>3

\* Or somebody else's download is under way.
LEMMA CheckDownloadingInv ==
    ASSUME ImagesIInv, NEW t \in Threads, CheckDownloading(t)
    PROVE  ImagesIInv'
<1>0. Types /\ KindInv
  BY DEF ImagesIInv
<1>1. PICK c : c = downloading[threads[t].fp]
  OBVIOUS
<1>2. PICK x \in {"wait", "register"} : x = IF c # 0 THEN "wait" ELSE "register"
  OBVIOUS
<1>3. /\ threads[t].at = "queue" /\ threads[t] \in ThreadRecord /\ threads[t].fp \in Versions
      /\ UNCHANGED <<rows, files, volumes, aliases, ids, server, cache, saved, queue, served, harm, mixed, kept, broken>>
  BY <1>0, PlacesApart DEF CheckDownloading, streams, ghosts, stored, Types, KindInv
<1>4. c \in Nat
  BY <1>0, <1>1, <1>3 DEF Types
<1>5. threads' = [threads EXCEPT ![t] = [threads[t] EXCEPT !.at = x, !.chan = c]]
  <2>1. threads' = [threads EXCEPT ![t].at = x, ![t].chan = c]
    BY <1>1, <1>2 DEF CheckDownloading
  <2> QED
    BY <1>0, <2>1 DEF Types
<1> QED
  BY <1>1, <1>2, <1>3, <1>4, <1>5, CheckTurn

\* A row's properties change, not what it stands for.
LEMMA RowEdited ==
    ASSUME Types, NEW g \in Versions, NEW row \in RowRecord, row.id = rows[g].id, row.source = rows[g].source,
           rows' = [rows EXCEPT ![g] = row] \/ rows' = rows
    PROVE  /\ rows' \in [Versions -> RowRecord]
           /\ \A fp \in Versions : rows'[fp].id = rows[fp].id /\ rows'[fp].source = rows[fp].source
BY DEF Types

\* The image gets the request's properties.
LEMMA ImageUpdateInv ==
    ASSUME ImagesIInv, NEW t \in Threads, threads[t].at = "update", ImageUpdate(t)
    PROVE  ImagesIInv'
<1>0. Types /\ KindInv
  BY DEF ImagesIInv
<1>1. /\ threads[t].fp \in Versions /\ threads[t].at \notin Working \cup Registered
      /\ UNCHANGED <<files, volumes, aliases, ids, server, cache, saved, queue, served, harm, mixed, kept, broken>>
  BY <1>0, PlacesApart DEF ImageUpdate, streams, ghosts, KindInv
<1>2. /\ served' \in Nat /\ harm' \in Nat /\ saved' \in Versions \cup {NoImage}
      /\ cache' \in [fp : Versions \cup {NoImage}, expired : BOOLEAN] /\ cache'.fp \in {cache.fp, server}
  BY <1>0, <1>1 DEF Types
<1>3. CASE ImageGet(threads[t].fp)
  <2>1. PICK auto \in BOOLEAN : rows' = [rows EXCEPT ![threads[t].fp].auto = auto] /\ Ends(t)
    BY <1>3 DEF ImageUpdate
  <2>2. PICK g : g = threads[t].fp
    OBVIOUS
  <2>3. PICK row : row = [rows[g] EXCEPT !.auto = auto]
    OBVIOUS
  <2>4. row \in RowRecord /\ row.id = rows[g].id /\ row.source = rows[g].source
    <3>1. rows[g] \in RowRecord
      BY <1>0, <1>1, <2>2 DEF Types
    <3> QED
      BY <2>3, <3>1 DEF RowRecord
  <2>5. rows' = [rows EXCEPT ![g] = row]
    BY <2>1, <2>2, <2>3
  <2>6. /\ rows' \in [Versions -> RowRecord]
        /\ \A fp \in Versions : rows'[fp].id = rows[fp].id /\ rows'[fp].source = rows[fp].source
    BY <1>0, <1>1, <2>2, <2>4, <2>5, RowEdited
  <2>7. threads' = [threads EXCEPT ![t] = Idle]
    BY <2>1 DEF Ends
  <2> QED
    BY <1>1, <1>2, <2>6, <2>7, IdleTyped, EndTurn
<1>4. CASE ~ImageGet(threads[t].fp)
  <2>1. rows' = rows /\ threads' = Failing(t)
    BY <1>4 DEF ImageUpdate
  <2> QED
    BY <1>1, <1>2, <2>1, FailInv
<1> QED
  BY <1>3, <1>4

\* The refresh finds the new image.
LEMMA LookupNewInv ==
    ASSUME ImagesIInv, NEW t \in Threads, LookupNew(t)
    PROVE  ImagesIInv'
<1>0. Types /\ KindInv /\ IdsInv /\ ForwardInv
  BY DEF ImagesIInv
<1>1. /\ threads[t].at = "lookup" /\ threads[t].kind = "refresh" /\ threads[t].old \in Versions
      /\ threads[t].tries = 0 /\ threads[t].fp # threads[t].old /\ threads[t] \in ThreadRecord
      /\ threads[t].fp \in Versions /\ threads[t].at \in Located /\ threads[t].at \notin Working \cup Registered
      /\ UNCHANGED <<rows, files, volumes, aliases, ids, server, cache, saved, queue, served, harm, mixed, kept, broken>>
  BY <1>0, PlacesApart DEF LookupNew, streams, ghosts, stored, KindInv, Types
<1>2. /\ served' \in Nat /\ harm' \in Nat /\ saved' \in Versions \cup {NoImage}
      /\ cache' \in [fp : Versions \cup {NoImage}, expired : BOOLEAN] /\ cache'.fp \in {cache.fp, server}
      /\ rows' \in [Versions -> RowRecord]
      /\ \A fp \in Versions : rows'[fp].id = rows[fp].id /\ rows'[fp].source = rows[fp].source
  BY <1>0, <1>1 DEF Types
<1>3. CASE ImageGet(threads[t].fp)
  <2>1. PICK n : n = rows[threads[t].fp].id
    OBVIOUS
  <2>2. n \in Nat /\ n # 0 /\ n <= ids
    BY <1>0, <1>1, <1>3, <2>1 DEF Types, RowRecord, IdsInv, ImageGet
  <2>3. PICK r : r = [threads[t] EXCEPT !.at = "access", !.new = n]
    OBVIOUS
  <2>4. threads' = [threads EXCEPT ![t] = r]
    BY <1>3, <2>1, <2>3 DEF LookupNew
  <2>5. "access" \in Places /\ "access" \in Located /\ "access" \notin Working \cup Registered \cup Fetching
    BY PlacesApart
  <2>6. /\ r \in ThreadRecord /\ r.at = "access" /\ r.new = n /\ r.kind = "refresh" /\ r.fp = threads[t].fp
        /\ r.via = threads[t].via /\ r.old = threads[t].old /\ r.tries = 0
    BY <1>1, <2>2, <2>3, <2>5 DEF ThreadRecord
  <2>7. NoImage \notin broken => Newest(r.via, r.fp)' /\ Newest(r.via, r.old)' /\ r.old <= r.fp
    BY <1>0, <1>1, <2>6, NewestKnown, NewestStays
  <2> QED
    BY <1>1, <1>2, <2>2, <2>4, <2>5, <2>6, <2>7, QuietTurn
<1>4. CASE ~ImageGet(threads[t].fp)
  <2>1. threads' = [threads EXCEPT ![t] = Idle]
    BY <1>4 DEF LookupNew
  <2> QED
    BY <1>1, <1>2, <2>1, IdleTyped, EndTurn
<1> QED
  BY <1>3, <1>4

\* And hands on the use of the old one.
LEMMA LastAccessInv ==
    ASSUME ImagesIInv, NEW t \in Threads, LastAccess(t)
    PROVE  ImagesIInv'
<1>0. Types /\ KindInv /\ IdsInv /\ ForwardInv
  BY DEF ImagesIInv
<1>1. /\ threads[t].at = "access" /\ threads[t].kind = "refresh" /\ threads[t].old \in Versions
      /\ threads[t].tries = 0 /\ threads[t].fp # threads[t].old /\ threads[t] \in ThreadRecord
      /\ threads[t].fp \in Versions /\ threads[t].at \in Located /\ threads[t].at \notin Working \cup Registered
      /\ threads[t].new # 0 /\ threads[t].new <= ids
      /\ UNCHANGED <<files, volumes, aliases, ids, server, cache, saved, queue, served, harm, mixed, kept, broken>>
  BY <1>0, PlacesApart DEF LastAccess, streams, ghosts, KindInv, Types, IdsInv
<1>2. /\ served' \in Nat /\ harm' \in Nat /\ saved' \in Versions \cup {NoImage}
      /\ cache' \in [fp : Versions \cup {NoImage}, expired : BOOLEAN] /\ cache'.fp \in {cache.fp, server}
  BY <1>0, <1>1 DEF Types
<1>3. /\ rows' \in [Versions -> RowRecord]
      /\ \A fp \in Versions : rows'[fp].id = rows[fp].id /\ rows'[fp].source = rows[fp].source
  <2>1. PICK g : g = threads[t].fp
    OBVIOUS
  <2>2. PICK row : row = [rows[g] EXCEPT !.cached = TRUE]
    OBVIOUS
  <2>3. row \in RowRecord /\ row.id = rows[g].id /\ row.source = rows[g].source
    <3>1. rows[g] \in RowRecord
      BY <1>0, <1>1, <2>1 DEF Types
    <3> QED
      BY <2>2, <3>1 DEF RowRecord
  <2>4. rows' = [rows EXCEPT ![g] = row] \/ rows' = rows
    BY <2>1, <2>2 DEF LastAccess
  <2> QED
    BY <1>0, <1>1, <2>1, <2>3, <2>4, RowEdited
<1>4. "move" \in Places /\ "move" \in Located /\ "move" \notin Working \cup Registered \cup Fetching
  BY PlacesApart
<1>5. PICK r : r = [threads[t] EXCEPT !.at = "move"]
  OBVIOUS
<1>6. threads' = [threads EXCEPT ![t] = r]
  BY <1>5 DEF LastAccess, Goto
<1>7. /\ r \in ThreadRecord /\ r.at = "move" /\ r.new = threads[t].new /\ r.kind = "refresh" /\ r.fp = threads[t].fp
      /\ r.via = threads[t].via /\ r.old = threads[t].old /\ r.tries = 0
  BY <1>1, <1>4, <1>5 DEF ThreadRecord
<1>8. NoImage \notin broken => Newest(r.via, r.fp)' /\ Newest(r.via, r.old)' /\ r.old <= r.fp
  BY <1>0, <1>1, <1>7, NewestKnown, NewestStays
<1> QED
  BY <1>1, <1>2, <1>3, <1>4, <1>6, <1>7, <1>8, QuietTurn

\* And its aliases: none but those set too late stands for the old image after that.
LEMMA ImageAliasesMoveInv ==
    ASSUME ImagesIInv, NEW t \in Threads, ImageAliasesMove(t)
    PROVE  ImagesIInv'
<1>0. Types /\ ChannelInv /\ AloneInv /\ StoreInv /\ IdsInv /\ KindInv /\ LateInv /\ ForwardInv
  BY DEF ImagesIInv
<1>1. /\ threads[t].at = "move" /\ threads[t].kind = "refresh" /\ threads[t].old \in Versions
      /\ threads[t].tries = 0 /\ threads[t].fp # threads[t].old /\ threads[t] \in ThreadRecord
      /\ threads[t].fp \in Versions /\ threads[t].at \in Located /\ threads[t].at \notin Working \cup Registered
      /\ threads[t].new # 0 /\ threads[t].new <= ids
      /\ UNCHANGED <<rows, files, volumes, ids, server, cache, saved, queue, served, harm, mixed, kept, broken>>
  BY <1>0, PlacesApart DEF ImageAliasesMove, streams, ghosts, KindInv, Types, IdsInv
<1>2. CASE aliases' = aliases /\ Ends(t)
  <2>1. /\ served' \in Nat /\ harm' \in Nat /\ saved' \in Versions \cup {NoImage}
        /\ cache' \in [fp : Versions \cup {NoImage}, expired : BOOLEAN] /\ cache'.fp \in {cache.fp, server}
        /\ rows' \in [Versions -> RowRecord]
        /\ \A fp \in Versions : rows'[fp].id = rows[fp].id /\ rows'[fp].source = rows[fp].source
    BY <1>0, <1>1 DEF Types
  <2>2. threads' = [threads EXCEPT ![t] = Idle]
    BY <1>2 DEF Ends
  <2> QED
    BY <1>1, <1>2, <2>1, <2>2, IdleTyped, EndTurn
<1>3. CASE /\ rows[threads[t].fp].id = threads[t].new \/ (\A a \in Aliases : aliases[a] # threads[t].id)
           /\ aliases' = [a \in Aliases |-> IF aliases[a] = threads[t].id THEN threads[t].new ELSE aliases[a]]
           /\ threads' = [threads EXCEPT ![t] = [@ EXCEPT !.at = "find", !.fp = threads[t].old, !.new = 0,
                                                             !.late = AliasesOfNext(t)]]
  <2>1. PICK late : late = AliasesOfNext(t)
    OBVIOUS
  <2>2. PICK old : old = threads[t].old
    OBVIOUS
  <2>3. PICK r : r = [threads[t] EXCEPT !.at = "find", !.fp = old, !.new = 0, !.late = late]
    OBVIOUS
  <2>4. late \in SUBSET Aliases
    BY <2>1 DEF AliasesOfNext
  <2>5. "find" \in Places /\ "find" \in Located /\ "find" \notin Working \cup Registered \cup Fetching
    BY PlacesApart
  <2>6. /\ r \in ThreadRecord /\ r.at = "find" /\ r.kind = "refresh" /\ r.fp = old /\ r.late = late
        /\ r.via = threads[t].via /\ r.old = old /\ r.tries = 0 /\ r.id = threads[t].id
    BY <1>1, <2>2, <2>3, <2>4, <2>5 DEF ThreadRecord
  <2>7. threads' = [threads EXCEPT ![t] = r]
    BY <1>3, <2>1, <2>2, <2>3
  <2>8. StepOf(t) /\ threads'[t] = r /\ \A u \in Threads \ {t} : threads'[u] = threads[u]
    BY <1>0, <2>6, <2>7, OneThread DEF Types
  <2>9. aliases' \in [Aliases -> Nat]
    BY <1>0, <1>1, <1>3 DEF Types, ThreadRecord
  <2>10. Types'
    BY <1>0, <1>1, <2>8, <2>9 DEF Types, StepOf, queue
  <2>11. ChannelInv'
    BY <1>0, <1>1, <2>5, <2>6, <2>8, ChannelKeeps
  <2>12. AloneInv'
    BY <1>0, <1>1, <2>5, <2>6, <2>8, AloneKeeps
  <2>13. StoreInv'
    BY <1>0, <1>1, <2>5, <2>6, <2>8, StoreKeeps
  <2>14. IdsInv'
    <3>1. \A a \in Aliases : aliases'[a] \in {aliases[a], 0} \/ aliases'[a] <= ids
      BY <1>1, <1>3
    <3> QED
      BY <1>0, <1>1, <2>6, <2>8, <3>1, IdsKeeps DEF Types
  <2>15. KindInv'
    BY <1>0, <1>1, <2>2, <2>5, <2>6, <2>8, KindKeeps
  <2>16. LateInv'
    <3>1. \A u \in Threads : threads'[u].kind = "refresh" => u = t
      BY <1>0, <1>1, <2>8 DEF KindInv
    <3>2. ASSUME NEW a \in Aliases, aliases'[a] # 0, aliases'[a] = rows[old].id PROVE a \in late
      <4>1. CASE aliases[a] = threads[t].id
        <5>1. aliases'[a] = threads[t].new /\ rows[threads[t].fp].id = threads[t].new
          BY <1>3, <4>1
        <5> QED
          BY <1>0, <1>1, <2>2, <3>2, <5>1 DEF IdsInv
      <4>2. CASE aliases[a] # threads[t].id
        BY <1>3, <2>1, <2>2, <3>2, <4>2 DEF AliasesOfNext
      <4> QED
        BY <4>1, <4>2
    <3> QED
      BY <1>1, <2>6, <2>8, <3>1, <3>2 DEF LateInv
  <2>17. ForwardInv'
    <3>1. NoImage \notin broken =>
            /\ Newest(threads[t].via, old) /\ \A fp \in Versions : Newest(rows[fp].source, fp)
      BY <1>0, <2>2, NewestKnown
    <3> QED
      BY <1>0, <1>1, <2>6, <2>8, <3>1, ForwardKeeps
  <2> QED
    BY <2>10, <2>11, <2>12, <2>13, <2>14, <2>15, <2>16, <2>17 DEF ImagesIInv
<1> QED
  BY <1>2, <1>3 DEF ImageAliasesMove

-----------------------------------------------------------------------------
(* Channels                                                                  *)

\* A request that is woken looks for the image, or downloads it itself.
LEMMA WokenInv ==
    ASSUME ImagesIInv, NEW t \in Threads, Woken(t)
    PROVE  ImagesIInv'
<1>0. Types /\ ChannelInv /\ AloneInv /\ KindInv /\ ForwardInv
  BY DEF ImagesIInv
<1>1. /\ threads[t].at = "wait" /\ threads[t] \in ThreadRecord /\ threads[t].fp \in Versions
      /\ threads[t].at \in Fetching \cap Located /\ threads[t].at \notin Working \cup Registered
      /\ threads[t].kind \in {"launch", "copy", "url", "refresh"}
      /\ UNCHANGED <<rows, files, volumes, aliases, ids, server, cache, saved, downloading, served, harm, mixed, kept, broken>>
      /\ closed' = {c \in closed : \E u \in Threads \ {t} : threads[u].at = "wait" /\ threads[u].chan = c}
  BY <1>0, PlacesApart DEF Woken, streams, ghosts, stored, Types, KindInv, Fetching
<1>2. PICK r : r = IF ImageGet(threads[t].fp) THEN Downloaded(t) ELSE [threads[t] EXCEPT !.at = "register", !.chan = 0]
  OBVIOUS
<1>3. threads' = [threads EXCEPT ![t] = r]
  BY <1>2 DEF Woken
<1>4. /\ r \in ThreadRecord /\ r.at \notin {"wait", "find", "access", "move", "source", "publish"}
      /\ r.at \in Located => r.fp \in Versions
      /\ r.at = "lookup" => r.kind = "refresh"
      /\ r.at \in Fetching => r.kind \in {"launch", "copy", "url", "refresh"}
      /\ r.at \notin Working /\ r.at \notin Registered
      /\ r.kind = "refresh" =>
           /\ r.old \in Versions /\ r.tries = 0 /\ (r.at \in {"lookup", "access", "move"} => r.fp # r.old)
           /\ threads[t].kind = "refresh"
      /\ NoImage \notin broken =>
           /\ Newest(r.via, r.fp) /\ Newest(r.via, r.old)
           /\ r.kind = "refresh" /\ r.at \in Located => r.old <= r.fp
  <2>1. CASE r = Downloaded(t)
    BY <1>1, <2>1, AfterDownload
  <2>2. CASE r = [threads[t] EXCEPT !.at = "register", !.chan = 0]
    <3>1. "register" \in Places /\ "register" \notin Working /\ "register" \notin Registered
      BY PlacesApart
    <3>2. /\ r \in ThreadRecord /\ r.at = "register" /\ r.kind = threads[t].kind /\ r.fp = threads[t].fp
          /\ r.via = threads[t].via /\ r.old = threads[t].old /\ r.tries = threads[t].tries
      BY <1>1, <2>2, <3>1 DEF ThreadRecord
    <3>3. threads[t].kind = "refresh" => threads[t].old \in Versions /\ threads[t].tries = 0
      BY <1>0 DEF KindInv
    <3>4. NoImage \notin broken =>
           /\ Newest(threads[t].via, threads[t].fp) /\ Newest(threads[t].via, threads[t].old)
           /\ threads[t].kind = "refresh" => threads[t].old <= threads[t].fp
      BY <1>0, <1>1, NewestKnown
    <3> QED
      BY <1>1, <3>1, <3>2, <3>3, <3>4
  <2> QED
    BY <1>2, <2>1, <2>2
<1>5. threads'[t] = r /\ \A u \in Threads \ {t} : threads'[u] = threads[u]
  BY <1>0, <1>3, <1>4, OneThread DEF Types
<1>6. ChannelInv'
  <2>1. \A fp \in Versions : downloading[fp] # 0 => \E u \in Threads : threads'[u].fp = fp /\ threads'[u].at \in Registered
    <3>1. ASSUME NEW fp \in Versions, downloading[fp] # 0
          PROVE  \E u \in Threads : threads'[u].fp = fp /\ threads'[u].at \in Registered
      <4>1. PICK u \in Threads : threads[u].fp = fp /\ threads[u].at \in Registered
        BY <1>0, <3>1 DEF ChannelInv
      <4>2. u # t
        BY <1>1, <4>1
      <4> QED
        BY <1>5, <4>1, <4>2
    <3> QED
      BY <3>1
  <2>2. \A u \in Threads : threads'[u].at = "wait" => threads'[u].chan # 0
    BY <1>0, <1>4, <1>5 DEF ChannelInv
  <2>3. \A c \in closed' : \E u \in Threads : threads'[u].at = "wait" /\ threads'[u].chan = c
    BY <1>1, <1>5
  <2>4. \A fp \in Versions : downloading[fp] \notin closed'
    BY <1>0, <1>1 DEF ChannelInv
  <2>5. \A fp, g \in Versions : downloading[fp] # 0 /\ downloading[fp] = downloading[g] => fp = g
    BY <1>0 DEF ChannelInv
  <2> QED
    BY <1>1, <2>1, <2>2, <2>3, <2>4, <2>5 DEF ChannelInv
<1>7. AloneInv'
  <2> SUFFICES ASSUME NEW x \in Threads, threads'[x].fp \in Versions \ mixed
               PROVE  /\ \A u \in Threads : threads'[u].fp = threads'[x].fp =>
                            /\ threads'[x].at \in Working /\ threads'[u].at \in Working => x = u
                            /\ threads'[x].at \in Registered /\ threads'[u].at \in Registered => x = u
                      /\ threads'[x].at \in Registered => downloading[threads'[x].fp] # 0
                      /\ threads'[x].at = "wait" =>
                           threads'[x].chan \in closed' \/ threads'[x].chan = downloading[threads'[x].fp]
    BY <1>1 DEF AloneInv
  <2>1. CASE x = t
    BY <1>4, <1>5, <2>1
  <2>2. CASE x # t
    <3>1. threads'[x] = threads[x]
      BY <1>5, <2>2
    <3>2. \A u \in Threads : threads'[u].at \in Working \cup Registered => threads'[u] = threads[u]
      BY <1>4, <1>5
    <3>3. threads[x].at = "wait" /\ threads[x].chan \in closed => threads[x].chan \in closed'
      BY <1>1, <2>2
    <3> QED
      BY <1>0, <3>1, <3>2, <3>3 DEF AloneInv
  <2> QED
    BY <2>1, <2>2
<1>8. NoImage \notin broken => Newest(r.via, r.fp)' /\ Newest(r.via, r.old)'
  BY <1>1, <1>4, NewestStays
<1>9. /\ rows' \in [Versions -> RowRecord] /\ served' \in Nat /\ harm' \in Nat /\ saved' \in Versions \cup {NoImage}
      /\ cache' \in [fp : Versions \cup {NoImage}, expired : BOOLEAN] /\ cache'.fp \in {cache.fp, server}
      /\ downloading' \in [Versions -> Nat] /\ mixed' \subseteq Versions
      /\ \A fp \in Versions : rows'[fp].id = rows[fp].id /\ rows'[fp].source = rows[fp].source
  BY <1>0, <1>1 DEF Types
<1> QED
  BY <1>1, <1>3, <1>4, <1>6, <1>7, <1>8, <1>9, QueueTurn

\* The channel found under the fingerprint is closed, and only those who wait on it know it.
LEMMA UnlockInv ==
    ASSUME ImagesIInv, NEW t \in Threads, Unlock(t)
    PROVE  ImagesIInv'
<1>0. Types /\ ChannelInv /\ AloneInv /\ KindInv /\ ForwardInv
  BY DEF ImagesIInv
<1>g. PICK g : g = threads[t].fp
  OBVIOUS
<1>1. /\ threads[t].at \in {"unlock", "failed"} /\ g \in Versions
      /\ threads[t].at \in Fetching \cap Located /\ threads[t].at \in Registered /\ threads[t].at \notin Working
      /\ UNCHANGED <<rows, files, volumes, aliases, ids, server, cache, saved, served, harm, mixed, kept, broken>>
      /\ closed' = {k \in closed \cup {downloading[g]} : \E u \in Threads : threads[u].at = "wait" /\ threads[u].chan = k}
      /\ downloading' = [downloading EXCEPT ![g] = 0]
      /\ threads' = IF threads[t].at = "failed" THEN Failing(t) ELSE [threads EXCEPT ![t] = Downloaded(t)]
  BY <1>0, <1>g, PlacesApart DEF Unlock, Closing, streams, ghosts, stored, Types, KindInv, Fetching, Leaving
<1>2. PICK r \in ThreadRecord :
        /\ threads' = [threads EXCEPT ![t] = r]
        /\ r.at \in {"idle", "resolve", "update", "lookup"}
        /\ r.at \in Located => r.fp \in Versions
        /\ r.at = "lookup" => r.kind = "refresh"
        /\ r.at \in Fetching => r.kind \in {"launch", "copy", "url", "refresh"}
        /\ r.at \notin Working /\ r.at \notin Registered
        /\ r.kind = "refresh" =>
             /\ r.old \in Versions /\ r.tries = 0 /\ (r.at \in {"lookup", "access", "move"} => r.fp # r.old)
             /\ threads[t].kind = "refresh"
        /\ NoImage \notin broken =>
             /\ Newest(r.via, r.fp) /\ Newest(r.via, r.old)
             /\ r.kind = "refresh" /\ r.at \in Located => r.old <= r.fp
  <2>1. CASE threads[t].at = "failed"
    <3>1. PICK r \in ThreadRecord :
             /\ Failing(t) = [threads EXCEPT ![t] = r]
             /\ r.at \in {"idle", "resolve"} /\ r.kind # "refresh" /\ (r.at = "resolve" => r.kind = "copy")
             /\ r.fp = 0 /\ r.old = 0 /\ r.chan = 0 /\ (r.at = "idle" => r.kind = "none")
      BY <1>0, FailingIs DEF Types
    <3>2. /\ r.at \notin Working /\ r.at \notin Registered /\ r.at \notin Located
          /\ r.at \in Fetching => r.kind \in {"launch", "copy", "url", "refresh"}
      BY <3>1, PlacesApart
    <3>3. Newest(r.via, r.fp) /\ Newest(r.via, r.old)
      BY <1>0, <3>1, NewestKnown
    <3> QED
      BY <1>1, <2>1, <3>1, <3>2, <3>3
  <2>2. CASE threads[t].at = "unlock"
    <3>1. threads' = [threads EXCEPT ![t] = Downloaded(t)]
      BY <1>1, <2>2
    <3> QED
      BY <1>1, <3>1, AfterDownload
  <2> QED
    BY <1>1, <2>1, <2>2
<1>3. threads'[t] = r /\ \A u \in Threads \ {t} : threads'[u] = threads[u]
  BY <1>0, <1>2, OneThread DEF Types
<1>4. /\ downloading' \in [Versions -> Nat] /\ downloading'[g] = 0
      /\ \A fp \in Versions \ {g} : downloading'[fp] = downloading[fp]
      /\ 0 \notin closed'
  BY <1>0, <1>1 DEF Types, ChannelInv
<1>5. \A u \in Threads : threads[u].at = "wait" => u # t /\ threads'[u] = threads[u]
  BY <1>1, <1>3
<1>6. ChannelInv'
  <2>1. ASSUME NEW fp \in Versions, downloading'[fp] # 0
        PROVE  \E u \in Threads : threads'[u].fp = fp /\ threads'[u].at \in Registered
    <3>1. fp # g /\ downloading[fp] # 0
      BY <1>4, <2>1
    <3>2. PICK u \in Threads : threads[u].fp = fp /\ threads[u].at \in Registered
      BY <1>0, <3>1 DEF ChannelInv
    <3>3. u # t
      BY <1>g, <3>1, <3>2
    <3> QED
      BY <1>3, <3>2, <3>3
  <2>2. \A fp, h \in Versions : downloading'[fp] # 0 /\ downloading'[fp] = downloading'[h] => fp = h
    BY <1>0, <1>4 DEF ChannelInv
  <2>3. \A u \in Threads : threads'[u].at = "wait" => threads'[u].chan # 0
    BY <1>0, <1>2, <1>3 DEF ChannelInv
  <2>4. \A c \in closed' : \E u \in Threads : threads'[u].at = "wait" /\ threads'[u].chan = c
    BY <1>1, <1>5
  <2>5. ASSUME NEW fp \in Versions PROVE downloading'[fp] \notin closed'
    <3>1. CASE fp = g
      BY <1>4, <3>1
    <3>2. CASE fp # g /\ downloading[fp] = 0
      BY <1>4, <3>2
    <3>3. CASE fp # g /\ downloading[fp] # 0
      <4>1. downloading[fp] # downloading[g] /\ downloading[fp] \notin closed
        BY <1>0, <1>1, <3>3 DEF ChannelInv
      <4> QED
        BY <1>1, <1>4, <3>3, <4>1
    <3> QED
      BY <3>1, <3>2, <3>3
  <2> QED
    BY <2>1, <2>2, <2>3, <2>4, <2>5 DEF ChannelInv
<1>7. AloneInv'
  <2> SUFFICES ASSUME NEW x \in Threads, threads'[x].fp \in Versions \ mixed
               PROVE  /\ \A u \in Threads : threads'[u].fp = threads'[x].fp =>
                            /\ threads'[x].at \in Working /\ threads'[u].at \in Working => x = u
                            /\ threads'[x].at \in Registered /\ threads'[u].at \in Registered => x = u
                      /\ threads'[x].at \in Registered => downloading'[threads'[x].fp] # 0
                      /\ threads'[x].at = "wait" =>
                           threads'[x].chan \in closed' \/ threads'[x].chan = downloading'[threads'[x].fp]
    BY <1>1 DEF AloneInv
  <2>1. CASE x = t
    BY <1>2, <1>3, <2>1
  <2>2. CASE x # t
    <3>1. threads'[x] = threads[x]
      BY <1>3, <2>2
    <3>2. \A u \in Threads : threads'[u].at \in Working \cup Registered => threads'[u] = threads[u]
      BY <1>2, <1>3
    <3>3. ASSUME threads[x].at \in Registered PROVE downloading'[threads[x].fp] # 0
      <4>1. threads[x].fp # g
        BY <1>0, <1>g, <1>1, <2>2, <3>1, <3>3 DEF AloneInv
      <4> QED
        BY <1>0, <1>4, <3>1, <3>3, <4>1 DEF AloneInv
    <3>4. ASSUME threads[x].at = "wait"
          PROVE  threads[x].chan \in closed' \/ threads[x].chan = downloading'[threads[x].fp]
      <4>1. threads[x].chan \in closed \/ threads[x].chan = downloading[threads[x].fp]
        BY <1>0, <3>1, <3>4 DEF AloneInv
      <4>2. CASE threads[x].chan \in closed \cup {downloading[g]}
        BY <1>1, <3>4, <4>2
      <4>3. CASE threads[x].chan = downloading[threads[x].fp] /\ threads[x].fp # g
        BY <1>4, <3>1, <4>3
      <4> QED
        BY <4>1, <4>2, <4>3
    <3> QED
      BY <1>0, <3>1, <3>2, <3>3, <3>4 DEF AloneInv
  <2> QED
    BY <2>1, <2>2
<1>8. NoImage \notin broken => Newest(r.via, r.fp)' /\ Newest(r.via, r.old)'
  BY <1>1, <1>2, NewestStays
<1>9. /\ rows' \in [Versions -> RowRecord] /\ served' \in Nat /\ harm' \in Nat /\ saved' \in Versions \cup {NoImage}
      /\ cache' \in [fp : Versions \cup {NoImage}, expired : BOOLEAN] /\ cache'.fp \in {cache.fp, server}
      /\ mixed' \subseteq Versions
      /\ \A fp \in Versions : rows'[fp].id = rows[fp].id /\ rows'[fp].source = rows[fp].source
  BY <1>0, <1>1 DEF Types
<1>10. r.at \notin {"find", "source", "access", "move", "publish"}
  BY <1>2
<1> QED
  BY <1>1, <1>2, <1>4, <1>6, <1>7, <1>8, <1>9, <1>10, QueueTurn

\* The values of a function on the requests are as many as the requests at most.
LEMMA ImageOfThreads ==
    ASSUME NEW F, F = [t \in Threads |-> F[t]]
    PROVE  LET R == {F[t] : t \in Threads} IN IsFiniteSet(R) /\ Cardinality(R) <= Cardinality(Threads)
<1> DEFINE R == {F[t] : t \in Threads}
<1>1. F \in Surjection(Threads, R)
  BY DEF Surjection
<1>2. IsFiniteSet(Threads)
  BY ImagesAssumption
<1> HIDE DEF R
<1>3. IsFiniteSet(R) /\ Cardinality(R) <= Cardinality(Threads)
  BY <1>1, <1>2, FS_Surjection
<1> QED
  BY <1>3 DEF R

\* There is a channel that nobody knows.
LEMMA NewChannelIs ==
    ASSUME Types, ChannelInv
    PROVE  /\ NewChannel \in Nat \ {0}
           /\ \A fp \in Versions : downloading[fp] # NewChannel
           /\ \A t \in Threads : threads[t].chan # NewChannel
           /\ NewChannel \notin closed
<1> DEFINE F == [t \in Threads |-> downloading[threads[t].fp]]
           G == [t \in Threads |-> threads[t].chan]
           A == {F[t] : t \in Threads}
           B == {G[t] : t \in Threads}
           n == Cardinality(Threads)
           S == 1..(2 * n + 1)
<1>1. IsFiniteSet(A) /\ Cardinality(A) <= n
  <2>1. F = [t \in Threads |-> F[t]]
    OBVIOUS
  <2> HIDE DEF F
  <2> QED
    BY <2>1, ImageOfThreads
<1>2. IsFiniteSet(B) /\ Cardinality(B) <= n
  <2>1. G = [t \in Threads |-> G[t]]
    OBVIOUS
  <2> HIDE DEF G
  <2> QED
    BY <2>1, ImageOfThreads
<1>3. n \in Nat
  BY ImagesAssumption, FS_CardinalityType
<1> DEFINE m == Cardinality(A \cup B)
<1>4. IsFiniteSet(A \cup B) /\ m <= 2 * n /\ m \in Nat
  <2> HIDE DEF A, B, n
  <2>1. IsFiniteSet(A \cup B) /\ m = Cardinality(A) + Cardinality(B) - Cardinality(A \cap B)
    BY <1>1, <1>2, FS_Union
  <2>2. IsFiniteSet(A \cap B)
    BY <1>1, FS_Subset
  <2>3. Cardinality(A) \in Nat /\ Cardinality(B) \in Nat /\ Cardinality(A \cap B) \in Nat /\ m \in Nat
    BY <1>1, <1>2, <2>1, <2>2, FS_CardinalityType
  <2> QED
    BY <1>1, <1>2, <1>3, <2>1, <2>3
<1>5. PICK c \in S : c \notin A \cup B
  <2> SUFFICES ASSUME S \subseteq A \cup B PROVE FALSE
    OBVIOUS
  <2> HIDE DEF A, B, n
  <2>1. Cardinality(S) <= m
    <3> HIDE DEF S, m
    <3>1. Cardinality(S) <= Cardinality(A \cup B)
      BY <1>4, FS_Subset
    <3> QED
      BY <3>1 DEF m
  <2>2. Cardinality(S) = 2 * n + 1
    <3>1. 2 * n + 1 \in Int /\ ~(1 > 2 * n + 1) /\ (2 * n + 1) - 1 + 1 = 2 * n + 1
      BY <1>3
    <3> QED
      BY <3>1, FS_Interval
  <2> HIDE DEF S, m
  <2> QED
    BY <1>3, <1>4, <2>1, <2>2
<1>6. c \notin Range(downloading) /\ \A t \in Threads : threads[t].chan # c
  <2>1. \A t \in Threads : threads[t].chan # c
    BY <1>5
  <2>2. ASSUME NEW fp \in Versions PROVE downloading[fp] # c
    <3>1. CASE downloading[fp] = 0
      BY <1>3, <3>1
    <3>2. CASE downloading[fp] # 0
      <4>1. PICK t \in Threads : threads[t].fp = fp
        BY <3>2 DEF ChannelInv
      <4>2. F[t] = downloading[fp]
        BY <4>1
      <4> QED
        BY <1>5, <4>2
    <3> QED
      BY <3>1, <3>2
  <2>3. DOMAIN downloading = Versions
    BY DEF Types
  <2> QED
    BY <2>1, <2>2, <2>3 DEF Range
<1>7. /\ NewChannel \in S
      /\ NewChannel \notin Range(downloading) /\ \A t \in Threads : threads[t].chan # NewChannel
  <2> HIDE DEF A, B, F, G
  <2> QED
    BY <1>6 DEF NewChannel
<1>8. NewChannel \in Nat \ {0}
  BY <1>3, <1>7
<1>9. \A fp \in Versions : downloading[fp] # NewChannel
  BY <1>7 DEF Types, Range
<1>10. NewChannel \notin closed
  BY <1>7 DEF ChannelInv
<1> QED
  BY <1>7, <1>8, <1>9, <1>10

\* Two requests at work on an image are noted.
LEMMA NotingIs ==
    ASSUME Types, Noting(threads'), NEW t \in Threads, NEW u \in Threads, t # u,
           threads'[t].fp \in Versions, threads'[u].fp = threads'[t].fp,
           threads'[t].at \in Working, threads'[u].at \in Working
    PROVE  threads'[t].fp \in mixed'
<1> DEFINE fp == threads'[t].fp
           S == {x \in Threads : threads'[x].fp = fp /\ threads'[x].at \in Working}
<1>1. IsFiniteSet(S)
  BY ImagesAssumption, FS_Subset
<1>2. {t, u} \subseteq S
  OBVIOUS
<1>3. IsFiniteSet({t, u}) /\ Cardinality({t, u}) = 2
  <2>1. IsFiniteSet({t}) /\ Cardinality({t}) = 1
    BY FS_Singleton
  <2>2. IsFiniteSet({t} \cup {u}) /\ Cardinality({t} \cup {u}) = 2
    <3>1. PICK T : T = {t}
      OBVIOUS
    <3>2. u \notin T /\ IsFiniteSet(T) /\ Cardinality(T) = 1
      BY <2>1, <3>1
    <3>3. IsFiniteSet(T \cup {u}) /\ Cardinality(T \cup {u}) = Cardinality(T) + 1
      BY <3>2, FS_AddElement
    <3> QED
      BY <3>1, <3>2, <3>3
  <2>3. {t} \cup {u} = {t, u}
    OBVIOUS
  <2> QED
    BY <2>2, <2>3
<1>4. Cardinality(S) \in Nat /\ Cardinality(S) >= 2
  <2> HIDE DEF S
  <2>1. Cardinality({t, u}) <= Cardinality(S)
    BY <1>1, <1>2, FS_Subset
  <2>2. Cardinality(S) \in Nat
    BY <1>1, FS_CardinalityType
  <2> QED
    BY <1>3, <2>1, <2>2
<1>5. Cardinality(S) > 1
  <2> HIDE DEF S
  <2> QED
    BY <1>4
<1>6. fp \in {g \in Versions : Cardinality({x \in Threads : threads'[x].fp = g /\ threads'[x].at \in Working}) > 1}
  BY <1>5
<1> QED
  BY <1>6 DEF Noting

\* And nothing is forgotten.
LEMMA NotingKeeps ==
    ASSUME Types, Noting(threads')
    PROVE  mixed \subseteq mixed' /\ mixed' \subseteq Versions
BY DEF Noting, Types

\* A download is registered: the first of its image, or it is noted.
LEMMA RegisterInv ==
    ASSUME ImagesIInv, NEW t \in Threads, Register(t)
    PROVE  ImagesIInv'
<1>0. Types /\ ChannelInv /\ AloneInv /\ StoreInv /\ IdsInv /\ KindInv /\ LateInv /\ ForwardInv
  BY DEF ImagesIInv
<1>g. PICK g : g = threads[t].fp
  OBVIOUS
<1>c. PICK c : c = NewChannel
  OBVIOUS
<1>1. /\ threads[t].at = "register" /\ g \in Versions /\ threads[t] \in ThreadRecord
      /\ threads[t].at \in Fetching \cap Located /\ threads[t].at \notin Working \cup Registered
      /\ threads[t].kind \in {"launch", "copy", "url", "refresh"}
      /\ UNCHANGED <<rows, files, volumes, aliases, ids, server, cache, saved, closed, served, harm, kept, broken>>
      /\ downloading' = [downloading EXCEPT ![g] = c] /\ Goto(t, "leftover")
      /\ IF ImageGet(g) \/ \E u \in Threads : threads[u].fp = g /\ threads[u].at \in Leaving
         THEN mixed' = mixed \cup {g} ELSE Noting(threads')
  BY <1>0, <1>g, <1>c, PlacesApart DEF Register, streams, stored, Types, KindInv, Fetching
<1>2. /\ c \in Nat \ {0} /\ c \notin closed
      /\ \A fp \in Versions : downloading[fp] # c
      /\ \A u \in Threads : threads[u].chan # c
  BY <1>0, <1>c, NewChannelIs
<1>3. "leftover" \in Places /\ "leftover" \in Working /\ "leftover" \in Registered /\ "leftover" \in Located
      /\ "leftover" \in Fetching
  BY PlacesApart DEF Fetching
<1>4. /\ StepOf(t) /\ \A u \in Threads \ {t} : threads'[u] = threads[u]
      /\ threads'[t].at = "leftover"
      /\ threads'[t].kind = threads[t].kind /\ threads'[t].fp = g
      /\ threads'[t].via = threads[t].via /\ threads'[t].old = threads[t].old /\ threads'[t].id = threads[t].id
      /\ threads'[t].new = threads[t].new
      /\ threads'[t].tries = threads[t].tries /\ threads'[t].late = threads[t].late
  BY <1>0, <1>1, <1>g, <1>3, GotoIs DEF Types
<1>5. mixed \subseteq mixed' /\ mixed' \subseteq Versions
  <2>1. CASE mixed' = mixed \cup {g}
    BY <1>0, <1>1, <2>1 DEF Types
  <2>2. CASE Noting(threads')
    BY <1>0, <2>2, NotingKeeps
  <2> QED
    BY <1>1, <2>1, <2>2
<1>6. ASSUME g \notin mixed'
      PROVE  /\ ~ImageGet(g)
             /\ \A u \in Threads \ {t} : threads[u].fp = g => threads[u].at \notin Working \cup Registered
  <2>1. ~ImageGet(g) /\ (\A u \in Threads : threads[u].fp = g => threads[u].at \notin Leaving) /\ Noting(threads')
    BY <1>1, <1>6
  <2>2. ASSUME NEW u \in Threads \ {t}, threads[u].fp = g, threads[u].at \in Working PROVE FALSE
    <3>1. threads'[u].fp = g /\ threads'[u].at \in Working /\ threads'[t].at \in Working /\ u # t
      BY <1>3, <1>4, <2>2
    <3> QED
      BY <1>0, <1>1, <1>4, <1>6, <2>1, <3>1, NotingIs
  <2> QED
    BY <2>1, <2>2, PlacesApart
<1>7. downloading' \in [Versions -> Nat] /\ downloading'[g] = c
      /\ \A fp \in Versions \ {g} : downloading'[fp] = downloading[fp]
  BY <1>0, <1>1, <1>2 DEF Types
<1>8. Types'
  BY <1>0, <1>1, <1>4, <1>5, <1>7 DEF Types, StepOf
<1>9. ChannelInv'
  <2>1. ASSUME NEW fp \in Versions, downloading'[fp] # 0
        PROVE  \E u \in Threads : threads'[u].fp = fp /\ threads'[u].at \in Registered
    <3>1. CASE fp = g
      BY <1>3, <1>4, <3>1
    <3>2. CASE fp # g
      <4>1. PICK u \in Threads : threads[u].fp = fp /\ threads[u].at \in Registered
        BY <1>0, <1>7, <2>1, <3>2 DEF ChannelInv
      <4>2. u # t
        BY <1>1, <4>1
      <4> QED
        BY <1>4, <4>1, <4>2
    <3> QED
      BY <3>1, <3>2
  <2>2. \A fp, h \in Versions : downloading'[fp] # 0 /\ downloading'[fp] = downloading'[h] => fp = h
    BY <1>0, <1>2, <1>7 DEF ChannelInv
  <2>3. \A u \in Threads : threads'[u].at = "wait" => threads'[u].chan # 0
    BY <1>0, <1>4 DEF ChannelInv
  <2>4. \A k \in closed : \E u \in Threads : threads'[u].at = "wait" /\ threads'[u].chan = k
    <3>1. ASSUME NEW k \in closed PROVE \E u \in Threads : threads'[u].at = "wait" /\ threads'[u].chan = k
      <4>1. PICK u \in Threads : threads[u].at = "wait" /\ threads[u].chan = k
        BY <1>0, <3>1 DEF ChannelInv
      <4>2. u # t
        BY <1>1, <4>1
      <4> QED
        BY <1>4, <4>1, <4>2
    <3> QED
      BY <3>1
  <2>5. \A fp \in Versions : downloading'[fp] \notin closed
    BY <1>0, <1>2, <1>7 DEF ChannelInv
  <2> QED
    BY <1>1, <2>1, <2>2, <2>3, <2>4, <2>5 DEF ChannelInv
<1>10. AloneInv'
  <2> SUFFICES ASSUME NEW x \in Threads, threads'[x].fp \in Versions \ mixed'
               PROVE  /\ \A u \in Threads : threads'[u].fp = threads'[x].fp =>
                            /\ threads'[x].at \in Working /\ threads'[u].at \in Working => x = u
                            /\ threads'[x].at \in Registered /\ threads'[u].at \in Registered => x = u
                      /\ threads'[x].at \in Registered => downloading'[threads'[x].fp] # 0
                      /\ threads'[x].at = "wait" =>
                           threads'[x].chan \in closed \/ threads'[x].chan = downloading'[threads'[x].fp]
    BY <1>1 DEF AloneInv
  <2>1. CASE x = t
    <3>1. threads'[x].fp = g /\ g \notin mixed' /\ downloading'[g] # 0 /\ threads'[x].at # "wait"
      BY <1>2, <1>4, <1>7, <2>1
    <3>2. \A u \in Threads : threads'[u].fp = g /\ threads'[u].at \in Working \cup Registered => x = u
      BY <1>4, <1>6, <2>1, <3>1
    <3> QED
      BY <3>1, <3>2
  <2>2. CASE x # t
    <3>1. threads'[x] = threads[x] /\ threads[x].fp \in Versions \ mixed
      BY <1>4, <1>5, <2>2
    <3>2. ASSUME NEW u \in Threads, threads'[u].fp = threads[x].fp
          PROVE  /\ threads[x].at \in Working /\ threads'[u].at \in Working => x = u
                 /\ threads[x].at \in Registered /\ threads'[u].at \in Registered => x = u
      <4>1. CASE u = t
        BY <1>4, <1>6, <2>2, <3>1, <3>2, <4>1
      <4>2. CASE u # t
        BY <1>0, <1>4, <3>1, <3>2, <4>2 DEF AloneInv
      <4> QED
        BY <4>1, <4>2
    <3>3. ASSUME threads[x].at \in Registered PROVE downloading'[threads[x].fp] # 0
      <4>1. downloading[threads[x].fp] # 0
        BY <1>0, <3>1, <3>3 DEF AloneInv
      <4> QED
        BY <1>2, <1>7, <3>1, <4>1
    <3>4. ASSUME threads[x].at = "wait"
          PROVE  threads[x].chan \in closed \/ threads[x].chan = downloading'[threads[x].fp]
      <4>1. threads[x].chan \in closed \/ threads[x].chan = downloading[threads[x].fp]
        BY <1>0, <3>1, <3>4 DEF AloneInv
      <4>2. CASE threads[x].fp = g /\ threads[x].chan = downloading[g]
        <5>1. downloading[g] # 0
          BY <1>0, <3>4, <4>2 DEF ChannelInv
        <5>2. PICK u \in Threads : threads[u].fp = g /\ threads[u].at \in Registered
          BY <1>0, <1>1, <5>1 DEF ChannelInv
        <5>3. u # t
          BY <1>1, <5>2
        <5> QED
          BY <1>6, <3>1, <4>2, <5>2, <5>3
      <4>3. CASE threads[x].fp # g
        BY <1>7, <3>1, <4>1, <4>3
      <4> QED
        BY <4>1, <4>2, <4>3
    <3> QED
      BY <3>1, <3>2, <3>3, <3>4
  <2> QED
    BY <2>1, <2>2
<1>11. StoreInv'
  <2>1. ASSUME g \notin mixed'
        PROVE  /\ \A u \in Threads \ {t} : threads[u].fp = g => threads[u].at \notin Working
               /\ Progress(t)' /\ (files'[g] = "none" /\ g \notin kept' => g \notin volumes')
    <3>1. g \notin mixed /\ ~ImageGet(g)
      BY <1>5, <1>6, <2>1
    <3>2. \A u \in Threads : threads[u].fp = g => threads[u].at \notin Working
      BY <1>1, <1>6, <2>1
    <3>3. g \notin broken => Settled(g)
      BY <1>0, <1>1, <3>1, <3>2 DEF StoreInv
    <3>4. files[g] = "none" /\ g \notin kept => g \notin volumes
      BY <1>0, <1>1, <3>1 DEF StoreInv
    <3>5. Progress(t)'
      BY <1>1, <1>4, <3>1, <3>3 DEF Progress, ImageGet, Settled
    <3> QED
      BY <1>1, <3>2, <3>4, <3>5
  <2>2. threads'[t].at \in Working \ {"upload"} /\ threads[t].at \notin Working
    BY <1>1, <1>3, <1>4
  <2> QED
    BY <1>0, <1>1, <1>4, <1>5, <2>1, <2>2, StoreStep
<1>12. IdsInv'
  BY <1>0, <1>1, <1>4, IdsKeeps DEF Types
<1>13. KindInv'
  <2>1. threads[t].kind = "refresh" => threads[t].old \in Versions /\ threads[t].tries = 0
    BY <1>0 DEF KindInv
  <2> QED
    BY <1>0, <1>1, <1>4, <2>1, KindKeeps
<1>14. LateInv'
  <2>1. \A a \in Aliases : aliases'[a] \in {aliases[a], 0}
    BY <1>1
  <2> QED
    BY <1>0, <1>1, <1>4, <1>8, <2>1, LateKeeps DEF Types
<1>15. ForwardInv'
  BY <1>0, <1>1, <1>g, <1>4, NewestKnown, ForwardKeeps
<1> QED
  BY <1>8, <1>9, <1>10, <1>11, <1>12, <1>13, <1>14, <1>15 DEF ImagesIInv

\* A request begins its work on an image, or does not.
LEMMA EnterTurn ==
    ASSUME ImagesIInv, NEW t \in Threads, NEW r \in ThreadRecord, threads' = [threads EXCEPT ![t] = r],
           UNCHANGED <<rows, files, volumes, aliases, ids, queue, kept, broken, server, cache, saved, harm>>,
           served' \in Nat, Noting(threads'),
           threads[t].at \notin Working \cup Registered, threads[t].at # "wait",
           r.at \notin Registered, r.at # "wait",
           r.at \in Working => r.at \in {"volume", "upload"},
           r.at = "volume" => /\ threads[t].at = "find" /\ ImageGet(r.fp) /\ r.id = rows[r.fp].id
                              /\ r.kind = threads[t].kind /\ r.fp = threads[t].fp /\ r.late = threads[t].late,
           r.at = "find" => r.kind # "refresh",
           r.at \in Located => r.fp \in Versions,
           r.at = "source" => r.kind = "refresh" /\ r.fp = NoImage,
           r.at \in Fetching => r.kind \in {"launch", "copy", "url", "refresh"},
           r.at \notin {"lookup", "access", "move"},
           r.kind = "refresh" =>
             /\ r.old \in Versions /\ r.tries = 0 /\ r.at \in {"source", "volume"}
             /\ threads[t].kind = "refresh" \/ \A u \in Threads \ {t} : threads[u].kind # "refresh",
           NoImage \notin broken => Newest(r.via, r.fp) /\ Newest(r.via, r.old)
    PROVE  ImagesIInv'
<1>0. Types /\ ChannelInv /\ AloneInv /\ StoreInv /\ IdsInv /\ KindInv /\ LateInv /\ ForwardInv
  BY DEF ImagesIInv
<1>1. StepOf(t) /\ threads'[t] = r /\ \A u \in Threads \ {t} : threads'[u] = threads[u]
  BY <1>0, OneThread DEF Types
<1>2. mixed \subseteq mixed' /\ mixed' \subseteq Versions
  BY <1>0, NotingKeeps
<1>3. Types'
  BY <1>0, <1>1, <1>2 DEF Types, StepOf, queue
<1>4. ChannelInv'
  BY <1>0, <1>1, ChannelKeeps
<1>5. Working \subseteq Located
  BY PlacesApart
<1>6. ASSUME r.at \in Working, r.fp \notin mixed'
      PROVE  \A u \in Threads \ {t} : threads[u].fp = r.fp => threads[u].at \notin Working
  <2>1. ASSUME NEW u \in Threads \ {t}, threads[u].fp = r.fp, threads[u].at \in Working PROVE FALSE
    <3>1. /\ threads'[u].fp = threads'[t].fp /\ threads'[u].at \in Working /\ threads'[t].at \in Working /\ u # t
          /\ threads'[t].fp \in Versions
      BY <1>1, <1>5, <1>6, <2>1
    <3> QED
      BY <1>0, <1>1, <1>6, <3>1, NotingIs
  <2> QED
    BY <2>1
<1>7. AloneInv'
  BY <1>0, <1>1, <1>2, <1>6, AloneKeeps
<1>8. StoreInv'
  <2>1. CASE r.at \notin Working
    BY <1>0, <1>1, <1>2, <2>1, StoreKeeps
  <2>2. CASE r.at \in Working
    <3>1. PICK g \in Versions : g = r.fp
      BY <1>5, <2>2
    <3>2. ASSUME g \notin mixed'
          PROVE  /\ \A u \in Threads \ {t} : threads[u].fp = g => threads[u].at \notin Working
                 /\ Progress(t)' /\ (files'[g] = "none" /\ g \notin kept' => g \notin volumes')
                 /\ g \notin broken' => Settled(g)'
      <4>1. g \notin mixed
        BY <1>2, <3>2
      <4>2. \A u \in Threads : threads[u].fp = g => threads[u].at \notin Working
        BY <1>6, <2>2, <3>1, <3>2
      <4>3. g \notin broken => Settled(g)
        BY <1>0, <4>1, <4>2 DEF StoreInv
      <4>4. files[g] = "none" /\ g \notin kept => g \notin volumes
        BY <1>0, <4>1 DEF StoreInv
      <4>5. Progress(t)'
        BY <1>1, <2>2, <3>1, <4>3 DEF Progress, ImageGet, Settled
      <4>6. Settled(g)' <=> Settled(g)
        BY DEF Settled, ImageGet
      <4> QED
        BY <1>6, <2>2, <3>1, <3>2, <4>3, <4>4, <4>5, <4>6
    <3>3. threads[t].at \notin Working /\ threads'[t].at \in Working /\ threads'[t].fp = g
      BY <1>1, <2>2, <3>1
    <3> QED
      BY <1>0, <1>1, <1>2, <3>2, <3>3, StoreStep
  <2> QED
    BY <2>1, <2>2
<1>9. IdsInv'
  BY <1>0, <1>1, IdsKeeps DEF Types
<1>10. KindInv'
  BY <1>0, <1>1, KindKeeps
<1>11. r.at \notin {"file", "row"}
  BY PlacesApart
<1>12. LateInv'
  <2>1. \A a \in Aliases : aliases'[a] \in {aliases[a], 0}
    OBVIOUS
  <2> QED
    BY <1>0, <1>1, <1>3, <1>11, <2>1, LateKeeps DEF Types
<1>13. ForwardInv'
  <2>1. r.kind = "refresh" => r.at \notin Located \ {"find", "volume", "file", "row"}
    BY PlacesApart
  <2> QED
    BY <1>0, <1>1, <2>1, NewestKnown, ForwardKeeps
<1> QED
  BY <1>3, <1>4, <1>7, <1>8, <1>9, <1>10, <1>12, <1>13 DEF ImagesIInv

-----------------------------------------------------------------------------
(* Requests begin, and the others                                            *)

\* A deletion finds its image.
LEMMA FindImageInv ==
    ASSUME ImagesIInv, NEW t \in Threads, FindImage(t)
    PROVE  ImagesIInv'
<1>0. Types /\ KindInv /\ ForwardInv
  BY DEF ImagesIInv
<1>1. /\ threads[t].at = "find" /\ threads[t].fp \in Versions /\ threads[t] \in ThreadRecord
      /\ threads[t].at \notin Working \cup Registered /\ Noting(threads')
      /\ threads[t].kind = "refresh" => threads[t].old \in Versions /\ threads[t].tries = 0
      /\ UNCHANGED <<rows, files, volumes, aliases, ids, server, cache, saved, queue, served, harm, kept, broken>>
      /\ served' \in Nat
  BY <1>0, PlacesApart DEF FindImage, streams, stored, Types, KindInv
<1>2. CASE ImageGet(threads[t].fp)
  <2>1. PICK n : n = rows[threads[t].fp].id
    OBVIOUS
  <2>2. PICK r : r = [threads[t] EXCEPT !.at = "volume", !.id = n]
    OBVIOUS
  <2>3. threads' = [threads EXCEPT ![t] = r]
    BY <1>2, <2>1, <2>2 DEF FindImage
  <2>4. n \in Nat
    BY <1>0, <1>1, <2>1 DEF Types, RowRecord
  <2>5. "volume" \in Places /\ "volume" \notin Registered \cup Fetching
    BY PlacesApart
  <2>6. /\ r \in ThreadRecord /\ r.at = "volume" /\ r.id = n /\ r.kind = threads[t].kind /\ r.fp = threads[t].fp
        /\ r.via = threads[t].via /\ r.old = threads[t].old /\ r.tries = threads[t].tries /\ r.late = threads[t].late
    BY <1>1, <2>2, <2>4, <2>5 DEF ThreadRecord
  <2>7. NoImage \notin broken => Newest(r.via, r.fp) /\ Newest(r.via, r.old)
    BY <1>0, <2>6, NewestKnown
  <2> QED
    BY <1>1, <1>2, <2>1, <2>3, <2>5, <2>6, <2>7, EnterTurn
<1>3. CASE ~ImageGet(threads[t].fp)
  <2>1. threads' = [threads EXCEPT ![t] = Idle]
    BY <1>3 DEF FindImage
  <2>2. Newest(Idle.via, Idle.fp) /\ Newest(Idle.via, Idle.old)
    BY <1>0, IdleTyped, NewestKnown
  <2> QED
    BY <1>1, <2>1, <2>2, IdleTyped, EnterTurn
<1> QED
  BY <1>2, <1>3

\* A published container's image is looked for under the lock.
LEMMA PublishCheckInv ==
    ASSUME ImagesIInv, NEW t \in Threads, PublishCheck(t)
    PROVE  ImagesIInv'
<1>0. Types /\ KindInv /\ ForwardInv
  BY DEF ImagesIInv
<1>1. /\ threads[t].at = "publish" /\ threads[t].fp \in Versions /\ threads[t] \in ThreadRecord
      /\ threads[t].at \notin Working \cup Registered /\ Noting(threads')
      /\ UNCHANGED <<rows, files, volumes, aliases, ids, server, cache, saved, queue, served, harm, kept, broken>>
      /\ served' \in Nat
  BY <1>0, PlacesApart DEF PublishCheck, streams, stored, Types, KindInv
<1>2. CASE ~ImageGet(threads[t].fp)
  <2>1. PICK r : r = [threads[t] EXCEPT !.at = "upload"]
    OBVIOUS
  <2>2. threads' = [threads EXCEPT ![t] = r]
    BY <1>2, <2>1 DEF PublishCheck
  <2>3. "upload" \in Places /\ "upload" \notin Registered \cup Fetching
    BY PlacesApart
  <2>4. /\ r \in ThreadRecord /\ r.at = "upload" /\ r.kind = threads[t].kind /\ r.fp = threads[t].fp
        /\ r.via = threads[t].via /\ r.old = threads[t].old
    BY <1>1, <2>1, <2>3 DEF ThreadRecord
  <2>5. NoImage \notin broken => Newest(r.via, r.fp) /\ Newest(r.via, r.old)
    BY <1>0, <2>4, NewestKnown
  <2>6. r.kind # "refresh"
    BY <1>0, <1>1, <2>4 DEF KindInv
  <2> QED
    BY <1>1, <2>2, <2>3, <2>4, <2>5, <2>6, EnterTurn
<1>3. CASE ImageGet(threads[t].fp)
  <2>1. threads' = [threads EXCEPT ![t] = Idle]
    BY <1>3 DEF PublishCheck
  <2>2. Newest(Idle.via, Idle.fp) /\ Newest(Idle.via, Idle.old)
    BY <1>0, IdleTyped, NewestKnown
  <2> QED
    BY <1>1, <2>1, <2>2, IdleTyped, EnterTurn
<1> QED
  BY <1>2, <1>3

\* A request begins.
LEMMA BeginInv ==
    ASSUME ImagesIInv, NEW t \in Threads, NEW kind \in Kinds, NEW fp \in Versions, NEW via \in Protocols,
           Begin(t, kind, fp, via)
    PROVE  ImagesIInv'
<1>0. Types /\ KindInv /\ ForwardInv
  BY DEF ImagesIInv
<1>1. PICK n \in Nat : n = IF kind = "refresh" THEN rows[fp].id ELSE 0
  BY <1>0 DEF Types, RowRecord
<1>2. PICK cached \in BOOLEAN : cached = (kind = "refresh" /\ rows[fp].cached)
  BY <1>0 DEF Types, RowRecord
<1>3. PICK at : at = CASE kind \in {"launch", "copy"} -> "resolve"
                       [] kind = "refresh" -> "source"
                       [] kind = "url" -> "check"
                       [] kind = "upload" -> "upload"
                       [] kind = "publish" -> "publish"
                       [] OTHER -> "find"
  OBVIOUS
<1>4. PICK tries \in {0, 1} : tries = IF kind = "copy" THEN 1 ELSE 0
  OBVIOUS
<1>5. PICK f \in Versions \cup {NoImage} : f = IF kind \in {"launch", "copy", "refresh"} THEN NoImage ELSE fp
  OBVIOUS
<1>6. PICK old \in Versions \cup {NoImage} : old = IF kind = "refresh" THEN fp ELSE NoImage
  OBVIOUS
<1>7. /\ kind \in {"launch", "copy"} => at = "resolve"
      /\ kind = "refresh" => at = "source"
      /\ kind = "url" => at = "check"
      /\ kind = "upload" => at = "upload"
      /\ kind = "publish" => at = "publish"
      /\ kind \notin {"launch", "copy", "refresh", "url", "upload", "publish"} => at = "find"
  BY <1>3
<1>8. at \in {"resolve", "source", "check", "upload", "publish", "find"}
  BY <1>7
<1>9. PICK r : r = [Idle EXCEPT !.kind = kind, !.via = via, !.fp = f, !.old = old, !.id = n, !.cached = cached,
                                !.tries = tries, !.at = at]
  OBVIOUS
<1>10. threads' = [threads EXCEPT ![t] = r]
  BY <1>1, <1>2, <1>3, <1>4, <1>5, <1>6, <1>9 DEF Begin
<1>11. at \in Places
  BY <1>8, PlacesApart
<1>12. /\ r \in ThreadRecord /\ r.kind = kind /\ r.via = via /\ r.fp = f /\ r.old = old /\ r.tries = tries /\ r.at = at
  BY <1>1, <1>2, <1>4, <1>5, <1>6, <1>9, <1>11 DEF Idle, ThreadRecord, NoImage
<1>13. /\ threads[t].at = "idle" /\ Noting(threads')
       /\ kind = "refresh" => \A u \in Threads : threads[u].kind # "refresh"
       /\ kind \in {"launch", "copy"} <=> via # "none"
       /\ UNCHANGED <<rows, files, volumes, aliases, ids, server, cache, saved, queue, harm, kept, broken>>
       /\ served' \in Nat
  BY <1>0 DEF Begin, streams, stored, Types
<1>14. /\ threads[t].at \notin Working \cup Registered
       /\ r.at \notin Registered /\ r.at # "wait"
       /\ r.at \in Working => r.at = "upload"
       /\ r.at \notin {"volume", "lookup", "access", "move"}
       /\ r.at \in Located => r.at \in {"check", "upload", "publish", "find"}
       /\ r.at \in Fetching => r.at \in {"resolve", "check"}
  BY <1>8, <1>12, <1>13, PlacesApart
<1>15. /\ r.at \in {"check", "upload", "publish", "find"} => r.fp = fp /\ r.kind # "refresh"
       /\ r.at \in {"resolve", "check"} => r.kind \in {"launch", "copy", "url"}
       /\ r.at = "source" => r.kind = "refresh" /\ r.fp = NoImage
       /\ r.kind = "refresh" => r.at = "source" /\ r.old = fp /\ r.tries = 0
  BY <1>4, <1>5, <1>6, <1>7, <1>8, <1>12
<1>16. Newest(r.via, r.fp) /\ Newest(r.via, r.old)
  <2>1. CASE r.via = "none"
    BY <1>0, <2>1, NewestKnown
  <2>2. CASE r.via # "none"
    <3>1. r.fp = 0 /\ r.old = 0
      BY <1>5, <1>6, <1>12, <1>13, <2>2 DEF NoImage
    <3> QED
      BY <1>0, <3>1, NewestKnown
  <2> QED
    BY <2>1, <2>2
<1>17. /\ r.at \in Located => r.fp \in Versions
       /\ r.at \in Fetching => r.kind \in {"launch", "copy", "url", "refresh"}
       /\ r.at = "find" => r.kind # "refresh"
       /\ r.at \in Working => r.at \in {"volume", "upload"}
  BY <1>14, <1>15
<1>18. r.kind = "refresh" =>
         /\ r.old \in Versions /\ r.tries = 0 /\ r.at \in {"source", "volume"}
         /\ threads[t].kind = "refresh" \/ \A u \in Threads \ {t} : threads[u].kind # "refresh"
  BY <1>12, <1>13, <1>15
<1> QED
  BY <1>10, <1>12, <1>13, <1>14, <1>15, <1>16, <1>17, <1>18, EnterTurn

\* No request does anything.
LEMMA StillInv ==
    ASSUME ImagesIInv, threads' \in [Threads -> ThreadRecord], UNCHANGED <<queue, files, volumes, mixed, kept, broken, ids>>,
           \A u \in Threads :
             /\ threads'[u].kind = threads[u].kind /\ threads'[u].at = threads[u].at /\ threads'[u].fp = threads[u].fp
             /\ threads'[u].via = threads[u].via /\ threads'[u].old = threads[u].old /\ threads'[u].id = threads[u].id
             /\ threads'[u].new = threads[u].new /\ threads'[u].chan = threads[u].chan /\ threads'[u].tries = threads[u].tries
             /\ threads'[u].linked = threads[u].linked /\ threads'[u].truncated = threads[u].truncated,
           \A fp \in Versions : rows'[fp].id = rows[fp].id /\ rows'[fp].source = rows[fp].source,
           \A a \in Aliases : aliases'[a] <= ids, cache' = cache, server' \in {server, server + 1}
    PROVE  ChannelInv' /\ AloneInv' /\ StoreInv' /\ IdsInv' /\ KindInv' /\ ForwardInv'
<1>0. Types /\ ChannelInv /\ AloneInv /\ StoreInv /\ IdsInv /\ KindInv /\ ForwardInv
  BY DEF ImagesIInv
<1>1. downloading' = downloading /\ closed' = closed
  BY DEF queue
<1>2. ChannelInv'
  BY <1>0, <1>1 DEF ChannelInv
<1>3. AloneInv'
  BY <1>0, <1>1 DEF AloneInv
<1>4. StoreInv'
  <2>1. Working \subseteq Located
    BY PlacesApart
  <2>2. ASSUME NEW u \in Threads, threads'[u].at \in Working, threads'[u].fp \notin mixed PROVE Progress(u)'
    <3>1. Progress(u)
      BY <1>0, <2>2 DEF StoreInv
    <3>2. threads[u].fp \in Versions
      BY <1>0, <2>1, <2>2 DEF KindInv
    <3>3. rows'[threads'[u].fp].id = rows[threads[u].fp].id
      BY <3>2
    <3> QED
      BY <3>1, <3>3 DEF Progress, ImageGet
  <2>3. ASSUME NEW fp \in Versions \ (mixed \cup broken),
               \A u \in Threads : threads'[u].fp = fp => threads'[u].at \notin Working \ {"upload"}
        PROVE  Settled(fp)'
    <3>1. Settled(fp)
      BY <1>0, <2>3 DEF StoreInv
    <3> QED
      BY <3>1 DEF Settled, ImageGet
  <2> QED
    BY <1>0, <2>2, <2>3 DEF StoreInv
<1>5. IdsInv'
  BY <1>0 DEF IdsInv
<1>6. KindInv'
  BY <1>0 DEF KindInv
<1>7. ForwardInv'
  <2>1. server \in Nat /\ cache.fp \in Nat /\ Versions \subseteq Nat /\ NoImage = 0
        /\ \A u \in Threads : threads[u].fp \in Nat /\ threads[u].old \in Nat
    BY <1>0, Numbers DEF NoImage
  <2>2. \A x \in Nat : x <= server => x <= server'
    BY <2>1
  <2>3. \A via : \A x \in Nat : Newest(via, x) => (via = "lxd" => x <= server') /\ (via = "simplestreams" => x <= cache'.fp)
    BY <2>2 DEF Newest
  <2> SUFFICES ASSUME NoImage \notin broken
               PROVE  /\ cache'.fp <= server'
                      /\ \A fp \in Versions : /\ rows'[fp].source = "lxd" => fp <= server'
                                              /\ rows'[fp].source = "simplestreams" => fp <= cache'.fp
                      /\ \A u \in Threads :
                           /\ threads'[u].via = "lxd" => threads'[u].fp <= server' /\ threads'[u].old <= server'
                           /\ threads'[u].via = "simplestreams" => threads'[u].fp <= cache'.fp /\ threads'[u].old <= cache'.fp
                           /\ threads'[u].kind = "refresh" /\ threads'[u].at \in Located \ {"find", "volume", "file", "row"}
                                => threads'[u].old <= threads'[u].fp
    BY DEF ForwardInv, Newest
  <2>4. cache'.fp <= server'
    BY <1>0, <2>1, <2>2 DEF ForwardInv
  <2>5. ASSUME NEW fp \in Versions
        PROVE  (rows'[fp].source = "lxd" => fp <= server') /\ (rows'[fp].source = "simplestreams" => fp <= cache'.fp)
    <3>1. Newest(rows[fp].source, fp) /\ fp \in Nat
      BY <1>0, <2>1 DEF ForwardInv
    <3> QED
      BY <2>3, <3>1
  <2>6. ASSUME NEW u \in Threads
        PROVE  /\ threads'[u].via = "lxd" => threads'[u].fp <= server' /\ threads'[u].old <= server'
               /\ threads'[u].via = "simplestreams" => threads'[u].fp <= cache'.fp /\ threads'[u].old <= cache'.fp
               /\ threads'[u].kind = "refresh" /\ threads'[u].at \in Located \ {"find", "volume", "file", "row"}
                    => threads'[u].old <= threads'[u].fp
    <3>1. /\ Newest(threads[u].via, threads[u].fp) /\ Newest(threads[u].via, threads[u].old)
          /\ threads[u].kind = "refresh" /\ threads[u].at \in Located \ {"find", "volume", "file", "row"}
               => threads[u].old <= threads[u].fp
      BY <1>0 DEF ForwardInv
    <3> QED
      BY <2>1, <2>3, <3>1
  <2> QED
    BY <2>4, <2>5, <2>6
<1> QED
  BY <1>2, <1>3, <1>4, <1>5, <1>6, <1>7

\* The refresh is told of an alias that is set.
LEMMA RetargetedIs ==
    ASSUME Types, NEW a \in Aliases, Retargeted(a)
    PROVE  /\ threads' \in [Threads -> ThreadRecord]
           /\ \A u \in Threads :
             /\ threads'[u].kind = threads[u].kind /\ threads'[u].at = threads[u].at /\ threads'[u].fp = threads[u].fp
             /\ threads'[u].via = threads[u].via /\ threads'[u].old = threads[u].old /\ threads'[u].id = threads[u].id
             /\ threads'[u].new = threads[u].new /\ threads'[u].chan = threads[u].chan /\ threads'[u].tries = threads[u].tries
             /\ threads'[u].linked = threads[u].linked /\ threads'[u].truncated = threads[u].truncated
             /\ threads'[u].late = IF threads[u].kind = "refresh" THEN threads[u].late \cup {a} ELSE threads[u].late
<1>1. ASSUME NEW u \in Threads
      PROVE  /\ threads'[u] \in ThreadRecord
             /\ threads'[u].kind = threads[u].kind /\ threads'[u].at = threads[u].at /\ threads'[u].fp = threads[u].fp
             /\ threads'[u].via = threads[u].via /\ threads'[u].old = threads[u].old /\ threads'[u].id = threads[u].id
             /\ threads'[u].new = threads[u].new /\ threads'[u].chan = threads[u].chan /\ threads'[u].tries = threads[u].tries
             /\ threads'[u].linked = threads[u].linked /\ threads'[u].truncated = threads[u].truncated
             /\ threads'[u].late = IF threads[u].kind = "refresh" THEN threads[u].late \cup {a} ELSE threads[u].late
  <2>1. threads[u] \in ThreadRecord
    BY DEF Types
  <2>2. threads'[u] = IF threads[u].kind = "refresh" THEN [threads[u] EXCEPT !.late = threads[u].late \cup {a}] ELSE threads[u]
    BY DEF Retargeted
  <2>3. CASE threads[u].kind = "refresh"
    <3>1. PICK late : late = threads[u].late \cup {a}
      OBVIOUS
    <3>2. late \in SUBSET Aliases
      BY <2>1, <3>1 DEF ThreadRecord
    <3>3. threads'[u] = [threads[u] EXCEPT !.late = late]
      BY <2>2, <2>3, <3>1
    <3>4. threads'[u] \in ThreadRecord /\ threads'[u].late = late
      BY <2>1, <3>2, <3>3 DEF ThreadRecord
    <3> QED
      BY <2>1, <2>3, <3>1, <3>3, <3>4 DEF ThreadRecord
  <2>4. CASE threads[u].kind # "refresh"
    BY <2>1, <2>2, <2>4
  <2> QED
    BY <2>3, <2>4
<1>2. threads' = [u \in Threads |-> threads'[u]]
  BY DEF Retargeted
<1> QED
  BY <1>1, <1>2

\* An alias is set on an image: too late, for a refresh that has moved the others.
LEMMA SetAliasInv ==
    ASSUME ImagesIInv, NEW a \in Aliases, NEW fp \in Versions, SetAlias(a, fp)
    PROVE  ImagesIInv'
<1>0. Types /\ IdsInv /\ KindInv /\ LateInv
  BY DEF ImagesIInv
<1>1. /\ ImageGet(fp) /\ aliases' = [aliases EXCEPT ![a] = rows[fp].id] /\ Retargeted(a) /\ served' \in Nat
      /\ UNCHANGED <<rows, files, volumes, ids, server, cache, saved, queue, harm, mixed, kept, broken>>
  BY <1>0 DEF SetAlias, streams, ghosts, Types
<1>2. /\ threads' \in [Threads -> ThreadRecord]
      /\ \A u \in Threads :
           /\ threads'[u].kind = threads[u].kind /\ threads'[u].at = threads[u].at /\ threads'[u].fp = threads[u].fp
           /\ threads'[u].via = threads[u].via /\ threads'[u].old = threads[u].old /\ threads'[u].id = threads[u].id
           /\ threads'[u].new = threads[u].new /\ threads'[u].chan = threads[u].chan /\ threads'[u].tries = threads[u].tries
           /\ threads'[u].linked = threads[u].linked /\ threads'[u].truncated = threads[u].truncated
           /\ threads'[u].late = IF threads[u].kind = "refresh" THEN threads[u].late \cup {a} ELSE threads[u].late
  BY <1>0, <1>1, RetargetedIs
<1>3. /\ aliases' \in [Aliases -> Nat] /\ (\A b \in Aliases : aliases'[b] <= ids)
      /\ \A b \in Aliases \ {a} : aliases'[b] = aliases[b]
  BY <1>0, <1>1 DEF Types, RowRecord, IdsInv
<1>4. Types'
  BY <1>0, <1>1, <1>2, <1>3 DEF Types, queue
<1>5. LateInv'
  <2>1. ASSUME NEW u \in Threads, threads'[u].kind = "refresh", NEW c \in Aliases, aliases'[c] # 0
        PROVE  /\ threads'[u].at = "find" /\ aliases'[c] = rows[threads'[u].fp].id => c \in threads'[u].late
               /\ threads'[u].at \in {"volume", "file", "row"} /\ aliases'[c] = threads'[u].id => c \in threads'[u].late
    <3>1. threads'[u].late = threads[u].late \cup {a}
      BY <1>2, <2>1
    <3>2. CASE c = a
      BY <3>1, <3>2
    <3>3. CASE c # a
      <4>1. aliases'[c] = aliases[c] /\ threads[u].kind = "refresh"
        BY <1>2, <1>3, <2>1, <3>3
      <4> QED
        BY <1>0, <1>2, <2>1, <3>1, <4>1 DEF LateInv
    <3> QED
      BY <3>2, <3>3
  <2> QED
    BY <1>1, <2>1 DEF LateInv
<1>6. ChannelInv' /\ AloneInv' /\ StoreInv' /\ IdsInv' /\ KindInv' /\ ForwardInv'
  BY <1>1, <1>2, <1>3, StillInv
<1> QED
  BY <1>4, <1>5, <1>6 DEF ImagesIInv

\* An alias gets another name.
LEMMA RenameAliasInv ==
    ASSUME ImagesIInv, NEW a \in Aliases, NEW b \in Aliases, RenameAlias(a, b)
    PROVE  ImagesIInv'
<1>0. Types /\ IdsInv /\ KindInv /\ LateInv
  BY DEF ImagesIInv
<1>1. /\ aliases[a] # 0 /\ aliases[b] = 0 /\ aliases' = [aliases EXCEPT ![a] = 0, ![b] = aliases[a]]
      /\ Retargeted(b) /\ served' \in Nat
      /\ UNCHANGED <<rows, files, volumes, ids, server, cache, saved, queue, harm, mixed, kept, broken>>
  BY <1>0 DEF RenameAlias, streams, ghosts, Types
<1>2. /\ threads' \in [Threads -> ThreadRecord]
      /\ \A u \in Threads :
           /\ threads'[u].kind = threads[u].kind /\ threads'[u].at = threads[u].at /\ threads'[u].fp = threads[u].fp
           /\ threads'[u].via = threads[u].via /\ threads'[u].old = threads[u].old /\ threads'[u].id = threads[u].id
           /\ threads'[u].new = threads[u].new /\ threads'[u].chan = threads[u].chan /\ threads'[u].tries = threads[u].tries
           /\ threads'[u].linked = threads[u].linked /\ threads'[u].truncated = threads[u].truncated
           /\ threads'[u].late = IF threads[u].kind = "refresh" THEN threads[u].late \cup {b} ELSE threads[u].late
  BY <1>0, <1>1, RetargetedIs
<1>3. /\ aliases' \in [Aliases -> Nat] /\ (\A c \in Aliases : aliases'[c] <= ids)
      /\ \A c \in Aliases \ {b} : aliases'[c] \in {aliases[c], 0}
  BY <1>0, <1>1 DEF Types, IdsInv
<1>4. Types'
  BY <1>0, <1>1, <1>2, <1>3 DEF Types, queue
<1>5. LateInv'
  <2>1. ASSUME NEW u \in Threads, threads'[u].kind = "refresh", NEW c \in Aliases, aliases'[c] # 0
        PROVE  /\ threads'[u].at = "find" /\ aliases'[c] = rows[threads'[u].fp].id => c \in threads'[u].late
               /\ threads'[u].at \in {"volume", "file", "row"} /\ aliases'[c] = threads'[u].id => c \in threads'[u].late
    <3>1. threads'[u].late = threads[u].late \cup {b}
      BY <1>2, <2>1
    <3>2. CASE c = b
      BY <3>1, <3>2
    <3>3. CASE c # b
      <4>1. aliases'[c] = aliases[c] /\ threads[u].kind = "refresh"
        BY <1>2, <1>3, <2>1, <3>3
      <4> QED
        BY <1>0, <1>2, <2>1, <3>1, <4>1 DEF LateInv
    <3> QED
      BY <3>2, <3>3
  <2> QED
    BY <1>1, <2>1 DEF LateInv
<1>6. ChannelInv' /\ AloneInv' /\ StoreInv' /\ IdsInv' /\ KindInv' /\ ForwardInv'
  BY <1>1, <1>2, <1>3, StillInv
<1> QED
  BY <1>4, <1>5, <1>6 DEF ImagesIInv

\* An alias is removed.
LEMMA aliasDeleteInv ==
    ASSUME ImagesIInv, NEW a \in Aliases, aliasDelete(a)
    PROVE  ImagesIInv'
<1>0. Types /\ IdsInv /\ LateInv
  BY DEF ImagesIInv
<1>1. /\ aliases' = [aliases EXCEPT ![a] = 0] /\ served' \in Nat
      /\ UNCHANGED <<rows, files, volumes, ids, server, cache, saved, queue, threads, harm, mixed, kept, broken>>
  BY <1>0 DEF aliasDelete, streams, ghosts, Types
<1>2. /\ aliases' \in [Aliases -> Nat] /\ (\A c \in Aliases : aliases'[c] <= ids)
      /\ \A c \in Aliases : aliases'[c] \in {aliases[c], 0}
  BY <1>0, <1>1 DEF Types, IdsInv
<1>3. Types'
  BY <1>0, <1>1, <1>2 DEF Types, queue
<1>4. LateInv'
  BY <1>0, <1>1, <1>2 DEF LateInv
<1>5. threads' \in [Threads -> ThreadRecord]
  BY <1>0, <1>1 DEF Types
<1>6. ChannelInv' /\ AloneInv' /\ StoreInv' /\ IdsInv' /\ KindInv' /\ ForwardInv'
  BY <1>1, <1>2, <1>5, StillInv
<1> QED
  BY <1>3, <1>4, <1>6 DEF ImagesIInv

\* An image's properties are changed.
LEMMA imagePutInv ==
    ASSUME ImagesIInv, NEW g \in Versions, imagePut(g)
    PROVE  ImagesIInv'
<1>0. Types /\ IdsInv /\ LateInv
  BY DEF ImagesIInv
<1>1. /\ rows' = [rows EXCEPT ![g].auto = ~rows[g].auto] /\ served' \in Nat
      /\ UNCHANGED <<files, volumes, aliases, ids, server, cache, saved, queue, threads, harm, mixed, kept, broken>>
  BY <1>0 DEF imagePut, streams, ghosts, Types
<1>2. PICK row : row = [rows[g] EXCEPT !.auto = ~rows[g].auto]
  OBVIOUS
<1>3. row \in RowRecord /\ row.id = rows[g].id /\ row.source = rows[g].source
  <2>1. rows[g] \in RowRecord
    BY <1>0 DEF Types
  <2>2. PICK auto \in BOOLEAN : auto = ~rows[g].auto
    BY <2>1 DEF RowRecord
  <2>3. row = [rows[g] EXCEPT !.auto = auto]
    BY <1>2, <2>2
  <2> QED
    BY <2>1, <2>3 DEF RowRecord
<1>4. rows' = [rows EXCEPT ![g] = row]
  BY <1>1, <1>2
<1>5. /\ rows' \in [Versions -> RowRecord]
      /\ \A fp \in Versions : rows'[fp].id = rows[fp].id /\ rows'[fp].source = rows[fp].source
  BY <1>0, <1>3, <1>4, RowEdited
<1>6. Types'
  BY <1>0, <1>1, <1>5 DEF Types, queue
<1>7. LateInv'
  <2>1. \A u \in Threads : threads[u].at = "find" => threads[u].fp \in Versions
    BY PlacesApart DEF ImagesIInv, KindInv
  <2> QED
    BY <1>0, <1>1, <1>5, <2>1 DEF LateInv
<1>8. \A a \in Aliases : aliases'[a] <= ids
  BY <1>0, <1>1 DEF IdsInv
<1>9. threads' \in [Threads -> ThreadRecord]
  BY <1>0, <1>1 DEF Types
<1>10. ChannelInv' /\ AloneInv' /\ StoreInv' /\ IdsInv' /\ KindInv' /\ ForwardInv'
  BY <1>1, <1>5, <1>8, <1>9, StillInv
<1> QED
  BY <1>6, <1>7, <1>10 DEF ImagesIInv

\* The server publishes another image.
LEMMA PublishInv ==
    ASSUME ImagesIInv, Publish
    PROVE  ImagesIInv'
<1>0. Types /\ IdsInv /\ LateInv
  BY DEF ImagesIInv
<1>1. /\ server' = server + 1 /\ server < MaxPublished
      /\ UNCHANGED <<rows, files, volumes, aliases, ids, cache, saved, queue, threads, served, harm, mixed, kept, broken>>
  BY DEF Publish, stored, ghosts
<1>2. server' \in 1..MaxPublished
  BY <1>0, <1>1, ImagesAssumption DEF Types
<1>3. Types'
  BY <1>0, <1>1, <1>2 DEF Types, queue
<1>4. LateInv'
  BY <1>0, <1>1 DEF LateInv
<1>5. (\A a \in Aliases : aliases'[a] <= ids) /\ threads' \in [Threads -> ThreadRecord]
  BY <1>0, <1>1 DEF IdsInv, Types
<1>6. ChannelInv' /\ AloneInv' /\ StoreInv' /\ IdsInv' /\ KindInv' /\ ForwardInv'
  BY <1>1, <1>5, StillInv
<1> QED
  BY <1>3, <1>4, <1>6 DEF ImagesIInv

\* Every request has ended.
LEMMA AllIdle ==
    ASSUME threads = [t \in Threads |-> Idle], downloading = [fp \in Versions |-> 0], closed = {}
    PROVE  /\ threads \in [Threads -> ThreadRecord] /\ downloading \in [Versions -> Nat]
           /\ ChannelInv /\ AloneInv /\ KindInv /\ LateInv
<1>1. \A t \in Threads : threads[t] = Idle
  OBVIOUS
<1>2. threads \in [Threads -> ThreadRecord] /\ downloading \in [Versions -> Nat]
  BY IdleTyped
<1>3. ChannelInv
  BY <1>1, IdleTyped DEF ChannelInv
<1>4. Idle.fp \notin Versions
  BY IdleTyped, ImagesAssumption
<1>5. AloneInv
  BY <1>1, <1>4 DEF AloneInv
<1>6. KindInv
  BY <1>1, IdleTyped DEF KindInv
<1>7. LateInv
  BY <1>1, IdleTyped DEF LateInv
<1> QED
  BY <1>2, <1>3, <1>5, <1>6, <1>7

\* The daemon starts again: what was at work stays in parts.
LEMMA RestartInv ==
    ASSUME ImagesIInv, Restart
    PROVE  ImagesIInv'
<1>0. Types /\ StoreInv /\ IdsInv /\ KindInv /\ ForwardInv
  BY DEF ImagesIInv
<1> DEFINE W == {threads[t].fp : t \in {u \in Threads : threads[u].at \in Working}}
           C == IF saved # cache.fp THEN {NoImage} ELSE {}
<1>1. /\ threads' = [t \in Threads |-> Idle] /\ downloading' = [fp \in Versions |-> 0] /\ closed' = {}
      /\ cache' = [fp |-> saved, expired |-> saved # NoImage]
      /\ broken' = broken \cup W \cup C
      /\ UNCHANGED <<rows, files, volumes, aliases, ids, server, saved, served, mixed, kept>> /\ harm' \in Nat
  BY <1>0 DEF Restart, stored, Types
<1>2. \A t \in Threads : threads'[t] = Idle
  BY <1>1
<1>3. threads' \in [Threads -> ThreadRecord] /\ downloading' \in [Versions -> Nat]
  BY <1>1, IdleTyped
<1>4. broken \subseteq broken' /\ broken' \subseteq Versions \cup {NoImage}
  <2>1. W \subseteq Versions \cup {NoImage}
    BY <1>0 DEF Types, ThreadRecord
  <2> HIDE DEF W
  <2> QED
    BY <1>0, <1>1, <2>1 DEF Types
<1>5. cache' \in [fp : Versions \cup {NoImage}, expired : BOOLEAN]
  BY <1>0, <1>1 DEF Types
<1>6. Types'
  BY <1>0, <1>1, <1>3, <1>4, <1>5 DEF Types
<1>7. ChannelInv'
  BY <1>1, <1>2, IdleTyped DEF ChannelInv
<1>8. AloneInv'
  <2>1. Idle.fp \notin Versions
    BY IdleTyped, ImagesAssumption
  <2> QED
    BY <1>2, <2>1 DEF AloneInv
<1>9. KindInv'
  BY <1>2, IdleTyped DEF KindInv
<1>10. LateInv'
  BY <1>2, IdleTyped DEF LateInv
<1>11. IdsInv'
  BY <1>0, <1>1, <1>2, IdleTyped DEF IdsInv
<1>12. StoreInv'
  <2>1. ASSUME NEW fp \in Versions \ (mixed \cup broken') PROVE Settled(fp)'
    <3>1. \A t \in Threads : threads[t].fp = fp => threads[t].at \notin Working \ {"upload"}
      BY <1>1, <2>1
    <3>2. Settled(fp)
      BY <1>0, <1>4, <2>1, <3>1 DEF StoreInv
    <3> QED
      BY <1>1, <3>2 DEF Settled, ImageGet
  <2>2. \A t \in Threads : threads'[t].at \notin Working
    BY <1>2, IdleTyped
  <2>3. \A fp \in Versions \ mixed' : files'[fp] = "none" /\ fp \notin kept' => fp \notin volumes'
    BY <1>0, <1>1 DEF StoreInv
  <2> QED
    BY <1>1, <2>1, <2>2, <2>3 DEF StoreInv
<1>13. ForwardInv'
  <2> SUFFICES ASSUME NoImage \notin broken' PROVE ForwardInv'
    BY DEF ForwardInv
  <2>1. NoImage \notin broken /\ saved = cache.fp
    BY <1>1, <1>4
  <2>2. cache'.fp = cache.fp
    BY <1>1, <2>1
  <2>3. Idle.kind = "none" /\ Idle.via = "none"
    BY IdleTyped
  <2> QED
    BY <1>0, <1>1, <1>2, <2>1, <2>2, <2>3 DEF ForwardInv, Newest
<1> QED
  BY <1>6, <1>7, <1>8, <1>9, <1>10, <1>11, <1>12, <1>13 DEF ImagesIInv

\* The server starts with nothing.
LEMMA InitInv ==
    ASSUME Init
    PROVE  ImagesIInv
<1>1. /\ rows = [fp \in Versions |-> NoRow] /\ files = [fp \in Versions |-> "none"]
      /\ volumes = {} /\ aliases = [a \in Aliases |-> 0]
      /\ downloading = [fp \in Versions |-> 0] /\ closed = {}
      /\ ids = 0 /\ server = 1 /\ cache = [fp |-> NoImage, expired |-> FALSE] /\ saved = NoImage
      /\ threads = [t \in Threads |-> Idle]
      /\ served = 0 /\ harm = 0 /\ mixed = {} /\ kept = {} /\ broken = {}
  BY DEF Init
<1>2. /\ threads \in [Threads -> ThreadRecord] /\ downloading \in [Versions -> Nat]
      /\ ChannelInv /\ AloneInv /\ KindInv /\ LateInv
  BY <1>1, AllIdle
<1>3. NoRow \in RowRecord /\ NoRow.id = 0 /\ NoRow.source = "none"
  BY DEF NoRow, RowRecord
<1>4. \A t \in Threads : threads[t] = Idle
  BY <1>1
<1>5. Types
  <2>1. 1 \in 1..MaxPublished
    BY ImagesAssumption
  <2>2. rows \in [Versions -> RowRecord]
    BY <1>1, <1>3
  <2> QED
    BY <1>1, <1>2, <2>1, <2>2 DEF Types
<1>6. \A fp \in Versions : rows[fp] = NoRow
  BY <1>1
<1>7. StoreInv
  BY <1>1, <1>3, <1>4, <1>6, IdleTyped DEF StoreInv, Settled, ImageGet
<1>8. IdsInv
  BY <1>1, <1>3, <1>4, <1>6, IdleTyped DEF IdsInv
<1>9. ForwardInv
  BY <1>1, <1>3, <1>4, <1>6, IdleTyped DEF ForwardInv, Newest, NoImage
<1> QED
  BY <1>2, <1>5, <1>7, <1>8, <1>9 DEF ImagesIInv

-----------------------------------------------------------------------------
(* The theorems                                                              *)

\* A step of a request.
LEMMA ThreadStepInv ==
    ASSUME ImagesIInv, NEW t \in Threads, ThreadStep(t)
    PROVE  ImagesIInv'
<1>1. CASE ImageSourceGet(t)
  BY <1>1, ImageSourceGetInv
<1>2. CASE ResolveLXD(t)
  BY <1>2, ResolveLXDInv
<1>3. CASE ResolveStreams(t)
  BY <1>3, ResolveStreamsInv
<1>4. CASE CheckExists(t)
  BY <1>4, CheckExistsInv
<1>5. CASE CheckDownloading(t)
  BY <1>5, CheckDownloadingInv
<1>6. CASE Woken(t)
  BY <1>6, WokenInv
<1>7. CASE Register(t)
  BY <1>7, RegisterInv
<1>8. CASE CleanLeftover(t)
  BY <1>8, CleanLeftoverInv
<1>9. CASE OpenFile(t)
  BY <1>9, OpenFileInv
<1>10. CASE GetImageFile(t)
  BY <1>10, GetImageFileInv
<1>11. CASE ImageCreate(t)
  BY <1>11, ImageCreateInv
<1>12. CASE InsertImage(t)
  BY <1>12, InsertImageInv
<1>13. CASE RecordSource(t)
  BY <1>13, RecordSourceInv
<1>14. CASE Cleanup(t)
  BY <1>14, CleanupInv
<1>15. CASE Unlock(t)
  BY <1>15, UnlockInv
<1>16. CASE imgPostRemoteInfo(t) \/ imgPostURLInfo(t)
  BY <1>16, ImageUpdateInv DEF imgPostRemoteInfo, imgPostURLInfo
<1>17. CASE LookupNew(t)
  BY <1>17, LookupNewInv
<1>18. CASE LastAccess(t)
  BY <1>18, LastAccessInv
<1>19. CASE ImageAliasesMove(t)
  BY <1>19, ImageAliasesMoveInv
<1>20. CASE FindImage(t)
  BY <1>20, FindImageInv
<1>21. CASE DeleteVolume(t)
  BY <1>21, DeleteVolumeInv
<1>22. CASE DeleteFiles(t)
  BY <1>22, DeleteFilesInv
<1>23. CASE ImageDelete(t)
  BY <1>23, ImageDeleteInv
<1>24. CASE PublishCheck(t)
  BY <1>24, PublishCheckInv
<1>25. CASE MoveUpload(t)
  BY <1>25, MoveUploadInv
<1>26. CASE ImportImage(t)
  BY <1>26, ImportImageInv
<1>27. CASE AddImage(t)
  BY <1>27, AddImageInv
<1> QED
  BY <1>1, <1>2, <1>3, <1>4, <1>5, <1>6, <1>7, <1>8, <1>9, <1>10, <1>11, <1>12, <1>13, <1>14, <1>15, <1>16, <1>17,
     <1>18, <1>19, <1>20, <1>21, <1>22, <1>23, <1>24, <1>25, <1>26, <1>27 DEF ThreadStep

\* Nothing happens.
LEMMA StutterInv ==
    ASSUME ImagesIInv, UNCHANGED vars
    PROVE  ImagesIInv'
<1>0. Types /\ IdsInv /\ LateInv
  BY DEF ImagesIInv
<1>1. UNCHANGED <<rows, files, volumes, aliases, ids, server, cache, saved, queue, threads, served, harm, mixed, kept, broken>>
  BY DEF vars, queue
<1>2. Types'
  BY <1>0, <1>1 DEF Types, queue
<1>3. LateInv'
  BY <1>0, <1>1 DEF LateInv
<1>4. (\A a \in Aliases : aliases'[a] <= ids) /\ threads' \in [Threads -> ThreadRecord]
  BY <1>0, <1>1 DEF IdsInv, Types
<1>5. ChannelInv' /\ AloneInv' /\ StoreInv' /\ IdsInv' /\ KindInv' /\ ForwardInv'
  BY <1>1, <1>4, StillInv
<1> QED
  BY <1>2, <1>3, <1>5 DEF ImagesIInv

\* The inductive invariant: one request at work on an image at most, unless it
\* is noted, and the image is what that request has made of it so far
\* (daemon_images.go ImageDownload, images.go doDeleteImage, autoUpdateImage).
THEOREM ImagesInvariant == Spec => []ImagesIInv
<1>1. Init => ImagesIInv
  BY InitInv
<1>2. ImagesIInv /\ [Next]_vars => ImagesIInv'
  <2> SUFFICES ASSUME ImagesIInv, [Next]_vars PROVE ImagesIInv'
    OBVIOUS
  <2>1. CASE \E t \in Threads, kind \in Kinds, fp \in Versions, via \in Protocols : Begin(t, kind, fp, via)
    BY <2>1, BeginInv
  <2>2. CASE \E t \in Threads : ThreadStep(t)
    BY <2>2, ThreadStepInv
  <2>3. CASE \E a \in Aliases, fp \in Versions : SetAlias(a, fp)
    BY <2>3, SetAliasInv
  <2>4. CASE \E a, b \in Aliases : RenameAlias(a, b)
    BY <2>4, RenameAliasInv
  <2>5. CASE \E a \in Aliases : aliasDelete(a)
    BY <2>5, aliasDeleteInv
  <2>6. CASE \E fp \in Versions : imagePut(fp)
    BY <2>6, imagePutInv
  <2>7. CASE Publish
    BY <2>7, PublishInv
  <2>8. CASE Restart
    BY <2>8, RestartInv
  <2>9. CASE UNCHANGED vars
    BY <2>9, StutterInv
  <2> QED
    BY <2>1, <2>2, <2>3, <2>4, <2>5, <2>6, <2>7, <2>8, <2>9 DEF Next
<1> QED
  BY <1>1, <1>2, PTL DEF Spec

\* Rows, files and volumes come and go together, whatever downloads, uploads and
\* deletions have failed, and what an earlier attempt has left does not make a
\* later one fail (ImageDownload, doDeleteImage, imgPostContInfo).
THEOREM ImagesComplete == Spec => []ImagesInv
<1>1. ImagesIInv => ImagesInv
  <2> SUFFICES ASSUME ImagesIInv PROVE ImagesInv
    OBVIOUS
  <2>0. Types /\ ChannelInv /\ StoreInv /\ IdsInv
    BY DEF ImagesIInv
  <2>1. rows \in [Versions -> [id : 0..ids, auto : BOOLEAN, cached : BOOLEAN, source : Protocols \cup {"none"}]]
    <3>1. ASSUME NEW fp \in Versions
          PROVE  rows[fp] \in [id : 0..ids, auto : BOOLEAN, cached : BOOLEAN, source : Protocols \cup {"none"}]
      <4>1. rows[fp] \in RowRecord /\ rows[fp].id <= ids /\ ids \in Nat
        BY <2>0 DEF Types, IdsInv
      <4> QED
        BY <4>1 DEF RowRecord
    <3> QED
      BY <2>0, <3>1 DEF Types
  <2>2. aliases \in [Aliases -> 0..ids]
    BY <2>0 DEF Types, IdsInv
  <2>3. \A t \in Threads : threads[t].fp \in Versions \cup {NoImage}
    BY <2>0 DEF Types, ThreadRecord
  <2>4. kept \subseteq Versions
    BY <2>0 DEF Types
  <2>5. TypeOK
    BY <2>0, <2>1, <2>2, <2>3, <2>4 DEF TypeOK, Types, ChannelInv
  <2>6. \A fp \in Versions \ (mixed \cup broken) : ~Busy(fp) => Settled(fp)
    BY <2>0 DEF Busy, StoreInv
  <2>7. RowHasFiles /\ NothingLeft
    BY <2>6 DEF RowHasFiles, NothingLeft, Settled
  <2>8. AttemptsAnew
    <3>1. ASSUME NEW t \in Threads, threads[t].at = "store", threads[t].fp \notin mixed \cup kept PROVE CanStore(threads[t].fp)
      <4>1. Progress(t)
        BY <2>0, <3>1 DEF StoreInv, Working
      <4> QED
        BY <3>1, <4>1 DEF Progress, CanStore
    <3> QED
      BY <3>1 DEF AttemptsAnew
  <2> QED
    BY <2>5, <2>7, <2>8 DEF ImagesInv
<1> QED
  BY <1>1, ImagesInvariant, PTL

\* Who waits for another request's download has somebody to wake it, unless two
\* downloads of the image have met (ImageDownload, imagesDownloading).
THEOREM WaitersAreWoken == Spec => []WaiterHasWaker
<1>1. ImagesIInv => WaiterHasWaker
  <2> SUFFICES ASSUME ImagesIInv, NEW t \in Threads, threads[t].at = "wait", threads[t].fp \notin mixed,
                      threads[t].chan \notin closed
               PROVE  /\ downloading[threads[t].fp] = threads[t].chan
                      /\ \E u \in Threads : threads[u].fp = threads[t].fp /\ threads[u].at \in Working \cup Leaving
    BY DEF WaiterHasWaker
  <2>0. ChannelInv /\ AloneInv /\ KindInv
    BY DEF ImagesIInv
  <2>1. threads[t].fp \in Versions \ mixed
    BY <2>0, PlacesApart DEF KindInv
  <2>2. threads[t].chan # 0 /\ threads[t].chan = downloading[threads[t].fp]
    BY <2>0, <2>1 DEF ChannelInv, AloneInv
  <2>3. \E u \in Threads : threads[u].fp = threads[t].fp /\ threads[u].at \in Registered
    BY <2>0, <2>1, <2>2 DEF ChannelInv
  <2> QED
    BY <2>2, <2>3, PlacesApart
<1> QED
  BY <1>1, ImagesInvariant, PTL

\* No step of a request but a deletion's last takes an alias, and a refresh only
\* those set too late.
LEMMA AliasesKeptStep ==
    ASSUME ImagesIInv, Next
    PROVE  AliasesKept
<1>0. Types /\ IdsInv /\ LateInv
  BY DEF ImagesIInv
<1>1. served \in Nat
  BY <1>0 DEF Types
<1>2. CASE served' = served + 1
  BY <1>1, <1>2 DEF AliasesKept
<1>3. CASE aliases' = aliases
  BY <1>3 DEF AliasesKept
<1>4. ASSUME NEW t \in Threads, ThreadStep(t) PROVE AliasesKept
  <2>1. CASE ImageAliasesMove(t)
    <3>1. threads[t].new # 0
      BY <1>0, <2>1 DEF ImageAliasesMove, IdsInv
    <3>2. \A a \in Aliases : aliases[a] # 0 => aliases'[a] # 0
      BY <2>1, <3>1 DEF ImageAliasesMove
    <3> QED
      BY <3>2 DEF AliasesKept
  <2>2. CASE ImageDelete(t)
    <3>1. threads[t].at = "row" /\ aliases' = [a \in Aliases |-> IF aliases[a] = threads[t].id THEN 0 ELSE aliases[a]]
      BY <2>2 DEF ImageDelete
    <3>2. ASSUME NEW a \in Aliases, aliases[a] # 0, aliases'[a] = 0
          PROVE  threads[t].id = aliases[a] /\ (threads[t].kind # "refresh" \/ a \in threads[t].late)
      BY <1>0, <3>1, <3>2 DEF LateInv
    <3> QED
      BY <3>1, <3>2 DEF AliasesKept
  <2>3. CASE ~ImageAliasesMove(t) /\ ~ImageDelete(t)
    <3>1. aliases' = aliases
      BY <1>4, <2>3 DEF ThreadStep, ImageSourceGet, ResolveLXD, ResolveStreams, CheckExists, CheckDownloading, Woken,
         Register, CleanLeftover, OpenFile, GetImageFile, ImageCreate, InsertImage, RecordSource, Cleanup, Unlock,
         imgPostRemoteInfo, imgPostURLInfo, ImageUpdate, LookupNew, LastAccess, FindImage, DeleteVolume, DeleteFiles,
         PublishCheck, MoveUpload, ImportImage, AddImage, stored
    <3> QED
      BY <1>3, <3>1
  <2> QED
    BY <2>1, <2>2, <2>3
<1>5. CASE \E t \in Threads, kind \in Kinds, fp \in Versions, via \in Protocols : Begin(t, kind, fp, via)
  BY <1>3, <1>5 DEF Begin, stored
<1>6. CASE \E a \in Aliases, fp \in Versions : SetAlias(a, fp)
  BY <1>2, <1>6 DEF SetAlias
<1>7. CASE \E a, b \in Aliases : RenameAlias(a, b)
  BY <1>2, <1>7 DEF RenameAlias
<1>8. CASE \E a \in Aliases : aliasDelete(a)
  BY <1>2, <1>8 DEF aliasDelete
<1>9. CASE \E fp \in Versions : imagePut(fp)
  BY <1>3, <1>9 DEF imagePut
<1>10. CASE Publish \/ Restart
  BY <1>3, <1>10 DEF Publish, Restart, stored
<1> QED
  BY <1>4, <1>5, <1>6, <1>7, <1>8, <1>9, <1>10 DEF Next

\* A refresh replaces an image by a newer one, and takes the old one's aliases
\* along (daemon_images.go autoUpdateImage, lxd/db/images.go ImageAliasesMove).
THEOREM RefreshIsSafe == Spec => RefreshSafe
<1>1. ImagesIInv => UpdatesForward
  <2> SUFFICES ASSUME ImagesIInv, NEW t \in Threads, threads[t].at = "move", NoImage \notin broken
               PROVE  threads[t].fp > threads[t].old
    BY DEF UpdatesForward
  <2>1. Types /\ KindInv /\ ForwardInv
    BY DEF ImagesIInv
  <2>2. threads[t].kind = "refresh" /\ threads[t].fp # threads[t].old
    BY <2>1 DEF KindInv
  <2>3. "move" \in Located \ {"find", "volume", "file", "row"}
    BY PlacesApart
  <2>4. threads[t].old <= threads[t].fp
    BY <2>1, <2>2, <2>3 DEF ForwardInv
  <2>5. threads[t].fp \in Nat /\ threads[t].old \in Nat
    BY <2>1, Numbers
  <2> QED
    BY <2>2, <2>4, <2>5
<1>2. ImagesIInv /\ ImagesIInv' /\ [Next]_vars => [UpdatesForward' /\ AliasesKept]_vars
  <2>1. ImagesIInv' => UpdatesForward'
    BY <1>1, PTL
  <2> QED
    BY <2>1, AliasesKeptStep
<1> QED
  BY <1>2, ImagesInvariant, PTL DEF Spec, RefreshSafe

=============================================================================
