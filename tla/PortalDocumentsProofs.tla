----------------------- MODULE PortalDocumentsProofs -----------------------
(***************************************************************************)
(* That a release serves approved text only, for any versions, reviews,    *)
(* contents and handlers and any number of calls.  The argument follows    *)
(* the copies: wherever a copy of a version is, in the store, in what a    *)
(* handler has read or in what it has yet to store, if its status is       *)
(* APPROVED or PUBLISHED then a reviewer approved its content.  An edit    *)
(* keeps this because it resets the status in the same copy; a decision    *)
(* because the review is stored before the version.                        *)
(***************************************************************************)
EXTENDS PortalDocuments, TLAPS

Vouched(copy) ==
    \E a \in approvals : a.version = copy.of /\ a.content = copy.ver.content

IsLive(copy) == copy.ver.status \in {"APPROVED", "PUBLISHED"}

Sound(copy) == IsLive(copy) => Vouched(copy)

\* The store and what is served.
StoreTyped ==
    /\ document \in Document
    /\ versions \in [Versions -> Version]
    /\ reviews \in [Reviews -> Review]
    /\ served \in Copy
    /\ lock \in Handlers \cup {None}
    /\ approvals \subseteq Approvals
    /\ calls \in 0 .. MaxCalls

StoreSound ==
    /\ \A v \in Versions : Sound([of |-> v, ver |-> versions[v]])
    /\ served # NoCopy => Vouched(served)

\* One handler.
HandlerTyped(h) == pc[h] \in Labels /\ call[h] \in Call /\ todo[h] \in Todo

\* What a request names, until its call stores its records.
Named(h) ==
    pc[h] # "write" =>
        /\ call[h].op = "update" => call[h].on \in Contents
        /\ call[h].op = "publish" => call[h].on \in Versions
        /\ call[h].op = "decide" =>
              call[h].on \in Reviews /\ call[h].decision \in Decisions

\* What a handler has read where it needs it.
HasRead(h) ==
    /\ pc[h] \in {"review", "reviewed"} => call[h].op = "decide"
    /\ pc[h] \in {"lock", "document", "draft", "refresh"} => call[h].op # "decide"
    /\ pc[h] \in {"draft", "refresh"} => call[h].doc \in Document
    /\ pc[h] \in {"command", "activate"} /\ call[h].op \notin {"decide", "rebuild"} =>
          call[h].doc \in Document
    /\ pc[h] = "command" /\ call[h].op = "decide" =>
          call[h].copy.of = call[h].review.version

\* The copy of a handler; one that is activated is published.
CallSound(h) ==
    /\ Sound(call[h].copy)
    /\ pc[h] = "activate" =>
          call[h].copy = NoCopy \/ call[h].copy.ver.status = "PUBLISHED"

\* A copy that is stored after a review is live by that review alone.
TodoSound(records) ==
    IF records.review = None THEN Sound(records.copy)
    ELSE IsLive(records.copy) =>
            /\ records.review.as.decision = "APPROVED"
            /\ records.review.as.version = records.copy.of

HandlerFine(h) ==
    HandlerTyped(h) /\ Named(h) /\ HasRead(h) /\ CallSound(h) /\ TodoSound(todo[h])

Inv ==
    /\ TypeOK
    /\ StoreSound
    /\ \A h \in Handlers : HandlerFine(h)

USE Assumptions

-----------------------------------------------------------------------------
(* Values *)

LEMMA Constants ==
    /\ Absent \in Version /\ NoCopy \in Copy /\ NoReview \in Review
    /\ NoCall \in Call /\ Nothing \in Todo
BY DEF Absent, Version, VersionStatus, NoCopy, Copy, NoReview, Review, NoCall,
       Call, Ops, Nothing, Todo

LEMMA AbsentIsSound == Sound(NoCopy) /\ TodoSound(Nothing) /\ ~IsLive(NoCopy)
BY DEF Sound, IsLive, NoCopy, Absent, TodoSound, Nothing

LEMMA MarkedTyped ==
    ASSUME NEW copy \in Copy, NEW status \in VersionStatus
    PROVE  /\ Marked(copy, status) \in Copy
           /\ Marked(copy, status).of = copy.of
           /\ Marked(copy, status).ver.status = status
           /\ Marked(copy, status).ver.content = copy.ver.content
BY DEF Marked, Copy, Version

LEMMA EditedTyped ==
    ASSUME NEW copy \in Copy, NEW content \in Contents
    PROVE  /\ Edited(copy, content) \in Copy
           /\ Edited(copy, content).ver.status = "DRAFT"
<1>1. (content \in Untidy) \in BOOLEAN
    OBVIOUS
<1>2. PICK b \in BOOLEAN : b = (content \in Untidy)
    BY <1>1, Zenon
<1>3. PICK ver : ver = [copy.ver EXCEPT !.content = content, !.warned = b,
                                        !.status = "DRAFT"]
    OBVIOUS
<1>4. Edited(copy, content) = [of |-> copy.of, ver |-> ver]
    BY <1>2, <1>3, Zenon DEF Edited
<1>5. copy.of \in Versions \cup {None} /\ copy.ver \in Version
    BY DEF Copy
<1>6. ver \in Version /\ ver.status = "DRAFT"
    BY <1>3, <1>5 DEF Version, VersionStatus
<1> QED BY <1>4, <1>5, <1>6 DEF Copy

LEMMA ValidatedTyped ==
    ASSUME NEW ver \in Version
    PROVE  /\ Validated(ver) \in Version
           /\ Validated(ver).status = ver.status
           /\ Validated(ver).content = ver.content
<1>1. (ver.content \in Untidy) \in BOOLEAN
    OBVIOUS
<1>2. PICK b \in BOOLEAN : b = (ver.content \in Untidy)
    BY <1>1, Zenon
<1>3. Validated(ver) = [ver EXCEPT !.warned = b]
    BY <1>2, Zenon DEF Validated
<1> QED BY <1>3 DEF Version

LEMMA StoredFine ==
    ASSUME Inv, NEW id \in Versions \cup {None}
    PROVE  /\ Stored(id) \in Copy
           /\ Stored(id).of = id
           /\ Sound(Stored(id))
           /\ id # None => Stored(id).ver = versions[id]
<1>1. CASE id = None
    BY <1>1, Constants DEF Stored, Copy, Sound, IsLive, Absent
<1>2. CASE id # None
    BY <1>2 DEF Inv, TypeOK, StoreSound, Stored, Copy
<1> QED BY <1>1, <1>2

-----------------------------------------------------------------------------
(* Frames *)

\* A step of h leaves the other handlers as they are.
Moves(h) ==
    /\ pc' = [pc EXCEPT ![h] = pc'[h]]
    /\ call' = [call EXCEPT ![h] = call'[h]]
    /\ todo' = [todo EXCEPT ![h] = todo'[h]]

LEMMA StoreUnchanged ==
    ASSUME Inv, UNCHANGED <<document, versions, reviews, served, approvals>>,
           lock' \in Handlers \cup {None}, calls' \in 0 .. MaxCalls
    PROVE  StoreTyped' /\ StoreSound'
BY DEF Inv, TypeOK, StoreTyped, StoreSound, Sound, IsLive, Vouched

LEMMA Assemble ==
    ASSUME Inv, NEW h \in Handlers, Moves(h), approvals \subseteq approvals',
           StoreTyped', StoreSound', HandlerFine(h)'
    PROVE  Inv'
<1>1. ASSUME NEW p \in Handlers PROVE HandlerFine(p)'
  <2>1. CASE p = h
    BY <2>1
  <2>2. CASE p # h
    <3>1. pc'[p] = pc[p] /\ call'[p] = call[p] /\ todo'[p] = todo[p]
        BY <2>2 DEF Moves, Inv, TypeOK
    <3>2. HandlerFine(p)
        BY DEF Inv
    <3>3. HandlerTyped(p)' /\ Named(p)' /\ HasRead(p)'
        BY <3>1, <3>2 DEF HandlerFine, HandlerTyped, Named, HasRead
    <3>4. CallSound(p)'
        BY <3>1, <3>2 DEF HandlerFine, CallSound, Sound, IsLive, Vouched
    <3>5. TodoSound(todo[p])'
        BY <3>1, <3>2 DEF HandlerFine, TodoSound, Sound, IsLive, Vouched
    <3> QED BY <3>3, <3>4, <3>5 DEF HandlerFine
  <2> QED BY <2>1, <2>2
<1>2. TypeOK'
    BY <1>1 DEF Inv, TypeOK, StoreTyped, Moves, HandlerFine, HandlerTyped
<1> QED BY <1>1, <1>2 DEF Inv

LEMMA ReturnFine ==
    ASSUME Inv, NEW h \in Handlers, Return(h)
    PROVE  Moves(h) /\ HandlerFine(h)' /\ lock' \in Handlers \cup {None}
<1>1. pc'[h] = "idle" /\ call'[h] = NoCall /\ todo'[h] = Nothing
    BY DEF Return, Goto, Inv, TypeOK
<1>2. Moves(h) /\ lock' \in Handlers \cup {None}
    BY <1>1 DEF Return, Goto, Moves, Unlock, Inv, TypeOK
<1>3. HandlerTyped(h)' /\ Named(h)' /\ HasRead(h)'
    BY <1>1, Constants DEF HandlerTyped, Labels, Named, HasRead, NoCall
<1>4. CallSound(h)' /\ TodoSound(todo[h])'
    BY <1>1 DEF CallSound, TodoSound, Sound, IsLive, NoCall, NoCopy, Absent, Nothing
<1> QED BY <1>2, <1>3, <1>4 DEF HandlerFine

LEMMA StoreFine ==
    ASSUME Inv, NEW h \in Handlers, NEW guard \in BOOLEAN, NEW records,
           guard => records \in Todo /\ TodoSound(records),
           approvals' = approvals, Store(h, guard, records)
    PROVE  Moves(h) /\ HandlerFine(h)' /\ lock' \in Handlers \cup {None}
<1>1. CASE Return(h)
    BY <1>1, ReturnFine
<1>2. CASE guard /\ ~Return(h)
  <2>1. /\ pc'[h] = "write" /\ todo'[h] = records
        /\ call'[h] = [NoCall EXCEPT !.op = call[h].op]
      BY <1>2 DEF Store, Goto, Inv, TypeOK
  <2>2. Moves(h) /\ lock' \in Handlers \cup {None}
      BY <1>2, <2>1 DEF Store, Goto, Moves, Inv, TypeOK
  <2>3. call[h].op \in Ops
      BY DEF Inv, TypeOK, Call
  <2>4. call'[h] \in Call /\ call'[h].copy = NoCopy
      BY <2>1, <2>3, Constants DEF NoCall, Call
  <2>5. HandlerTyped(h)' /\ Named(h)' /\ HasRead(h)'
      BY <1>2, <2>1, <2>4 DEF HandlerTyped, Labels, Named, HasRead
  <2>6. CallSound(h)'
      BY <2>1, <2>4 DEF CallSound, Sound, IsLive, NoCopy, Absent
  <2>7. TodoSound(todo[h])'
      BY <1>2, <2>1 DEF TodoSound, Sound, IsLive, Vouched
  <2> QED BY <2>2, <2>5, <2>6, <2>7 DEF HandlerFine
<1> QED BY <1>1, <1>2 DEF Store

LEMMA ContinueFine ==
    ASSUME Inv, NEW h \in Handlers, NEW rest, pc[h] = "write",
           rest \in Todo, TodoSound(rest)', approvals \subseteq approvals',
           Continue(h, rest)
    PROVE  Moves(h) /\ HandlerFine(h)' /\ lock' \in Handlers \cup {None}
<1>1. CASE Return(h)
    BY <1>1, ReturnFine
<1>2. CASE rest # Nothing
  <2>1. todo'[h] = rest /\ pc' = pc /\ call' = call
      BY <1>2 DEF Continue, Inv, TypeOK
  <2>2. Moves(h) /\ lock' \in Handlers \cup {None}
      BY <1>2, <2>1 DEF Continue, Moves, Inv, TypeOK
  <2>3. HandlerFine(h)
      BY DEF Inv
  <2>4. HandlerTyped(h)' /\ Named(h)' /\ HasRead(h)'
      BY <2>1, <2>3 DEF HandlerFine, HandlerTyped, Named, HasRead
  <2>5. CallSound(h)'
      BY <2>1, <2>3 DEF HandlerFine, CallSound, Sound, IsLive, Vouched
  <2>6. TodoSound(todo[h])'
      BY <2>1 DEF TodoSound, Sound, IsLive, Vouched
  <2> QED BY <2>2, <2>4, <2>5, <2>6 DEF HandlerFine
<1>3. CASE rest = Nothing /\ call[h].op \in EndsInView
  <2>1. /\ todo'[h] = Nothing /\ pc'[h] = "document"
        /\ call'[h] = [NoCall EXCEPT !.op = "view"]
      BY <1>3 DEF Continue, Goto, Inv, TypeOK
  <2>2. Moves(h) /\ lock' \in Handlers \cup {None}
      BY <1>3, <2>1 DEF Continue, Goto, Moves, Unlock, Inv, TypeOK
  <2>3. call'[h] \in Call /\ call'[h].copy = NoCopy /\ call'[h].op = "view"
      BY <2>1, Constants DEF NoCall, Call, Ops
  <2>4. HandlerTyped(h)' /\ Named(h)' /\ HasRead(h)'
      BY <2>1, <2>3, Constants DEF HandlerTyped, Labels, Named, HasRead
  <2>5. CallSound(h)' /\ TodoSound(todo[h])'
      BY <2>1, <2>3 DEF CallSound, TodoSound, Sound, IsLive, NoCopy, Absent, Nothing
  <2> QED BY <2>2, <2>4, <2>5 DEF HandlerFine
<1> QED BY <1>1, <1>2, <1>3 DEF Continue

-----------------------------------------------------------------------------
(* Every step keeps the invariant *)

\* A step that moves only its handler.
LEMMA QuietStep ==
    ASSUME Inv, NEW h \in Handlers, Moves(h), HandlerFine(h)',
           UNCHANGED <<document, versions, reviews, served, approvals>>,
           lock' \in Handlers \cup {None}, calls' \in 0 .. MaxCalls
    PROVE  Inv'
BY StoreUnchanged, Assemble

\* A command that stores records or is refused.
LEMMA CommandStep ==
    ASSUME Inv, NEW h \in Handlers, NEW guard \in BOOLEAN, NEW records,
           guard => records \in Todo /\ TodoSound(records),
           Store(h, guard, records), UNCHANGED <<store, served, approvals, calls>>
    PROVE  Inv'
<1>1. Moves(h) /\ HandlerFine(h)' /\ lock' \in Handlers \cup {None}
    BY StoreFine
<1>2. calls' \in 0 .. MaxCalls
    BY DEF Inv, TypeOK
<1> QED BY <1>1, <1>2, QuietStep DEF store

LEMMA CallTyped ==
    ASSUME Inv, NEW h \in Handlers
    PROVE  /\ pc[h] \in Labels /\ call[h] \in Call /\ todo[h] \in Todo
           /\ call[h].copy \in Copy /\ Sound(call[h].copy)
           /\ Named(h) /\ HasRead(h) /\ TodoSound(todo[h])
BY DEF Inv, HandlerFine, HandlerTyped, CallSound, Call

\* A copy stored as a version.
LEMMA VersionWritten ==
    ASSUME Inv, NEW copy \in Copy, Sound(copy),
           versions' = [versions EXCEPT ![copy.of] = copy.ver],
           UNCHANGED <<document, reviews, served, approvals, calls>>,
           lock' \in Handlers \cup {None}
    PROVE  StoreTyped' /\ StoreSound'
<1>1. StoreTyped'
    BY DEF StoreTyped, Inv, TypeOK, Copy
<1>2. ASSUME NEW v \in Versions PROVE Sound([of |-> v, ver |-> versions[v]])'
  <2>1. CASE v = copy.of
    <3>1. versions'[v] = copy.ver
        BY <2>1 DEF Inv, TypeOK
    <3> QED BY <2>1, <3>1 DEF Sound, IsLive, Vouched
  <2>2. CASE v # copy.of
    <3>1. versions'[v] = versions[v]
        BY <2>2 DEF Inv, TypeOK
    <3>2. Sound([of |-> v, ver |-> versions[v]])
        BY DEF Inv, StoreSound
    <3> QED BY <3>1, <3>2 DEF Sound, IsLive, Vouched
  <2> QED BY <2>1, <2>2
<1>3. served' # NoCopy => Vouched(served)'
    BY DEF Inv, StoreSound, Vouched
<1> QED BY <1>1, <1>2, <1>3 DEF StoreSound

LEMMA BeginKeeps == ASSUME Inv, NEW h \in Handlers, Begin(h) PROVE Inv'
<1>1. PICK request \in Requested :
         /\ call' = [call EXCEPT ![h] = [NoCall EXCEPT
                        !.op = request.op, !.on = request.on,
                        !.etag = request.etag, !.decision = request.decision]]
         /\ Goto(h, CASE request.op = "decide" -> "review"
                      [] request.op \in Locked -> "lock"
                      [] OTHER -> "document")
    BY DEF Begin
<1>2. /\ request.op \in Ops /\ request.etag \in Nat
      /\ request.on \in Versions \cup Reviews \cup Contents \cup {None}
      /\ request.decision \in Decisions \cup {None}
      /\ request.op = "update" => request.on \in Contents
      /\ request.op = "publish" => request.on \in Versions
      /\ request.op = "decide" =>
            request.on \in Reviews /\ request.decision \in Decisions
    BY DEF Requested, Ops, Inv, TypeOK, Document
<1>3. PICK c : c = call'[h]
    OBVIOUS
<1>4. c = [op |-> request.op, on |-> request.on, etag |-> request.etag,
           decision |-> request.decision, doc |-> None, copy |-> NoCopy,
           review |-> NoReview]
    BY <1>1, <1>3 DEF Inv, TypeOK, NoCall
<1>5. c \in Call /\ c.copy = NoCopy
    BY <1>2, <1>4, Constants DEF Call
<1>6. /\ pc'[h] \in {"review", "lock", "document"}
      /\ pc'[h] = "review" <=> c.op = "decide"
    BY <1>1, <1>4 DEF Goto, Inv, TypeOK, Locked
<1>7. todo'[h] = todo[h] /\ approvals' = approvals
    BY DEF Begin
<1>8. HandlerTyped(h)' /\ Named(h)' /\ HasRead(h)'
    BY <1>2, <1>3, <1>4, <1>5, <1>6, <1>7, CallTyped
    DEF HandlerTyped, Labels, Named, HasRead
<1>9. CallSound(h)' /\ TodoSound(todo[h])'
    BY <1>3, <1>5, <1>6, <1>7, CallTyped
    DEF CallSound, TodoSound, Sound, IsLive, NoCopy, Absent, Vouched
<1>10. Moves(h) /\ calls' \in 0 .. MaxCalls
    BY <1>1 DEF Begin, Moves, Goto, Inv, TypeOK
<1> QED BY <1>8, <1>9, <1>10, QuietStep DEF Begin, HandlerFine, store, Inv, TypeOK

LEMMA EnterLockKeeps == ASSUME Inv, NEW h \in Handlers, EnterLock(h) PROVE Inv'
<1>1. /\ pc'[h] = IF call[h].op = "rebuild" THEN "command" ELSE "document"
      /\ call'[h] = call[h] /\ todo'[h] = todo[h] /\ approvals' = approvals
    BY DEF EnterLock, Goto, Inv, TypeOK
<1>2. pc[h] = "lock"
    BY DEF EnterLock
<1>3. HandlerFine(h)'
    BY <1>1, <1>2, CallTyped
    DEF HandlerFine, HandlerTyped, Labels, Named, HasRead, CallSound, TodoSound,
        Sound, IsLive, Vouched
<1>4. Moves(h) /\ lock' = h /\ calls' \in 0 .. MaxCalls
    BY DEF EnterLock, Moves, Goto, Inv, TypeOK
<1> QED BY <1>3, <1>4, QuietStep DEF EnterLock, store

LEMMA ReadDocumentKeeps == ASSUME Inv, NEW h \in Handlers, ReadDocument(h) PROVE Inv'
<1>1. /\ pc[h] = "document" /\ pc'[h] = "draft"
      /\ call'[h] = [call[h] EXCEPT !.doc = document]
      /\ todo'[h] = todo[h] /\ approvals' = approvals
    BY DEF ReadDocument, Goto, Inv, TypeOK
<1>2. document \in Document
    BY DEF Inv, TypeOK
<1>3. /\ call'[h] \in Call /\ call'[h].doc \in Document /\ call'[h].copy = call[h].copy
      /\ call'[h].op = call[h].op /\ call'[h].on = call[h].on
      /\ call'[h].decision = call[h].decision
    BY <1>1, <1>2, CallTyped DEF Call
<1>4. HandlerFine(h)'
    BY <1>1, <1>3, CallTyped
    DEF HandlerFine, HandlerTyped, Labels, Named, HasRead, CallSound, TodoSound,
        Sound, IsLive, Vouched
<1>5. Moves(h) /\ lock' \in Handlers \cup {None} /\ calls' \in 0 .. MaxCalls
    BY DEF ReadDocument, Moves, Goto, Inv, TypeOK
<1> QED BY <1>4, <1>5, QuietStep DEF ReadDocument, store

LEMMA ReadDraftKeeps == ASSUME Inv, NEW h \in Handlers, ReadDraft(h) PROVE Inv'
<1>1. PICK draft : draft = Stored(call[h].doc.draft)
    OBVIOUS
<1>2. pc[h] = "draft" /\ call[h].doc \in Document
    BY CallTyped DEF ReadDraft, HasRead
<1>3. draft \in Copy /\ Sound(draft)
    BY <1>1, <1>2, StoredFine DEF Document
<1>4. calls' \in 0 .. MaxCalls
    BY DEF ReadDraft, Inv, TypeOK
<1>5. CASE Return(h)
    BY <1>4, <1>5, ReturnFine, QuietStep DEF ReadDraft, store
<1>6. CASE ~Return(h)
  <2>1. /\ pc'[h] \in {"refresh", "command"}
        /\ call'[h] = [call[h] EXCEPT !.copy = draft]
        /\ todo'[h] = todo[h] /\ approvals' = approvals
      BY <1>1, <1>6 DEF ReadDraft, Goto, Inv, TypeOK
  <2>2. /\ call'[h] \in Call /\ call'[h].doc = call[h].doc /\ call'[h].copy = draft
        /\ call'[h].op = call[h].op /\ call'[h].on = call[h].on
        /\ call'[h].decision = call[h].decision
      BY <1>3, <2>1, CallTyped DEF Call
  <2>3. call[h].op # "decide"
      BY <1>2, CallTyped DEF HasRead
  <2>4. HandlerFine(h)'
      BY <1>2, <1>3, <2>1, <2>2, <2>3, CallTyped
      DEF HandlerFine, HandlerTyped, Labels, Named, HasRead, CallSound, TodoSound,
          Sound, IsLive, Vouched
  <2>5. Moves(h) /\ lock' \in Handlers \cup {None}
      BY <1>6 DEF ReadDraft, Moves, Goto, Inv, TypeOK
  <2> QED BY <1>4, <2>4, <2>5, QuietStep DEF ReadDraft, store
<1> QED BY <1>5, <1>6

LEMMA RefreshKeeps == ASSUME Inv, NEW h \in Handlers, Refresh(h) PROVE Inv'
<1>1. PICK copy : copy = [of |-> call[h].copy.of, ver |-> Validated(call[h].copy.ver)]
    OBVIOUS
<1>2. call[h].copy.ver \in Version /\ call[h].copy.of \in Versions \cup {None}
    BY CallTyped DEF Copy
<1>3. copy \in Copy /\ Sound(copy)
    BY <1>1, <1>2, ValidatedTyped, CallTyped DEF Copy, Sound, IsLive, Vouched
<1>4. versions' = [versions EXCEPT ![copy.of] = copy.ver]
    BY <1>1 DEF Refresh
<1>5. CASE Return(h)
    BY <1>3, <1>4, <1>5, ReturnFine, VersionWritten, Assemble DEF Refresh
<1>6. CASE ~Return(h)
  <2>1. /\ pc[h] = "refresh" /\ pc'[h] = "command"
        /\ call' = [call EXCEPT ![h].copy.ver = copy.ver]
        /\ todo'[h] = todo[h] /\ approvals' = approvals
      BY <1>1, <1>6 DEF Refresh, Goto, Inv, TypeOK
  <2>2. call'[h] = [call[h] EXCEPT !.copy = copy]
      BY <1>1, <1>2, <2>1, CallTyped DEF Inv, TypeOK, Call, Copy
  <2>3. /\ call'[h] \in Call /\ call'[h].doc = call[h].doc /\ call'[h].copy = copy
        /\ call'[h].op = call[h].op /\ call'[h].on = call[h].on
        /\ call'[h].decision = call[h].decision
      BY <1>3, <2>2, CallTyped DEF Call
  <2>4. HandlerTyped(h)' /\ Named(h)'
      BY <2>1, <2>3, CallTyped DEF HandlerTyped, Labels, Named
  <2>5. HasRead(h)'
      BY <2>1, <2>3, CallTyped DEF HasRead
  <2>6. CallSound(h)' /\ TodoSound(todo[h])'
      BY <1>3, <2>1, <2>3, CallTyped DEF CallSound, TodoSound, Sound, IsLive, Vouched
  <2>7. Moves(h) /\ lock' \in Handlers \cup {None}
      BY <1>6 DEF Refresh, Moves, Goto, Inv, TypeOK
  <2> QED
      BY <1>3, <1>4, <2>4, <2>5, <2>6, <2>7, VersionWritten, Assemble
      DEF Refresh, HandlerFine
<1> QED BY <1>5, <1>6

\* The commands: what they store is typed and sound.
LEMMA UpdateDraftKeeps == ASSUME Inv, NEW h \in Handlers, UpdateDraft(h) PROVE Inv'
<1>1. PICK doc, copy, guard, records :
         /\ doc = call[h].doc
         /\ copy = Stored(doc.draft)
         /\ guard = /\ doc.status \in Editable
                    /\ doc.etag = call[h].etag
                    /\ doc.draft # None /\ copy.ver.status \in Editable
         /\ records = [review |-> None, copy |-> Edited(copy, call[h].on),
                       doc |-> [doc EXCEPT !.status = "DRAFT",
                                           !.etag = copy.ver.number + 1]]
    OBVIOUS
<1>2. doc \in Document /\ call[h].on \in Contents
    BY <1>1, CallTyped DEF UpdateDraft, Command, HasRead, Named
<1>3. copy \in Copy
    BY <1>1, <1>2, StoredFine DEF Document
<1>4. records.copy \in Copy /\ ~IsLive(records.copy)
    BY <1>1, <1>2, <1>3, EditedTyped DEF IsLive
<1>5. copy.ver.number + 1 \in Nat
    BY <1>3 DEF Copy, Version
<1>6. records.doc \in Document
    BY <1>1, <1>2, <1>5 DEF Document, DocumentStatus
<1>7. records \in Todo /\ TodoSound(records)
    BY <1>1, <1>4, <1>6 DEF Todo, TodoSound, Sound
<1>8. guard \in BOOLEAN /\ Store(h, guard, records)
    BY <1>1 DEF UpdateDraft
<1> QED BY <1>7, <1>8, CommandStep DEF UpdateDraft

LEMMA ValidateDocumentKeeps ==
    ASSUME Inv, NEW h \in Handlers, ValidateDocument(h) PROVE Inv'
<1>1. PICK copy, guard, records :
         /\ copy = call[h].copy
         /\ guard = (copy.of # None)
         /\ records = [review |-> None, doc |-> None,
                       copy |-> [of |-> copy.of, ver |-> Validated(copy.ver)]]
    OBVIOUS
<1>2. copy \in Copy /\ Sound(copy) /\ copy.ver \in Version
    BY <1>1, CallTyped DEF Copy
<1>3. records.copy \in Copy /\ Sound(records.copy)
    BY <1>1, <1>2, ValidatedTyped DEF Copy, Sound, IsLive, Vouched
<1>4. records \in Todo /\ TodoSound(records)
    BY <1>1, <1>3 DEF Todo, TodoSound
<1>5. guard \in BOOLEAN /\ Store(h, guard, records)
    BY <1>1 DEF ValidateDocument
<1> QED BY <1>4, <1>5, CommandStep DEF ValidateDocument

LEMMA SubmitForReviewKeeps ==
    ASSUME Inv, NEW h \in Handlers, SubmitForReview(h) PROVE Inv'
<1>1. PICK r \in Reviews :
         Store(h, call[h].doc.etag = call[h].etag /\ call[h].copy.of # None,
               [review |-> [id |-> r, as |-> [version |-> call[h].copy.of,
                                              snapshot |-> call[h].copy.ver.content,
                                              decision |-> None]],
                copy |-> Marked(call[h].copy, "IN_REVIEW"),
                doc |-> [call[h].doc EXCEPT !.status = "IN_REVIEW"]])
    BY DEF SubmitForReview
<1>2. PICK doc, copy, guard, records :
         /\ doc = call[h].doc /\ copy = call[h].copy
         /\ guard = (doc.etag = call[h].etag /\ copy.of # None)
         /\ records = [review |-> [id |-> r, as |-> [version |-> copy.of,
                                              snapshot |-> copy.ver.content,
                                              decision |-> None]],
                       copy |-> Marked(copy, "IN_REVIEW"),
                       doc |-> [doc EXCEPT !.status = "IN_REVIEW"]]
    OBVIOUS
<1>3. doc \in Document /\ copy \in Copy
    BY <1>2, CallTyped DEF SubmitForReview, Command, HasRead
<1>4. records.copy \in Copy /\ ~IsLive(records.copy)
    BY <1>2, <1>3, MarkedTyped DEF IsLive, VersionStatus
<1>5. records.review \in [id : Reviews, as : Review]
    BY <1>2, <1>3 DEF Review, Copy, Version
<1>6. records.doc \in Document
    BY <1>2, <1>3 DEF Document, DocumentStatus
<1>7. records \in Todo
    BY <1>2, <1>4, <1>5, <1>6 DEF Todo
<1>8. TodoSound(records)
    BY <1>4 DEF TodoSound, Sound
<1>9. guard \in BOOLEAN /\ Store(h, guard, records)
    BY <1>1, <1>2
<1> QED BY <1>7, <1>8, <1>9, CommandStep DEF SubmitForReview

LEMMA StartRevisionKeeps ==
    ASSUME Inv, NEW h \in Handlers, StartRevision(h) PROVE Inv'
<1>1. PICK v \in Versions :
         Store(h, /\ call[h].doc.status = "PUBLISHED" /\ call[h].doc.published # None
                  /\ call[h].doc.draft = None,
               [review |-> None,
                copy |-> [of |-> v,
                          ver |-> [status |-> "DRAFT",
                                   content |-> Stored(call[h].doc.published).ver.content,
                                   number |-> Stored(call[h].doc.published).ver.number + 1,
                                   warned |-> FALSE]],
                doc |-> [call[h].doc EXCEPT
                            !.draft = v, !.status = "DRAFT",
                            !.etag = Stored(call[h].doc.published).ver.number + 1]])
    BY DEF StartRevision
<1>2. PICK doc, from, ver, copy, guard, records :
         /\ doc = call[h].doc /\ from = Stored(doc.published).ver
         /\ guard = /\ doc.status = "PUBLISHED" /\ doc.published # None
                    /\ doc.draft = None
         /\ ver = [status |-> "DRAFT", content |-> from.content,
                   number |-> from.number + 1, warned |-> FALSE]
         /\ copy = [of |-> v, ver |-> ver]
         /\ records = [review |-> None, copy |-> copy,
                       doc |-> [doc EXCEPT !.draft = v, !.status = "DRAFT",
                                           !.etag = from.number + 1]]
    OBVIOUS
<1>3. doc \in Document
    BY <1>2, CallTyped DEF StartRevision, Command, HasRead
<1>4. from \in Version
    BY <1>2, <1>3, StoredFine DEF Document, Copy
<1>5. ver \in Version /\ ver.status = "DRAFT"
    BY <1>2, <1>4 DEF Version, VersionStatus
<1>6. copy \in Copy /\ ~IsLive(copy)
    BY <1>2, <1>5 DEF Copy, IsLive
<1>7. records.doc \in Document
  <2>1. from.number + 1 \in Nat
      BY <1>4 DEF Version
  <2>2. records.doc = [doc EXCEPT !.draft = v, !.status = "DRAFT",
                                  !.etag = from.number + 1]
      BY <1>2
  <2> QED BY <1>3, <2>1, <2>2 DEF Document, DocumentStatus
<1>8. records \in Todo /\ TodoSound(records)
    BY <1>2, <1>6, <1>7 DEF Todo, TodoSound, Sound
<1>9. guard \in BOOLEAN /\ Store(h, guard, records)
    BY <1>1, <1>2
<1> QED BY <1>8, <1>9, CommandStep DEF StartRevision

LEMMA RemoveDocumentKeeps ==
    ASSUME Inv, NEW h \in Handlers, RemoveDocument(h) PROVE Inv'
<1>1. /\ pc[h] = "command" /\ pc'[h] \in {"lock", "document"}
      /\ \E op \in {"unpublish", "discard"} : call'[h] = [call[h] EXCEPT !.op = op]
      /\ todo'[h] = todo[h] /\ approvals' = approvals
    BY DEF RemoveDocument, Command, Goto, Inv, TypeOK
<1>2. /\ call'[h] \in Call /\ call'[h].op \in {"unpublish", "discard"}
      /\ call'[h].copy = call[h].copy
    BY <1>1, CallTyped DEF Call, Ops
<1>3. HandlerTyped(h)' /\ Named(h)' /\ HasRead(h)'
    BY <1>1, <1>2, CallTyped DEF HandlerTyped, Labels, Named, HasRead
<1>4. CallSound(h)' /\ TodoSound(todo[h])'
    BY <1>1, <1>2, CallTyped DEF CallSound, TodoSound, Sound, IsLive, Vouched
<1>5. Moves(h) /\ lock' \in Handlers \cup {None} /\ calls' \in 0 .. MaxCalls
    BY DEF RemoveDocument, Moves, Goto, Inv, TypeOK
<1> QED BY <1>3, <1>4, <1>5, QuietStep DEF RemoveDocument, HandlerFine, store

LEMMA DiscardDraftKeeps ==
    ASSUME Inv, NEW h \in Handlers, DiscardDraft(h) PROVE Inv'
<1>1. PICK doc, copy, new, guard, records :
         /\ doc = call[h].doc /\ copy = call[h].copy
         /\ guard = /\ doc.status # "IN_REVIEW"
                    /\ doc.published = None \/ doc.status # "PUBLISHED"
         /\ new = IF copy.of = None THEN NoCopy ELSE Marked(copy, "DISCARDED")
         /\ records = [review |-> None, copy |-> new,
                       doc |-> [doc EXCEPT !.status = "DISCARDED", !.draft = None]]
    OBVIOUS
<1>2. doc \in Document /\ copy \in Copy
    BY <1>1, CallTyped DEF DiscardDraft, Command, HasRead
<1>3. new \in Copy /\ ~IsLive(new)
    BY <1>1, <1>2, MarkedTyped, Constants, AbsentIsSound DEF IsLive, VersionStatus
<1>4. records.doc \in Document
    BY <1>1, <1>2 DEF Document, DocumentStatus
<1>5. records \in Todo /\ TodoSound(records)
    BY <1>1, <1>3, <1>4 DEF Todo, TodoSound, Sound
<1>6. guard \in BOOLEAN /\ Store(h, guard, records)
    BY <1>1 DEF DiscardDraft
<1> QED BY <1>5, <1>6, CommandStep DEF DiscardDraft

LEMMA ReadReviewKeeps == ASSUME Inv, NEW h \in Handlers, ReadReview(h) PROVE Inv'
<1>1. calls' \in 0 .. MaxCalls
    BY DEF ReadReview, Inv, TypeOK
<1>2. CASE Return(h)
    BY <1>1, <1>2, ReturnFine, QuietStep DEF ReadReview, store
<1>3. CASE ~Return(h)
  <2>1. /\ pc[h] = "review" /\ pc'[h] = "reviewed"
        /\ call'[h] = [call[h] EXCEPT !.review = reviews[call[h].on]]
        /\ todo'[h] = todo[h] /\ approvals' = approvals
      BY <1>3 DEF ReadReview, Goto, Inv, TypeOK
  <2>2. reviews[call[h].on] \in Review
      BY <2>1, CallTyped DEF HasRead, Named, Inv, TypeOK
  <2>3. /\ call'[h] \in Call /\ call'[h].copy = call[h].copy
        /\ call'[h].op = call[h].op /\ call'[h].on = call[h].on
        /\ call'[h].decision = call[h].decision
      BY <2>1, <2>2, CallTyped DEF Call
  <2>4. HandlerTyped(h)' /\ Named(h)' /\ HasRead(h)'
      BY <2>1, <2>3, CallTyped DEF HandlerTyped, Labels, Named, HasRead
  <2>5. CallSound(h)' /\ TodoSound(todo[h])'
      BY <2>1, <2>3, CallTyped DEF CallSound, TodoSound, Sound, IsLive, Vouched
  <2>6. Moves(h) /\ lock' \in Handlers \cup {None}
      BY <1>3 DEF ReadReview, Moves, Goto, Inv, TypeOK
  <2> QED BY <1>1, <2>4, <2>5, <2>6, QuietStep DEF ReadReview, HandlerFine, store
<1> QED BY <1>2, <1>3

LEMMA ReadReviewedKeeps ==
    ASSUME Inv, NEW h \in Handlers, ReadReviewed(h) PROVE Inv'
<1>1. PICK copy : copy = Stored(call[h].review.version)
    OBVIOUS
<1>2. call[h].review.version \in Versions \cup {None}
    BY CallTyped DEF Call, Review
<1>3. copy \in Copy /\ Sound(copy) /\ copy.of = call[h].review.version
    BY <1>1, <1>2, StoredFine
<1>4. /\ pc[h] = "reviewed" /\ pc'[h] = "command"
      /\ call'[h] = [call[h] EXCEPT !.copy = copy]
      /\ todo'[h] = todo[h] /\ approvals' = approvals
    BY <1>1 DEF ReadReviewed, Goto, Inv, TypeOK
<1>5. /\ call'[h] \in Call /\ call'[h].copy = copy
      /\ call'[h].review = call[h].review
      /\ call'[h].op = call[h].op /\ call'[h].on = call[h].on
      /\ call'[h].decision = call[h].decision
    BY <1>3, <1>4, CallTyped DEF Call
<1>6. HandlerTyped(h)' /\ Named(h)' /\ HasRead(h)'
    BY <1>3, <1>4, <1>5, CallTyped DEF HandlerTyped, Labels, Named, HasRead
<1>7. CallSound(h)' /\ TodoSound(todo[h])'
    BY <1>3, <1>4, <1>5, CallTyped DEF CallSound, TodoSound, Sound, IsLive, Vouched
<1>8. Moves(h) /\ lock' \in Handlers \cup {None} /\ calls' \in 0 .. MaxCalls
    BY DEF ReadReviewed, Moves, Goto, Inv, TypeOK
<1> QED BY <1>6, <1>7, <1>8, QuietStep DEF ReadReviewed, HandlerFine, store

\* A decision marks the version of its review: that is what a later look at the
\* approvals will find.
LEMMA DecideReviewKeeps ==
    ASSUME Inv, NEW h \in Handlers, DecideReview(h) PROVE Inv'
<1>1. PICK verdict, copy, as, records :
         /\ verdict = call[h].decision
         /\ copy = Marked(call[h].copy, verdict)
         /\ as = [call[h].review EXCEPT !.decision = verdict]
         /\ records = [review |-> [id |-> call[h].on, as |-> as],
                       copy |-> copy,
                       doc |-> [document EXCEPT !.status =
                                   IF verdict = "REJECTED" THEN "DRAFT" ELSE verdict]]
    OBVIOUS
<1>2. /\ verdict \in Decisions /\ call[h].on \in Reviews
      /\ call[h].copy.of = call[h].review.version
    BY <1>1, CallTyped DEF DecideReview, Command, Named, HasRead
<1>3. /\ copy \in Copy /\ copy.of = call[h].copy.of /\ copy.ver.status = verdict
    BY <1>1, <1>2, CallTyped, MarkedTyped DEF Decisions, VersionStatus
<1>4. /\ as \in Review /\ as.decision = verdict
      /\ as.version = call[h].review.version
    BY <1>1, <1>2, CallTyped DEF Call, Review
<1>5. records.doc \in Document
    BY <1>1, <1>2 DEF Inv, TypeOK, Document, DocumentStatus, Decisions
<1>6. records \in Todo
    BY <1>1, <1>2, <1>3, <1>4, <1>5 DEF Todo
<1>7. records.review # None
    BY <1>1, <1>2, <1>4, NoneIsNoReview
<1>8. TodoSound(records)
    BY <1>1, <1>2, <1>3, <1>4, <1>7 DEF TodoSound, IsLive, Decisions
<1>9. Store(h, TRUE, records)
    BY <1>1 DEF DecideReview
<1> QED BY <1>6, <1>8, <1>9, CommandStep DEF DecideReview

LEMMA PublishKeeps == ASSUME Inv, NEW h \in Handlers, Publish(h) PROVE Inv'
<1>1. calls' \in 0 .. MaxCalls
    BY DEF Publish, Inv, TypeOK
<1>2. CASE ~Publishable(h)
    BY <1>1, <1>2, ReturnFine, QuietStep DEF Publish, store
<1>3. CASE Publishable(h)
  <2>1. PICK from, copy : from = Stored(call[h].on) /\ copy = Marked(from, "PUBLISHED")
      OBVIOUS
  <2>2. pc[h] = "command" /\ call[h].op = "publish" /\ call[h].on \in Versions
      BY CallTyped DEF Publish, Command, Named
  <2>3. from \in Copy /\ Vouched(from)
      BY <1>3, <2>1, <2>2, StoredFine DEF Publishable, Sound, IsLive
  <2>4. copy \in Copy /\ copy.ver.status = "PUBLISHED" /\ Vouched(copy)
      BY <2>1, <2>3, MarkedTyped DEF VersionStatus, Vouched
  <2>5. /\ pc'[h] = "activate"
        /\ call'[h] = [call[h] EXCEPT !.copy = copy]
        /\ todo'[h] = todo[h] /\ approvals' = approvals
      BY <1>3, <2>1 DEF Publish, Goto, Inv, TypeOK
  <2>6. /\ call'[h] \in Call /\ call'[h].doc = call[h].doc /\ call'[h].copy = copy
        /\ call'[h].op = call[h].op /\ call'[h].on = call[h].on
      BY <2>4, <2>5, CallTyped DEF Call
  <2>7. HandlerTyped(h)' /\ Named(h)' /\ HasRead(h)'
      BY <2>2, <2>5, <2>6, CallTyped DEF HandlerTyped, Labels, Named, HasRead
  <2>8. CallSound(h)' /\ TodoSound(todo[h])'
      BY <2>4, <2>5, <2>6, CallTyped DEF CallSound, TodoSound, Sound, IsLive, Vouched
  <2>9. Moves(h) /\ lock' \in Handlers \cup {None}
      BY <1>3 DEF Publish, Moves, Goto, Inv, TypeOK
  <2> QED BY <1>1, <2>7, <2>8, <2>9, QuietStep DEF Publish, HandlerFine, store
<1> QED BY <1>2, <1>3

LEMMA UnpublishKeeps == ASSUME Inv, NEW h \in Handlers, Unpublish(h) PROVE Inv'
<1>1. calls' \in 0 .. MaxCalls
    BY DEF Unpublish, Inv, TypeOK
<1>2. CASE Return(h)
    BY <1>1, <1>2, ReturnFine, QuietStep DEF Unpublish, store
<1>3. CASE ~Return(h)
  <2>1. /\ pc[h] = "command" /\ call[h].op = "unpublish" /\ pc'[h] = "activate"
        /\ call'[h] = [call[h] EXCEPT !.copy = NoCopy]
        /\ todo'[h] = todo[h] /\ approvals' = approvals
      BY <1>3 DEF Unpublish, Command, Goto, Inv, TypeOK
  <2>2. /\ call'[h] \in Call /\ call'[h].doc = call[h].doc /\ call'[h].copy = NoCopy
        /\ call'[h].op = call[h].op
      BY <2>1, Constants, CallTyped DEF Call
  <2>3. HandlerTyped(h)' /\ Named(h)' /\ HasRead(h)'
      BY <2>1, <2>2, CallTyped DEF HandlerTyped, Labels, Named, HasRead
  <2>4. CallSound(h)' /\ TodoSound(todo[h])'
      BY <2>1, <2>2, AbsentIsSound, CallTyped
      DEF CallSound, TodoSound, Sound, IsLive, Vouched
  <2>5. Moves(h) /\ lock' \in Handlers \cup {None}
      BY <1>3 DEF Unpublish, Moves, Goto, Inv, TypeOK
  <2> QED BY <1>1, <2>3, <2>4, <2>5, QuietStep DEF Unpublish, HandlerFine, store
<1> QED BY <1>2, <1>3

\* What a rebuild carries over is nothing, or a published version as stored.
LEMMA CarriedFine ==
    ASSUME Inv
    PROVE  /\ Carried \in Copy /\ Sound(Carried)
           /\ Carried = NoCopy \/ Carried.ver.status = "PUBLISHED"
<1>1. served.of \in Versions \cup {None} /\ document.published \in Versions \cup {None}
    BY DEF Inv, TypeOK, Copy, Document
<1> QED BY <1>1, StoredFine, Constants, AbsentIsSound DEF Carried, IsPublished

LEMMA RebuildKeeps == ASSUME Inv, NEW h \in Handlers, Rebuild(h) PROVE Inv'
<1>1. PICK copy : copy = Carried
    OBVIOUS
<1>2. /\ copy \in Copy /\ Sound(copy)
      /\ copy = NoCopy \/ copy.ver.status = "PUBLISHED"
    BY <1>1, CarriedFine
<1>3. /\ pc[h] = "command" /\ call[h].op = "rebuild" /\ pc'[h] = "activate"
      /\ call'[h] = [call[h] EXCEPT !.copy = copy]
      /\ todo'[h] = todo[h] /\ approvals' = approvals
    BY <1>1 DEF Rebuild, Command, Goto, Inv, TypeOK
<1>4. /\ call'[h] \in Call /\ call'[h].copy = copy /\ call'[h].op = "rebuild"
    BY <1>2, <1>3, CallTyped DEF Call
<1>5. HandlerTyped(h)' /\ Named(h)' /\ HasRead(h)'
    BY <1>3, <1>4, CallTyped DEF HandlerTyped, Labels, Named, HasRead
<1>6. CallSound(h)' /\ TodoSound(todo[h])'
    BY <1>2, <1>3, <1>4, CallTyped DEF CallSound, TodoSound, Sound, IsLive, Vouched
<1>7. Moves(h) /\ lock' \in Handlers \cup {None} /\ calls' \in 0 .. MaxCalls
    BY DEF Rebuild, Moves, Goto, Inv, TypeOK
<1> QED BY <1>5, <1>6, <1>7, QuietStep DEF Rebuild, HandlerFine, store

LEMMA ActivateKeeps == ASSUME Inv, NEW h \in Handlers, Activate(h) PROVE Inv'
<1>1. PICK op, doc, copy, records :
         /\ op = call[h].op /\ doc = call[h].doc /\ copy = call[h].copy
         /\ records = AfterActivation(h)
    OBVIOUS
<1>2. pc[h] = "activate" /\ copy \in Copy /\ Sound(copy)
    BY <1>1, CallTyped DEF Activate
<1>3. copy = NoCopy \/ IsLive(copy)
    BY <1>1, <1>2 DEF Inv, HandlerFine, CallSound, IsLive
<1>4. records \in Todo /\ TodoSound(records)
  <2>1. CASE op = "publish"
    <3>1. doc \in Document /\ copy.of \in Versions \cup {None}
        BY <1>1, <1>2, <2>1, CallTyped DEF HasRead, Copy
    <3>2. records = [review |-> None, copy |-> copy,
                     doc |-> [doc EXCEPT !.status = "PUBLISHED", !.draft = None,
                                         !.published = copy.of]]
        BY <1>1, <2>1 DEF AfterActivation
    <3>3. [doc EXCEPT !.status = "PUBLISHED", !.draft = None, !.published = copy.of]
              \in Document
        BY <3>1 DEF Document, DocumentStatus
    <3> QED BY <1>2, <3>2, <3>3 DEF Todo, TodoSound
  <2>2. CASE op = "unpublish"
    <3>1. doc \in Document
        BY <1>1, <1>2, <2>2, CallTyped DEF HasRead
    <3>2. records = [review |-> None, copy |-> NoCopy,
                     doc |-> [doc EXCEPT !.status = "UNPUBLISHED", !.published = None]]
        BY <1>1, <2>2 DEF AfterActivation
    <3>3. [doc EXCEPT !.status = "UNPUBLISHED", !.published = None] \in Document
        BY <3>1 DEF Document, DocumentStatus
    <3> QED BY <3>2, <3>3, Constants, AbsentIsSound DEF Todo, TodoSound
  <2>3. CASE op \notin {"publish", "unpublish"}
    <3>1. records = Nothing
        BY <1>1, <2>3 DEF AfterActivation
    <3> QED BY <3>1, Constants, AbsentIsSound
  <2> QED BY <2>1, <2>2, <2>3
<1>5. Moves(h) /\ HandlerFine(h)' /\ lock' \in Handlers \cup {None}
  <2>1. CASE Return(h)
      BY <2>1, ReturnFine
  <2>2. CASE ~Return(h)
    <3>1. Store(h, records # Nothing, records)
        BY <1>1, <2>2 DEF Activate
    <3> QED BY <1>4, <3>1, StoreFine DEF Activate
  <2> QED BY <2>1, <2>2
<1>6. served' \in Copy /\ (served' # NoCopy => Vouched(served'))
    BY <1>1, <1>2, <1>3 DEF Activate, Inv, TypeOK, StoreSound, Sound
<1>7. StoreTyped' /\ StoreSound'
    BY <1>5, <1>6
    DEF Activate, store, Inv, TypeOK, StoreTyped, StoreSound, Sound, IsLive, Vouched
<1> QED BY <1>5, <1>7, Assemble DEF Activate

-----------------------------------------------------------------------------
(* The writes *)

LEMMA SaveReviewKeeps == ASSUME Inv, NEW h \in Handlers, SaveReview(h) PROVE Inv'
<1>1. PICK review, copy, rest :
         /\ review = todo[h].review /\ copy = todo[h].copy
         /\ rest = [todo[h] EXCEPT !.review = None]
    OBVIOUS
<1>2. /\ pc[h] = "write" /\ review \in [id : Reviews, as : Review]
      /\ copy \in Copy /\ rest \in Todo
      /\ rest.review = None /\ rest.copy = copy
    BY <1>1, CallTyped DEF SaveReview, Todo
<1>3. approvals \subseteq approvals'
    BY DEF SaveReview
<1>4. TodoSound(rest)'
  <2>1. CASE IsLive(copy)
    <3>1. review.as.decision = "APPROVED" /\ review.as.version = copy.of
        BY <1>1, <1>2, <2>1, NoneIsNoReview, CallTyped DEF TodoSound, IsLive
    <3>2. [review |-> review.id, version |-> review.as.version,
           content |-> copy.ver.content] \in approvals'
        BY <1>1, <3>1 DEF SaveReview
    <3>3. Vouched(copy)'
        BY <3>1, <3>2 DEF Vouched
    <3> QED BY <1>2, <3>3 DEF TodoSound, Sound, Vouched
  <2>2. CASE ~IsLive(copy)
      BY <1>2, <2>2 DEF TodoSound, Sound, IsLive
  <2> QED BY <2>1, <2>2
<1>5. Moves(h) /\ HandlerFine(h)' /\ lock' \in Handlers \cup {None}
    BY <1>1, <1>2, <1>3, <1>4, ContinueFine DEF SaveReview
<1>6. [review |-> review.id, version |-> review.as.version,
       content |-> copy.ver.content] \in Approvals
    BY <1>2 DEF Approvals, Review, Copy, Version
<1>7. approvals' \subseteq Approvals
    BY <1>1, <1>6 DEF SaveReview, Inv, TypeOK
<1>8. reviews' \in [Reviews -> Review]
    BY <1>1, <1>2 DEF SaveReview, Inv, TypeOK
<1>9. StoreTyped'
    BY <1>5, <1>7, <1>8 DEF SaveReview, Inv, TypeOK, StoreTyped
<1>10. StoreSound'
    BY <1>3 DEF SaveReview, Inv, StoreSound, Sound, IsLive, Vouched
<1> QED BY <1>3, <1>5, <1>9, <1>10, Assemble

LEMMA SaveVersionKeeps == ASSUME Inv, NEW h \in Handlers, SaveVersion(h) PROVE Inv'
<1>1. PICK copy, rest :
         copy = todo[h].copy /\ rest = [todo[h] EXCEPT !.copy = NoCopy]
    OBVIOUS
<1>2. /\ pc[h] = "write" /\ copy \in Copy /\ Sound(copy)
      /\ rest \in Todo /\ rest.review = None /\ rest.copy = NoCopy
    BY <1>1, Constants, CallTyped DEF SaveVersion, Todo, TodoSound
<1>3. TodoSound(rest)'
    BY <1>2 DEF TodoSound, Sound, IsLive, NoCopy, Absent
<1>4. Moves(h) /\ HandlerFine(h)' /\ lock' \in Handlers \cup {None}
    BY <1>1, <1>2, <1>3, ContinueFine DEF SaveVersion
<1>5. StoreTyped' /\ StoreSound'
    BY <1>1, <1>2, <1>4, VersionWritten DEF SaveVersion
<1> QED BY <1>4, <1>5, Assemble DEF SaveVersion

LEMMA SaveDocumentKeeps == ASSUME Inv, NEW h \in Handlers, SaveDocument(h) PROVE Inv'
<1>1. pc[h] = "write" /\ document' \in Document
    BY CallTyped DEF SaveDocument, Todo
<1>2. TodoSound(Nothing)'
    BY DEF TodoSound, Sound, IsLive, Nothing, NoCopy, Absent
<1>3. Moves(h) /\ HandlerFine(h)' /\ lock' \in Handlers \cup {None}
    BY <1>1, <1>2, Constants, ContinueFine DEF SaveDocument
<1>4. StoreTyped' /\ StoreSound'
    BY <1>1, <1>3
    DEF SaveDocument, Inv, TypeOK, StoreTyped, StoreSound, Sound, IsLive, Vouched
<1> QED BY <1>3, <1>4, Assemble DEF SaveDocument

-----------------------------------------------------------------------------
(* The theorems *)

LEMMA InitFine == Init => Inv
<1> SUFFICES ASSUME Init PROVE Inv
    OBVIOUS
<1>1. PICK c \in Contents :
         versions = [v \in Versions |->
                        IF v = First
                        THEN [status |-> "DRAFT", content |-> c, number |-> 1,
                              warned |-> c \in Untidy]
                        ELSE Absent]
    BY DEF Init
<1>2. (c \in Untidy) \in BOOLEAN
    OBVIOUS
<1>3. PICK b \in BOOLEAN : b = (c \in Untidy)
    BY <1>2, Zenon
<1>4. PICK first : first = [status |-> "DRAFT", content |-> c, number |-> 1, warned |-> b]
    OBVIOUS
<1>5. first \in Version /\ first.status = "DRAFT"
    BY <1>4 DEF Version, VersionStatus
<1>6. versions = [v \in Versions |-> IF v = First THEN first ELSE Absent]
    BY <1>1, <1>3, <1>4, Zenon
<1>7. document \in Document
    BY DEF Init, Document, DocumentStatus
<1>8. TypeOK
    BY <1>5, <1>6, <1>7, Constants DEF Init, TypeOK, Labels
<1>9. StoreSound
    BY <1>5, <1>6 DEF Init, StoreSound, Sound, IsLive, Absent
<1>10. ASSUME NEW h \in Handlers PROVE HandlerFine(h)
    BY Constants, AbsentIsSound
    DEF Init, HandlerFine, HandlerTyped, Labels, Named, HasRead, CallSound, NoCall
<1> QED BY <1>8, <1>9, <1>10 DEF Inv

LEMMA NextKeeps == Inv /\ [Next]_vars => Inv'
<1> SUFFICES ASSUME Inv, [Next]_vars PROVE Inv'
    OBVIOUS
<1>1. CASE UNCHANGED vars
    BY <1>1
    DEF vars, store, Inv, TypeOK, StoreSound, HandlerFine, HandlerTyped, Named,
        HasRead, CallSound, TodoSound, Sound, IsLive, Vouched
<1>2. ASSUME NEW h \in Handlers, Begin(h) \/ Step(h) PROVE Inv'
    BY <1>2, BeginKeeps, EnterLockKeeps, ReadDocumentKeeps, ReadDraftKeeps,
       RefreshKeeps, UpdateDraftKeeps, ValidateDocumentKeeps, SubmitForReviewKeeps,
       StartRevisionKeeps, RemoveDocumentKeeps, DiscardDraftKeeps, ReadReviewKeeps,
       ReadReviewedKeeps, DecideReviewKeeps, PublishKeeps, UnpublishKeeps,
       RebuildKeeps, ActivateKeeps, SaveReviewKeeps, SaveVersionKeeps,
       SaveDocumentKeeps
    DEF Step
<1> QED BY <1>1, <1>2 DEF Next

LEMMA Invariance == Spec => []Inv
BY InitFine, NextKeeps, PTL DEF Spec

\* The records, the copies and the requests of the portal are well typed.
THEOREM PortalTyped == Spec => []TypeOK
<1>1. Inv => TypeOK
    BY DEF Inv
<1> QED BY <1>1, Invariance, PTL

\* Whatever calls overlap, are stale or stop half way, and however often the
\* release is rebuilt, the portal serves no text that no reviewer approved.
THEOREM OnlyApprovedIsServed == Spec => []ServedWasApproved
<1>1. Inv => ServedWasApproved
    BY DEF Inv, StoreSound, Vouched, ServedWasApproved
<1> QED BY <1>1, Invariance, PTL
=============================================================================
