-------------------------- MODULE PortalDocuments --------------------------
(***************************************************************************)
(* One document of the Knowledge Portal with its versions and reviews      *)
(* (knowledge_portal/services), under calls that overlap.  A call reads    *)
(* the records it needs, decides on its copies, and writes the copies back *)
(* one by one: no write compares what is stored.  Only publications queue, *)
(* for the coordination lock.  A call may stop anywhere, since nothing     *)
(* makes it go on.  Records of different documents never meet.             *)
(***************************************************************************)
EXTENDS Naturals

CONSTANTS
    Versions,     \* version ids; the document is created with First
    First,
    Reviews,      \* review ids
    Contents,     \* what a draft may say, with its metadata
    Untidy,       \* contents whose asset paths validation warns about
    Handlers,     \* calls that overlap
    None,
    MaxCalls      \* calls altogether

ASSUME Assumptions ==
    /\ First \in Versions
    /\ None \notin Versions \cup Reviews \cup Contents \cup Handlers
    /\ MaxCalls \in Nat

VARIABLES
    document,    \* the stored document
    versions,    \* versions[v]: the stored version
    reviews,     \* reviews[r]: the stored review
    served,      \* the copy of a version that the active release has, or NoCopy
    lock,        \* the handler in the coordination lock, or None
    pc,          \* where a handler stands
    call,        \* its request and what it has read
    todo,        \* the records it has yet to store
    approvals,   \* what reviewers have approved: review, version, content read
    calls

store == <<document, versions, reviews>>
vars == <<store, served, lock, pc, call, todo, approvals, calls>>

DocumentStatus == {"DRAFT", "IN_REVIEW", "CHANGES_REQUESTED", "APPROVED",
                   "PUBLISHED", "UNPUBLISHED", "DISCARDED"}
VersionStatus == {"ABSENT", "DRAFT", "IN_REVIEW", "CHANGES_REQUESTED",
                  "APPROVED", "PUBLISHED", "REJECTED", "DISCARDED"}
Decisions == {"APPROVED", "CHANGES_REQUESTED", "REJECTED"}
Editable == {"DRAFT", "CHANGES_REQUESTED", "APPROVED"}

\* An etag is the version number it was made from; warned stands for the
\* validation summary.
Document == [status : DocumentStatus, draft : Versions \cup {None},
             published : Versions \cup {None}, etag : Nat]
Version == [status : VersionStatus, content : Contents \cup {None},
            number : Nat, warned : BOOLEAN]
Review == [version : Versions \cup {None}, snapshot : Contents \cup {None},
           decision : Decisions \cup {None}]
Copy == [of : Versions \cup {None}, ver : Version]
Approvals == [review : Reviews, version : Versions \cup {None},
              content : Contents \cup {None}]

Absent == [status |-> "ABSENT", content |-> None, number |-> 0, warned |-> FALSE]
NoReview == [version |-> None, snapshot |-> None, decision |-> None]
NoCopy == [of |-> None, ver |-> Absent]

Ops == {"none", "view", "validate", "revise", "remove", "discard", "submit",
        "update", "decide", "publish", "unpublish", "rebuild"}
Locked == {"publish", "unpublish", "rebuild"}

\* What a request names, the etag it sends, and the copies the handler has made.
Call == [op : Ops, on : Versions \cup Reviews \cup Contents \cup {None},
         etag : Nat, decision : Decisions \cup {None},
         doc : Document \cup {None}, copy : Copy, review : Review]
NoCall == [op |-> "none", on |-> None, etag |-> 0, decision |-> None,
           doc |-> None, copy |-> NoCopy, review |-> NoReview]

\* Every call stores its review first, then its version, then its document.
Todo == [review : [id : Reviews, as : Review] \cup {None},
         copy : Copy, doc : Document \cup {None}]
ASSUME NoneIsNoReview == None \notin [id : Reviews, as : Review]

Nothing == [review |-> None, copy |-> NoCopy, doc |-> None]

Labels == {"idle", "lock", "document", "draft", "refresh", "command",
           "review", "reviewed", "activate", "write"}

TypeOK ==
    /\ document \in Document
    /\ versions \in [Versions -> Version]
    /\ reviews \in [Reviews -> Review]
    /\ served \in Copy
    /\ lock \in Handlers \cup {None}
    /\ pc \in [Handlers -> Labels]
    /\ call \in [Handlers -> Call]
    /\ todo \in [Handlers -> Todo]
    /\ approvals \subseteq Approvals
    /\ calls \in 0 .. MaxCalls

\* create_document has stored the version and the document; nobody knew their
\* ids before.
Init ==
    /\ document = [status |-> "DRAFT", draft |-> First, published |-> None, etag |-> 1]
    /\ \E c \in Contents :
          versions = [v \in Versions |->
                         IF v = First
                         THEN [status |-> "DRAFT", content |-> c, number |-> 1,
                               warned |-> c \in Untidy]
                         ELSE Absent]
    /\ reviews = [r \in Reviews |-> NoReview]
    /\ served = NoCopy
    /\ lock = None
    /\ pc = [h \in Handlers |-> "idle"]
    /\ call = [h \in Handlers |-> NoCall]
    /\ todo = [h \in Handlers |-> Nothing]
    /\ approvals = {}
    /\ calls = 0

-----------------------------------------------------------------------------
(* Calls *)

Goto(h, label) == pc' = [pc EXCEPT ![h] = label]
Command(h, op) == pc[h] = "command" /\ call[h].op = op
Unlock(h) == lock' = IF lock = h THEN None ELSE lock

\* The call answers, or an exception leaves it.
Return(h) ==
    /\ Goto(h, "idle")
    /\ call' = [call EXCEPT ![h] = NoCall]
    /\ todo' = [todo EXCEPT ![h] = Nothing]
    /\ Unlock(h)

\* If the guard holds the records are stored one by one, else the call is refused.
\* Nothing that the call has read is used after that.
Store(h, guard, records) ==
    \/ /\ guard
       /\ Goto(h, "write")
       /\ todo' = [todo EXCEPT ![h] = records]
       /\ call' = [call EXCEPT ![h] = [NoCall EXCEPT !.op = call[h].op]]
       /\ UNCHANGED lock
    \/ ~guard /\ Return(h)

Stored(id) == [of |-> id, ver |-> IF id = None THEN Absent ELSE versions[id]]

\* A client sends the etag of the document as it has loaded it; an older one is
\* refused below, or equal.
Requested ==
    [op : {"view", "validate", "revise", "remove", "unpublish", "rebuild"},
     on : {None}, etag : {0}, decision : {None}]
    \cup [op : {"submit"}, on : {None}, etag : {document.etag}, decision : {None}]
    \cup [op : {"update"}, on : Contents, etag : {document.etag}, decision : {None}]
    \cup [op : {"publish"}, on : {v \in Versions : versions[v].status # "ABSENT"},
          etag : {0}, decision : {None}]
    \cup [op : {"decide"}, on : {r \in Reviews : reviews[r].version # None},
          etag : {0}, decision : Decisions]

Begin(h) ==
    /\ pc[h] = "idle"
    /\ calls < MaxCalls /\ calls' = calls + 1
    /\ \E request \in Requested :
          /\ call' = [call EXCEPT ![h] = [NoCall EXCEPT
                         !.op = request.op, !.on = request.on,
                         !.etag = request.etag, !.decision = request.decision]]
          /\ Goto(h, CASE request.op = "decide" -> "review"
                       [] request.op \in Locked -> "lock"
                       [] OTHER -> "document")
    /\ UNCHANGED <<store, served, lock, todo, approvals>>

\* The coordination lock; what may go wrong with it is in ReleaseSaga.
EnterLock(h) ==
    /\ pc[h] = "lock"
    /\ lock = None
    /\ lock' = h
    /\ Goto(h, IF call[h].op = "rebuild" THEN "command" ELSE "document")
    /\ UNCHANGED <<store, served, call, todo, approvals, calls>>

-----------------------------------------------------------------------------
(* DocumentService.get_document, with which most calls begin and end *)

ReadDocument(h) ==
    /\ pc[h] = "document"
    /\ call' = [call EXCEPT ![h].doc = document]
    /\ Goto(h, "draft")
    /\ UNCHANGED <<store, served, lock, todo, approvals, calls>>

ReadDraft(h) ==
    LET draft == Stored(call[h].doc.draft)
    IN  /\ pc[h] = "draft"
        /\ IF call[h].op = "view" /\ ~draft.ver.warned
           THEN Return(h)
           ELSE /\ Goto(h, IF draft.ver.warned THEN "refresh" ELSE "command")
                /\ call' = [call EXCEPT ![h].copy = draft]
                /\ UNCHANGED <<lock, todo>>
        /\ UNCHANGED <<store, served, approvals, calls>>

Validated(ver) == [ver EXCEPT !.warned = ver.content \in Untidy]

\* A draft with an asset warning is validated again and stored.
Refresh(h) ==
    LET copy == call[h].copy
    IN  /\ pc[h] = "refresh"
        /\ versions' = [versions EXCEPT ![copy.of] = Validated(copy.ver)]
        /\ IF call[h].op = "view"
           THEN Return(h)
           ELSE /\ Goto(h, "command")
                /\ call' = [call EXCEPT ![h].copy.ver = Validated(copy.ver)]
                /\ UNCHANGED <<lock, todo>>
        /\ UNCHANGED <<document, reviews, served, approvals, calls>>

-----------------------------------------------------------------------------
(* Commands: each decides on the copies of its handler *)

\* Variant: an edit keeps the status of the version.
Edited_KeepsStatus(copy, content) ==
    [of |-> copy.of,
     ver |-> [copy.ver EXCEPT !.content = content, !.warned = content \in Untidy]]

Edited(copy, content) ==
    [of |-> copy.of,
     ver |-> [copy.ver EXCEPT !.content = content, !.warned = content \in Untidy,
                              !.status = "DRAFT"]]

Marked(copy, status) == [of |-> copy.of, ver |-> [copy.ver EXCEPT !.status = status]]

\* load_editable_draft reads the version once more.
UpdateDraft(h) ==
    LET doc == call[h].doc
        copy == Stored(doc.draft)
    IN  /\ Command(h, "update")
        /\ Store(h, /\ doc.status \in Editable
                    /\ doc.etag = call[h].etag
                    /\ doc.draft # None /\ copy.ver.status \in Editable,
                 [review |-> None, copy |-> Edited(copy, call[h].on),
                  doc |-> [doc EXCEPT !.status = "DRAFT",
                                      !.etag = copy.ver.number + 1]])
        /\ UNCHANGED <<store, served, approvals, calls>>

ValidateDocument(h) ==
    LET copy == call[h].copy
    IN  /\ Command(h, "validate")
        /\ Store(h, copy.of # None,
                 [review |-> None, doc |-> None,
                  copy |-> [of |-> copy.of, ver |-> Validated(copy.ver)]])
        /\ UNCHANGED <<store, served, approvals, calls>>

FreshReview(r) ==
    /\ reviews[r] = NoReview
    /\ \A h \in Handlers : todo[h].review # None => todo[h].review.id # r

FreshVersion(v) ==
    versions[v] = Absent /\ \A h \in Handlers : todo[h].copy.of # v

\* Neither the status of the document nor that of the version is looked at; the
\* snapshot is the hash of the content.
SubmitForReview(h) ==
    LET doc == call[h].doc
        copy == call[h].copy
    IN  /\ Command(h, "submit")
        /\ \E r \in Reviews :
              /\ FreshReview(r)
              /\ Store(h, doc.etag = call[h].etag /\ copy.of # None,
                       [review |-> [id |-> r,
                                    as |-> [version |-> copy.of,
                                            snapshot |-> copy.ver.content,
                                            decision |-> None]],
                        copy |-> Marked(copy, "IN_REVIEW"),
                        doc |-> [doc EXCEPT !.status = "IN_REVIEW"]])
        /\ UNCHANGED <<store, served, approvals, calls>>

\* get_document has read the published version too; it is read here.
StartRevision(h) ==
    LET doc == call[h].doc
        from == Stored(doc.published).ver
    IN  /\ Command(h, "revise")
        /\ \E v \in Versions :
              /\ FreshVersion(v)
              /\ Store(h, /\ doc.status = "PUBLISHED" /\ doc.published # None
                          /\ doc.draft = None,
                       [review |-> None,
                        copy |-> [of |-> v, ver |-> [status |-> "DRAFT",
                                                     content |-> from.content,
                                                     number |-> from.number + 1,
                                                     warned |-> FALSE]],
                        doc |-> [doc EXCEPT !.draft = v, !.status = "DRAFT",
                                            !.etag = from.number + 1]])
        /\ UNCHANGED <<store, served, approvals, calls>>

\* remove_document unpublishes what is published and discards anything else;
\* both start by reading again.
RemoveDocument(h) ==
    LET unpublishes == call[h].doc.published # None /\ call[h].doc.status = "PUBLISHED"
    IN  /\ Command(h, "remove")
        /\ call' = [call EXCEPT ![h].op = IF unpublishes THEN "unpublish" ELSE "discard"]
        /\ Goto(h, IF unpublishes THEN "lock" ELSE "document")
        /\ UNCHANGED <<store, served, lock, todo, approvals, calls>>

DiscardDraft(h) ==
    LET doc == call[h].doc
        copy == call[h].copy
    IN  /\ Command(h, "discard")
        /\ Store(h, /\ doc.status # "IN_REVIEW"
                    /\ doc.published = None \/ doc.status # "PUBLISHED",
                 [review |-> None,
                  copy |-> IF copy.of = None THEN NoCopy ELSE Marked(copy, "DISCARDED"),
                  doc |-> [doc EXCEPT !.status = "DISCARDED", !.draft = None]])
        /\ UNCHANGED <<store, served, approvals, calls>>

-----------------------------------------------------------------------------
(* ReviewService.decide_review *)

ReadReview(h) ==
    LET review == reviews[call[h].on]
    IN  /\ pc[h] = "review"
        /\ IF review.decision = None
           THEN /\ Goto(h, "reviewed")
                /\ call' = [call EXCEPT ![h].review = review]
                /\ UNCHANGED <<lock, todo>>
           ELSE Return(h)
        /\ UNCHANGED <<store, served, approvals, calls>>

ReadReviewed(h) ==
    /\ pc[h] = "reviewed"
    /\ call' = [call EXCEPT ![h].copy = Stored(call[h].review.version)]
    /\ Goto(h, "command")
    /\ UNCHANGED <<store, served, lock, todo, approvals, calls>>

\* The decision is about the version as it is now, whatever the snapshot was.
DecideReview(h) ==
    LET verdict == call[h].decision
    IN  /\ Command(h, "decide")
        /\ Store(h, TRUE,
                 [review |-> [id |-> call[h].on,
                              as |-> [call[h].review EXCEPT !.decision = verdict]],
                  copy |-> Marked(call[h].copy, verdict),
                  doc |-> [document EXCEPT !.status =
                              IF verdict = "REJECTED" THEN "DRAFT" ELSE verdict]])
        /\ UNCHANGED <<store, served, approvals, calls>>

-----------------------------------------------------------------------------
(* Publication, in the lock *)

\* Variant: the document's status is asked instead of the version's.
Publishable_ByDocument(h) == call[h].doc.status = "APPROVED"

Publishable(h) == versions[call[h].on].status = "APPROVED"

Publish(h) ==
    /\ Command(h, "publish")
    /\ IF Publishable(h)
       THEN /\ call' = [call EXCEPT ![h].copy = Marked(Stored(call[h].on), "PUBLISHED")]
            /\ Goto(h, "activate")
            /\ UNCHANGED <<lock, todo>>
       ELSE Return(h)
    /\ UNCHANGED <<store, served, approvals, calls>>

Unpublish(h) ==
    /\ Command(h, "unpublish")
    /\ IF call[h].doc.status = "PUBLISHED" \/ call[h].doc.published # None
       THEN /\ call' = [call EXCEPT ![h].copy = NoCopy]
            /\ Goto(h, "activate")
            /\ UNCHANGED <<lock, todo>>
       ELSE Return(h)
    /\ UNCHANGED <<store, served, approvals, calls>>

IsPublished(id) == Stored(id).ver.status = "PUBLISHED"

\* collect_active_published_versions: the active manifest wins over the document.
Carried ==
    IF IsPublished(served.of) THEN Stored(served.of)
    ELSE IF document.status # "DISCARDED" /\ IsPublished(document.published)
         THEN Stored(document.published)
         ELSE NoCopy

\* Another document is published, or everything is indexed again.
Rebuild(h) ==
    /\ Command(h, "rebuild")
    /\ call' = [call EXCEPT ![h].copy = Carried]
    /\ Goto(h, "activate")
    /\ UNCHANGED <<store, served, lock, todo, approvals, calls>>

\* What a call stores after its activation, which may have been compensated.
AfterActivation(h) ==
    LET doc == call[h].doc
    IN  CASE call[h].op = "publish" ->
               [review |-> None, copy |-> call[h].copy,
                doc |-> [doc EXCEPT !.status = "PUBLISHED", !.draft = None,
                                    !.published = call[h].copy.of]]
          [] call[h].op = "unpublish" ->
               [review |-> None, copy |-> NoCopy,
                doc |-> [doc EXCEPT !.status = "UNPUBLISHED", !.published = None]]
          [] OTHER -> Nothing

\* activate_release: the new release serves, or the previous one again; it ends
\* with a release or with an exception.
Activate(h) ==
    /\ pc[h] = "activate"
    /\ served' \in {served, call[h].copy}
    /\ \/ Store(h, AfterActivation(h) # Nothing, AfterActivation(h))
       \/ Return(h)
    /\ UNCHANGED <<store, approvals, calls>>

-----------------------------------------------------------------------------
(* The writes of a call *)

EndsInView == {"update", "submit", "revise", "decide", "unpublish"}

\* What is left after a write; most calls answer with the document as it is then.
Continue(h, rest) ==
    CASE rest # Nothing ->
            /\ todo' = [todo EXCEPT ![h] = rest]
            /\ UNCHANGED <<pc, call, lock>>
      [] rest = Nothing /\ call[h].op \in EndsInView ->
            /\ todo' = [todo EXCEPT ![h] = Nothing]
            /\ call' = [call EXCEPT ![h] = [NoCall EXCEPT !.op = "view"]]
            /\ Goto(h, "document")
            /\ Unlock(h)
      [] OTHER -> Return(h)

SaveReview(h) ==
    LET review == todo[h].review
    IN  /\ pc[h] = "write" /\ review # None
        /\ reviews' = [reviews EXCEPT ![review.id] = review.as]
        /\ approvals' = IF review.as.decision # "APPROVED" THEN approvals
                        ELSE approvals \cup
                               {[review |-> review.id, version |-> review.as.version,
                                 content |-> todo[h].copy.ver.content]}
        /\ Continue(h, [todo[h] EXCEPT !.review = None])
        /\ UNCHANGED <<document, versions, served, calls>>

SaveVersion(h) ==
    LET copy == todo[h].copy
    IN  /\ pc[h] = "write" /\ todo[h].review = None /\ copy.of # None
        /\ versions' = [versions EXCEPT ![copy.of] = copy.ver]
        /\ Continue(h, [todo[h] EXCEPT !.copy = NoCopy])
        /\ UNCHANGED <<document, reviews, served, approvals, calls>>

SaveDocument(h) ==
    /\ pc[h] = "write" /\ todo[h].review = None
    /\ todo[h].copy.of = None /\ todo[h].doc # None
    /\ document' = todo[h].doc
    /\ Continue(h, Nothing)
    /\ UNCHANGED <<versions, reviews, served, approvals, calls>>

Step(h) ==
    \/ EnterLock(h) \/ ReadDocument(h) \/ ReadDraft(h) \/ Refresh(h)
    \/ UpdateDraft(h) \/ ValidateDocument(h) \/ SubmitForReview(h)
    \/ StartRevision(h) \/ RemoveDocument(h) \/ DiscardDraft(h)
    \/ ReadReview(h) \/ ReadReviewed(h) \/ DecideReview(h)
    \/ Publish(h) \/ Unpublish(h) \/ Rebuild(h) \/ Activate(h)
    \/ SaveReview(h) \/ SaveVersion(h) \/ SaveDocument(h)

Next ==
    \E h \in Handlers : Begin(h) \/ Step(h)

Spec == Init /\ [][Next]_vars

-----------------------------------------------------------------------------
(* Properties *)

\* What a release serves of the document was approved, with that content, by a
\* reviewer who had read it: edits, stale writes, refreshes of a view and
\* rebuilds for other documents never bring out a text that nobody approved.
ServedWasApproved ==
    served # NoCopy =>
        \E a \in approvals :
            a.version = served.of /\ a.content = served.ver.content

\* What a reviewer approves is what was submitted to the review.
ApprovedAsSubmitted ==
    \A a \in approvals : reviews[a.review].snapshot = a.content
=============================================================================
