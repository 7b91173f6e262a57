------------------------------- MODULE HtmlCache -------------------------------
(***************************************************************************)
(* The disk cache of HtmlViewContainer, for one URL: the body, the temporary    *)
(* body it is downloaded to, and the record (meta) of the validators and the    *)
(* length the origin gave with it.  ensureLocalFile and prefetchUrls ask the    *)
(* origin, with the recorded validators, whether the body still holds; the      *)
(* process or the machine may stop between any two operations on the files.    *)
(*                                                                           *)
(* A file holds a version of the document: whole, cut by a crash, or short of     *)
(* what was lost when it was closed, which nobody looks at.  The validators of a  *)
(* version are the version itself; an origin may give a version none.  A record   *)
(* that lost its end is unsized (the length is its last line), or torn: what is   *)
(* left of its validators is no version's.                                       *)
(***************************************************************************)
EXTENDS Naturals

CONSTANTS
    Versions,  \* what the origin may hold under the URL
    Tagged,    \* the versions it gives validators with (ETag, Last-Modified)
    Length,    \* the length of a version
    None       \* no file, no record

Files == [version : Versions, part : {"whole", "cut", "short"}]
Records == [version : Versions, lines : {"all", "unsized", "torn"}]

ASSUME VersionsAssumption == Tagged \subseteq Versions /\ None \notin Files \cup Records
ASSUME LengthAssumption == Length \in [Versions -> Nat \ {0}]

VARIABLES
    origin,     \* the version the origin holds
    body,       \* <key>.body
    tmp,        \* <key>.body.tmp
    meta,       \* <key>.meta
    mapped,     \* the URL is in m_url_to_local
    pc,         \* where ensureLocalFile or prefetchUrls is
    purpose,    \* which of the two: "use" or "prefetch"
    have,       \* have_body: the body matches its record, which has validators
    answer,     \* history: the version the origin sent or confirmed last
    measured,   \* history: the fetch found the body to be of its recorded length
    how,        \* history: what the file in use rests on
    unrecorded  \* history: a body replaced another and its record did not

fileVars == <<body, tmp, meta>>
fetchVars == <<purpose, have, measured, answer>>
useVars == <<mapped, how>>
vars == <<origin, fileVars, fetchVars, useVars, pc, unrecorded>>

Whole(v) == [version |-> v, part |-> "whole"]
Short(v) == [version |-> v, part |-> "short"]
RecordOf(v) == [version |-> v, lines |-> "all"]
Cut(f) == IF f = None THEN None ELSE [f EXCEPT !.part = "cut"]

\* bodyLooksComplete: an incomplete body has not the recorded length, if one is recorded.
LooksComplete(f, m) ==
    f # None /\ (m.lines = "all" => f.part = "whole" /\ Length[f.version] = Length[m.version])

\* What there is of a record that was not flushed, or was closed on a full disk.
LeftOf(m) ==
    IF m = None THEN {None}
    ELSE {m, None, [m EXCEPT !.lines = "torn"]}
         \cup IF m.lines = "torn" THEN {} ELSE {[m EXCEPT !.lines = "unsized"]}

TypeOK ==
    /\ origin \in Versions /\ answer \in Versions
    /\ body \in Files \cup {None} /\ tmp \in Files \cup {None}
    /\ meta \in Records \cup {None}
    /\ {mapped, have, measured, unrecorded} \subseteq BOOLEAN
    /\ pc \in {"idle", "fetch", "write", "promote", "rename", "record", "serve"}
    /\ purpose \in {"use", "prefetch"}
    /\ how \in {"answered", "confirmed", "fallback"}

Init ==
    /\ origin \in Versions /\ answer = origin
    /\ body = None /\ tmp = None /\ meta = None
    /\ mapped = FALSE /\ have = FALSE /\ measured = FALSE /\ unrecorded = FALSE
    /\ pc = "idle" /\ purpose = "use" /\ how = "answered"

----------------------------------------------------------------------------
\* releaseDocument: clearMemoryMaps.
Release ==
    /\ pc = "idle"
    /\ mapped' = FALSE
    /\ UNCHANGED <<origin, fileVars, fetchVars, how, pc, unrecorded>>

\* ensureLocalFile of a URL this document has used already.
UseMapped ==
    /\ pc = "idle" /\ mapped /\ body # None
    /\ pc' = "serve"
    /\ UNCHANGED <<origin, fileVars, fetchVars, useVars, unrecorded>>

\* The record and the body are looked at, and a temporary body left over is removed.
Begin(why) ==
    /\ pc = "idle" /\ pc' = "fetch"
    /\ purpose' = why
    /\ have' = (meta # None /\ LooksComplete(body, meta))
    /\ measured' = (have' /\ meta.lines = "all")
    /\ tmp' = None
    /\ UNCHANGED <<origin, body, meta, answer, useVars, unrecorded>>

EnsureLocalFile == ~(mapped /\ body # None) /\ Begin("use")
PrefetchUrls == ~mapped /\ Begin("prefetch")

\* The URL gets its local path; ensureLocalFile's caller opens it.
Succeed(grounds) ==
    /\ mapped' = TRUE /\ how' = grounds
    /\ pc' = IF purpose = "use" THEN "serve" ELSE "idle"

\* The origin holds the version whose validators are sent.
Validates == have /\ meta.version = origin /\ meta.lines # "torn"

\* 304: the record is written again, which may fail or lose its end.
NotModified ==
    /\ pc = "fetch"
    /\ Validates
    /\ answer' = origin /\ tmp' = None
    /\ meta' \in LeftOf(meta)
    /\ Succeed("confirmed")
    /\ UNCHANGED <<origin, body, purpose, have, measured, unrecorded>>

\* 200: finish_slot opens the temporary body.
Answered ==
    /\ pc = "fetch"
    /\ ~Validates
    /\ answer' = origin
    /\ tmp' = Cut(Whole(origin))
    /\ pc' = "write"
    /\ UNCHANGED <<origin, body, meta, useVars, purpose, have, measured, unrecorded>>

\* fwrite took all of the body; what fclose says of the rest it had to flush is not asked.
WriteBody ==
    /\ pc = "write" /\ pc' = "promote"
    /\ tmp' \in {Whole(answer), Short(answer)}
    /\ UNCHANGED <<origin, body, meta, fetchVars, useVars, unrecorded>>

\* A fault: any body will do when the origin cannot be reached.
FallBackUnchecked ==
    /\ pc \in {"fetch", "write"}
    /\ tmp' = None
    /\ IF body # None
         THEN Succeed("fallback")
         ELSE pc' = "idle" /\ UNCHANGED useVars
    /\ UNCHANGED <<origin, body, meta, fetchVars, unrecorded>>

\* No answer, an HTTP error, or fopen or fwrite failed: the body before, if validated.
FetchFails ==
    /\ pc \in {"fetch", "write"}
    /\ tmp' = None
    /\ IF have
         THEN Succeed("fallback")
         ELSE pc' = "idle" /\ UNCHANGED useVars
    /\ UNCHANGED <<origin, body, meta, fetchVars, unrecorded>>

RemoveBody ==
    /\ pc = "promote" /\ pc' = "rename"
    /\ body' = None
    /\ UNCHANGED <<origin, tmp, meta, fetchVars, useVars, unrecorded>>

Rename ==
    /\ pc = "rename" /\ pc' = "record"
    /\ body' = tmp /\ tmp' = None
    /\ UNCHANGED <<origin, meta, fetchVars, useVars, unrecorded>>

PromoteFails ==
    /\ pc \in {"promote", "rename"} /\ pc' = "idle"
    /\ tmp' = None
    /\ UNCHANGED <<origin, body, meta, fetchVars, useVars, unrecorded>>

\* A fault: the record of an earlier version stays when the origin gave no validators.
RecordTagged ==
    /\ pc = "record"
    /\ IF answer \in Tagged THEN meta' \in LeftOf(RecordOf(answer)) ELSE meta' = meta
    /\ unrecorded' = FALSE
    /\ Succeed("answered")
    /\ UNCHANGED <<origin, body, tmp, fetchVars>>

\* Only a body that came with validators is recorded; the end of the record may be lost
\* when it is closed, unnoticed.
Record ==
    /\ pc = "record"
    /\ IF answer \in Tagged THEN meta' \in LeftOf(RecordOf(answer)) ELSE meta' = None
    /\ unrecorded' = FALSE
    /\ Succeed("answered")
    /\ UNCHANGED <<origin, body, tmp, fetchVars>>

\* The record before can be neither replaced nor removed; nothing is made of it.
RecordFails ==
    /\ pc = "record" /\ meta # None
    /\ unrecorded' = TRUE
    /\ Succeed("answered")
    /\ UNCHANGED <<origin, fileVars, fetchVars>>

\* The caller has read the file.
ReadFile ==
    /\ pc = "serve" /\ pc' = "idle"
    /\ UNCHANGED <<origin, fileVars, fetchVars, useVars, unrecorded>>

----------------------------------------------------------------------------
\* The process ends, or the panel loses its power: what was not flushed may be lost.
Crash ==
    /\ pc' = "idle" /\ mapped' = FALSE
    /\ body' \in {body, Cut(body), None} /\ tmp' \in {tmp, Cut(tmp), None}
    /\ meta' \in LeftOf(meta)
    /\ unrecorded' = (unrecorded \/ pc = "record")
    /\ UNCHANGED <<origin, fetchVars, how>>

\* Another version, or one it held before.
OriginChanges ==
    /\ origin' \in Versions \ {origin}
    /\ UNCHANGED <<fileVars, fetchVars, useVars, pc, unrecorded>>

Fetch ==
    \/ EnsureLocalFile \/ PrefetchUrls
    \/ NotModified \/ Answered \/ WriteBody \/ FetchFails
    \/ RemoveBody \/ Rename \/ PromoteFails \/ Record \/ RecordFails

Next ==
    \/ Release \/ UseMapped \/ Fetch \/ ReadFile
    \/ Crash \/ OriginChanges

Spec == Init /\ [][Next]_vars

----------------------------------------------------------------------------
(* Properties *)

\* Where the fetch is, the files are as the steps to come expect them.
StagesFollow ==
    /\ pc \in {"fetch", "write", "promote"} /\ have =>
         /\ meta # None /\ LooksComplete(body, meta)
         /\ measured => meta.lines = "all"
    /\ pc \in {"promote", "rename"} => tmp \in {Whole(answer), Short(answer)}
    /\ pc = "record" => body \in {Whole(answer), Short(answer)}
    /\ pc \in {"fetch", "write", "promote", "rename"} => ~(mapped /\ body # None)

\* A record is of a version with validators, and of the body beside it, except between
\* the renaming of a body and its record.
RecordsMatch ==
    meta # None =>
        /\ meta.version \in Tagged
        /\ body # None /\ pc # "record" /\ ~unrecorded => body.version = meta.version

\* What the body in use is: as the origin sent it in this fetch, but for what was lost
\* unnoticed when it was closed, never cut by a crash; or, if it was there before, whole
\* provided its record still had the length, and what the origin confirmed in this
\* fetch or, when the fetch failed, a version the origin gave validators with.
Sound ==
    /\ body # None
    /\ how = "answered" => body.version = answer /\ body.part # "cut"
    /\ how # "answered" /\ measured => body.part = "whole"
    /\ how = "confirmed" /\ ~unrecorded => body.version = answer
    /\ how = "fallback" /\ ~unrecorded => body.version \in Tagged

\* The file a caller opens is sound, whatever crash or failure came before.  A body
\* whose record was not replaced can be confirmed or used for another version.
\* (ensureLocalFile: "readers never see partial files", "fall back to previously
\* validated body")
ServedIsSound == pc = "serve" => Sound

\* So is the file of a URL the document has used, when it is asked for again.
MappedIsSound == mapped /\ body # None /\ pc # "record" => Sound

\* The inductive invariant.
IInv == TypeOK /\ StagesFollow /\ RecordsMatch /\ ServedIsSound /\ MappedIsSound
=============================================================================
