---------------------------- MODULE HtmlCache_proofs ----------------------------
(***************************************************************************)
(* Proofs about HtmlCache, for any versions, validators and lengths.          *)
(***************************************************************************)
EXTENDS HtmlCache, TLAPS

USE VersionsAssumption
USE DEF fileVars, fetchVars, useVars

(* Files, whole, short and cut; records, and what may be left of them.           *)
LEMMA Facts ==
    /\ \A v \in Versions :
         /\ Whole(v) \in Files /\ Whole(v) # None
         /\ Whole(v).version = v /\ Whole(v).part = "whole"
         /\ Short(v) \in Files /\ Short(v) # None
         /\ Short(v).version = v /\ Short(v).part = "short"
    /\ \A f \in Files \cup {None} : Cut(f) \in Files \cup {None}
    /\ \A f \in Files : f # None /\ Cut(f) # None /\ Cut(f).version = f.version
    /\ Cut(None) = None
<1>1. \A v \in Versions :
        /\ Whole(v) \in Files /\ Whole(v) # None
        /\ Whole(v).version = v /\ Whole(v).part = "whole"
  BY DEF Whole, Files
<1>2. \A v \in Versions :
        /\ Short(v) \in Files /\ Short(v) # None
        /\ Short(v).version = v /\ Short(v).part = "short"
  BY DEF Short, Files
<1>3. \A f \in Files : f # None /\ Cut(f) \in Files /\ Cut(f).version = f.version
  BY DEF Cut, Files
<1>4. Cut(None) = None
  BY DEF Cut
<1> QED BY <1>1, <1>2, <1>3, <1>4

LEMMA RecordFacts ==
    /\ \A v \in Versions : RecordOf(v) \in Records /\ RecordOf(v).version = v
    /\ \A m \in Records \cup {None} : \A n \in LeftOf(m) : n \in Records \cup {None}
    /\ \A m \in Records : \A n \in LeftOf(m) : n # None => n.version = m.version
    /\ LeftOf(None) = {None}
<1>1. \A v \in Versions : RecordOf(v) \in Records /\ RecordOf(v).version = v
  BY DEF RecordOf, Records
<1>2. LeftOf(None) = {None}
  BY DEF LeftOf
<1>3. ASSUME NEW m \in Records, NEW n \in LeftOf(m), n # None
      PROVE  n \in Records /\ n.version = m.version
  BY <1>3 DEF LeftOf, Records
<1> QED BY <1>1, <1>2, <1>3

(* A document is released, a URL used again, and a fetch begun. *)
LEMMA BeginKeepsIInv ==
    ASSUME IInv, Release \/ UseMapped \/ EnsureLocalFile \/ PrefetchUrls
    PROVE  IInv'
<1>1. CASE Release
  <2>1. TypeOK'
    BY <1>1, Facts DEF Release, IInv, TypeOK
  <2>2. StagesFollow'
    BY <1>1, Facts DEF Release, IInv, TypeOK, StagesFollow, LooksComplete
  <2>3. RecordsMatch'
    BY <1>1, Facts
    DEF Release, IInv, TypeOK, StagesFollow, RecordsMatch, LooksComplete
  <2>4. ServedIsSound'
    BY <1>1, Facts
    DEF Release, IInv, TypeOK, StagesFollow, RecordsMatch, ServedIsSound,
        MappedIsSound, Sound, LooksComplete
  <2>5. MappedIsSound'
    BY <1>1, Facts
    DEF Release, IInv, TypeOK, StagesFollow, RecordsMatch, MappedIsSound, Sound,
        LooksComplete
  <2> QED BY <2>1, <2>2, <2>3, <2>4, <2>5 DEF IInv
<1>2. CASE UseMapped
  <2>1. TypeOK'
    BY <1>2, Facts DEF UseMapped, IInv, TypeOK
  <2>2. StagesFollow'
    BY <1>2, Facts DEF UseMapped, IInv, TypeOK, StagesFollow, LooksComplete
  <2>3. RecordsMatch'
    BY <1>2, Facts
    DEF UseMapped, IInv, TypeOK, StagesFollow, RecordsMatch, LooksComplete
  <2>4. ServedIsSound'
    BY <1>2, Facts
    DEF UseMapped, IInv, TypeOK, StagesFollow, RecordsMatch, ServedIsSound,
        MappedIsSound, Sound, LooksComplete
  <2>5. MappedIsSound'
    BY <1>2, Facts
    DEF UseMapped, IInv, TypeOK, StagesFollow, RecordsMatch, MappedIsSound, Sound,
        LooksComplete
  <2> QED BY <2>1, <2>2, <2>3, <2>4, <2>5 DEF IInv
<1>3. CASE EnsureLocalFile
  <2>1. TypeOK'
    BY <1>3, Facts DEF EnsureLocalFile, Begin, IInv, TypeOK
  <2>2. StagesFollow'
    BY <1>3, Facts
    DEF EnsureLocalFile, Begin, IInv, TypeOK, StagesFollow, LooksComplete
  <2>3. RecordsMatch'
    BY <1>3, Facts
    DEF EnsureLocalFile, Begin, IInv, TypeOK, StagesFollow, RecordsMatch,
        LooksComplete
  <2>4. ServedIsSound'
    BY <1>3, Facts
    DEF EnsureLocalFile, Begin, IInv, TypeOK, StagesFollow, RecordsMatch,
        ServedIsSound, MappedIsSound, Sound, LooksComplete
  <2>5. MappedIsSound'
    BY <1>3, Facts
    DEF EnsureLocalFile, Begin, IInv, TypeOK, StagesFollow, RecordsMatch,
        MappedIsSound, Sound, LooksComplete
  <2> QED BY <2>1, <2>2, <2>3, <2>4, <2>5 DEF IInv
<1>4. CASE PrefetchUrls
  <2>1. TypeOK'
    BY <1>4, Facts DEF PrefetchUrls, Begin, IInv, TypeOK
  <2>2. StagesFollow'
    BY <1>4, Facts DEF PrefetchUrls, Begin, IInv, TypeOK, StagesFollow, LooksComplete
  <2>3. RecordsMatch'
    BY <1>4, Facts
    DEF PrefetchUrls, Begin, IInv, TypeOK, StagesFollow, RecordsMatch, LooksComplete
  <2>4. ServedIsSound'
    BY <1>4, Facts
    DEF PrefetchUrls, Begin, IInv, TypeOK, StagesFollow, RecordsMatch,
        ServedIsSound, MappedIsSound, Sound, LooksComplete
  <2>5. MappedIsSound'
    BY <1>4, Facts
    DEF PrefetchUrls, Begin, IInv, TypeOK, StagesFollow, RecordsMatch,
        MappedIsSound, Sound, LooksComplete
  <2> QED BY <2>1, <2>2, <2>3, <2>4, <2>5 DEF IInv
<1> QED BY <1>1, <1>2, <1>3, <1>4

(* What the origin answers. *)
LEMMA AnswersKeepIInv ==
    ASSUME IInv, NotModified \/ Answered \/ WriteBody \/ FetchFails
    PROVE  IInv'
<1>1. CASE NotModified
  <2>1. TypeOK'
    BY <1>1, Facts, RecordFacts DEF NotModified, Validates, Succeed, IInv, TypeOK
  <2>2. StagesFollow'
    BY <1>1, Facts, RecordFacts
    DEF NotModified, Validates, Succeed, IInv, TypeOK, StagesFollow, LooksComplete
  <2>3. RecordsMatch'
    BY <1>1, Facts, RecordFacts
    DEF NotModified, Validates, Succeed, IInv, TypeOK, StagesFollow, RecordsMatch,
        LooksComplete
  <2>4. ServedIsSound'
    BY <1>1, Facts, RecordFacts
    DEF NotModified, Validates, Succeed, IInv, TypeOK, StagesFollow, RecordsMatch,
        ServedIsSound, MappedIsSound, Sound, LooksComplete
  <2>5. MappedIsSound'
    BY <1>1, Facts, RecordFacts
    DEF NotModified, Validates, Succeed, IInv, TypeOK, StagesFollow, RecordsMatch,
        MappedIsSound, Sound, LooksComplete
  <2> QED BY <2>1, <2>2, <2>3, <2>4, <2>5 DEF IInv
<1>2. CASE Answered
  <2>1. TypeOK'
    BY <1>2, Facts DEF Answered, Validates, IInv, TypeOK
  <2>2. StagesFollow'
    BY <1>2, Facts DEF Answered, Validates, IInv, TypeOK, StagesFollow, LooksComplete
  <2>3. RecordsMatch'
    BY <1>2, Facts
    DEF Answered, Validates, IInv, TypeOK, StagesFollow, RecordsMatch, LooksComplete
  <2>4. ServedIsSound'
    BY <1>2, Facts
    DEF Answered, Validates, IInv, TypeOK, StagesFollow, RecordsMatch,
        ServedIsSound, MappedIsSound, Sound, LooksComplete
  <2>5. MappedIsSound'
    BY <1>2, Facts
    DEF Answered, Validates, IInv, TypeOK, StagesFollow, RecordsMatch,
        MappedIsSound, Sound, LooksComplete
  <2> QED BY <2>1, <2>2, <2>3, <2>4, <2>5 DEF IInv
<1>3. CASE WriteBody
  <2>1. TypeOK'
    BY <1>3, Facts DEF WriteBody, IInv, TypeOK
  <2>2. StagesFollow'
    BY <1>3, Facts DEF WriteBody, IInv, TypeOK, StagesFollow, LooksComplete
  <2>3. RecordsMatch'
    BY <1>3, Facts
    DEF WriteBody, IInv, TypeOK, StagesFollow, RecordsMatch, LooksComplete
  <2>4. ServedIsSound'
    BY <1>3, Facts
    DEF WriteBody, IInv, TypeOK, StagesFollow, RecordsMatch, ServedIsSound,
        MappedIsSound, Sound, LooksComplete
  <2>5. MappedIsSound'
    BY <1>3, Facts
    DEF WriteBody, IInv, TypeOK, StagesFollow, RecordsMatch, MappedIsSound, Sound,
        LooksComplete
  <2> QED BY <2>1, <2>2, <2>3, <2>4, <2>5 DEF IInv
<1>4. CASE FetchFails
  <2>1. TypeOK'
    BY <1>4, Facts DEF FetchFails, Succeed, IInv, TypeOK
  <2>2. StagesFollow'
    BY <1>4, Facts DEF FetchFails, Succeed, IInv, TypeOK, StagesFollow, LooksComplete
  <2>3. RecordsMatch'
    BY <1>4, Facts
    DEF FetchFails, Succeed, IInv, TypeOK, StagesFollow, RecordsMatch, LooksComplete
  <2>4. ServedIsSound'
    BY <1>4, Facts
    DEF FetchFails, Succeed, IInv, TypeOK, StagesFollow, RecordsMatch,
        ServedIsSound, MappedIsSound, Sound, LooksComplete
  <2>5. MappedIsSound'
    BY <1>4, Facts
    DEF FetchFails, Succeed, IInv, TypeOK, StagesFollow, RecordsMatch,
        MappedIsSound, Sound, LooksComplete
  <2> QED BY <2>1, <2>2, <2>3, <2>4, <2>5 DEF IInv
<1> QED BY <1>1, <1>2, <1>3, <1>4

(* The new body and its record. *)
LEMMA PromotionKeepsIInv ==
    ASSUME IInv, RemoveBody \/ Rename \/ PromoteFails \/ Record \/ RecordFails
    PROVE  IInv'
<1>1. CASE RemoveBody
  <2>1. TypeOK'
    BY <1>1, Facts DEF RemoveBody, IInv, TypeOK
  <2>2. StagesFollow'
    BY <1>1, Facts DEF RemoveBody, IInv, TypeOK, StagesFollow, LooksComplete
  <2>3. RecordsMatch'
    BY <1>1, Facts
    DEF RemoveBody, IInv, TypeOK, StagesFollow, RecordsMatch, LooksComplete
  <2>4. ServedIsSound'
    BY <1>1, Facts
    DEF RemoveBody, IInv, TypeOK, StagesFollow, RecordsMatch, ServedIsSound,
        MappedIsSound, Sound, LooksComplete
  <2>5. MappedIsSound'
    BY <1>1, Facts
    DEF RemoveBody, IInv, TypeOK, StagesFollow, RecordsMatch, MappedIsSound, Sound,
        LooksComplete
  <2> QED BY <2>1, <2>2, <2>3, <2>4, <2>5 DEF IInv
<1>2. CASE Rename
  <2>1. TypeOK'
    BY <1>2, Facts DEF Rename, IInv, TypeOK
  <2>2. StagesFollow'
    BY <1>2, Facts DEF Rename, IInv, TypeOK, StagesFollow, LooksComplete
  <2>3. RecordsMatch'
    BY <1>2, Facts DEF Rename, IInv, TypeOK, StagesFollow, RecordsMatch, LooksComplete
  <2>4. ServedIsSound'
    BY <1>2, Facts
    DEF Rename, IInv, TypeOK, StagesFollow, RecordsMatch, ServedIsSound,
        MappedIsSound, Sound, LooksComplete
  <2>5. MappedIsSound'
    BY <1>2, Facts
    DEF Rename, IInv, TypeOK, StagesFollow, RecordsMatch, MappedIsSound, Sound,
        LooksComplete
  <2> QED BY <2>1, <2>2, <2>3, <2>4, <2>5 DEF IInv
<1>3. CASE PromoteFails
  <2>1. TypeOK'
    BY <1>3, Facts DEF PromoteFails, IInv, TypeOK
  <2>2. StagesFollow'
    BY <1>3, Facts DEF PromoteFails, IInv, TypeOK, StagesFollow, LooksComplete
  <2>3. RecordsMatch'
    BY <1>3, Facts
    DEF PromoteFails, IInv, TypeOK, StagesFollow, RecordsMatch, LooksComplete
  <2>4. ServedIsSound'
    BY <1>3, Facts
    DEF PromoteFails, IInv, TypeOK, StagesFollow, RecordsMatch, ServedIsSound,
        MappedIsSound, Sound, LooksComplete
  <2>5. MappedIsSound'
    BY <1>3, Facts
    DEF PromoteFails, IInv, TypeOK, StagesFollow, RecordsMatch, MappedIsSound,
        Sound, LooksComplete
  <2> QED BY <2>1, <2>2, <2>3, <2>4, <2>5 DEF IInv
<1>4. CASE Record
  <2>1. TypeOK'
    BY <1>4, Facts, RecordFacts DEF Record, Succeed, IInv, TypeOK
  <2>2. StagesFollow'
    BY <1>4, Facts, RecordFacts
    DEF Record, Succeed, IInv, TypeOK, StagesFollow, LooksComplete
  <2>3. RecordsMatch'
    BY <1>4, Facts, RecordFacts
    DEF Record, Succeed, IInv, TypeOK, StagesFollow, RecordsMatch, LooksComplete
  <2>4. ServedIsSound'
    BY <1>4, Facts, RecordFacts
    DEF Record, Succeed, IInv, TypeOK, StagesFollow, RecordsMatch, ServedIsSound,
        MappedIsSound, Sound, LooksComplete
  <2>5. MappedIsSound'
    BY <1>4, Facts, RecordFacts
    DEF Record, Succeed, IInv, TypeOK, StagesFollow, RecordsMatch, MappedIsSound,
        Sound, LooksComplete
  <2> QED BY <2>1, <2>2, <2>3, <2>4, <2>5 DEF IInv
<1>5. CASE RecordFails
  <2>1. TypeOK'
    BY <1>5, Facts DEF RecordFails, Succeed, IInv, TypeOK
  <2>2. StagesFollow'
    BY <1>5, Facts DEF RecordFails, Succeed, IInv, TypeOK, StagesFollow, LooksComplete
  <2>3. RecordsMatch'
    BY <1>5, Facts
    DEF RecordFails, Succeed, IInv, TypeOK, StagesFollow, RecordsMatch,
        LooksComplete
  <2>4. ServedIsSound'
    BY <1>5, Facts
    DEF RecordFails, Succeed, IInv, TypeOK, StagesFollow, RecordsMatch,
        ServedIsSound, MappedIsSound, Sound, LooksComplete
  <2>5. MappedIsSound'
    BY <1>5, Facts
    DEF RecordFails, Succeed, IInv, TypeOK, StagesFollow, RecordsMatch,
        MappedIsSound, Sound, LooksComplete
  <2> QED BY <2>1, <2>2, <2>3, <2>4, <2>5 DEF IInv
<1> QED BY <1>1, <1>2, <1>3, <1>4, <1>5

(* The caller, the end of the process, and the origin. *)
LEMMA OutsideKeepsIInv ==
    ASSUME IInv, ReadFile \/ Crash \/ OriginChanges
    PROVE  IInv'
<1>1. CASE ReadFile
  <2>1. TypeOK'
    BY <1>1, Facts DEF ReadFile, IInv, TypeOK
  <2>2. StagesFollow'
    BY <1>1, Facts DEF ReadFile, IInv, TypeOK, StagesFollow, LooksComplete
  <2>3. RecordsMatch'
    BY <1>1, Facts
    DEF ReadFile, IInv, TypeOK, StagesFollow, RecordsMatch, LooksComplete
  <2>4. ServedIsSound'
    BY <1>1, Facts
    DEF ReadFile, IInv, TypeOK, StagesFollow, RecordsMatch, ServedIsSound,
        MappedIsSound, Sound, LooksComplete
  <2>5. MappedIsSound'
    BY <1>1, Facts
    DEF ReadFile, IInv, TypeOK, StagesFollow, RecordsMatch, MappedIsSound, Sound,
        LooksComplete
  <2> QED BY <2>1, <2>2, <2>3, <2>4, <2>5 DEF IInv
<1>2. CASE Crash
  <2>0. /\ body' \in Files \cup {None} /\ tmp' \in Files \cup {None}
        /\ body' # None => body # None /\ body'.version = body.version
    BY <1>2, Facts DEF Crash, IInv, TypeOK
  <2>m. /\ meta' \in Records \cup {None}
        /\ meta' # None => meta # None /\ meta'.version = meta.version
    BY <1>2, RecordFacts DEF Crash, IInv, TypeOK
  <2>u. unrecorded' = (unrecorded \/ pc = "record") /\ pc' = "idle" /\ mapped' = FALSE
    BY <1>2 DEF Crash
  <2>1. TypeOK'
    <3>1. unrecorded' \in BOOLEAN
      BY <2>u
    <3> QED BY <1>2, <2>0, <2>m, <3>1 DEF Crash, IInv, TypeOK
  <2>2. StagesFollow'
    BY <2>u DEF StagesFollow
  <2>3. RecordsMatch'
    BY <2>0, <2>m, <2>u DEF IInv, RecordsMatch
  <2>4. ServedIsSound'
    BY <2>u DEF ServedIsSound
  <2>5. MappedIsSound'
    BY <2>u DEF MappedIsSound
  <2> QED BY <2>1, <2>2, <2>3, <2>4, <2>5 DEF IInv
<1>3. CASE OriginChanges
  <2>1. TypeOK'
    BY <1>3, Facts DEF OriginChanges, IInv, TypeOK
  <2>2. StagesFollow'
    BY <1>3, Facts DEF OriginChanges, IInv, TypeOK, StagesFollow, LooksComplete
  <2>3. RecordsMatch'
    BY <1>3, Facts
    DEF OriginChanges, IInv, TypeOK, StagesFollow, RecordsMatch, LooksComplete
  <2>4. ServedIsSound'
    BY <1>3, Facts
    DEF OriginChanges, IInv, TypeOK, StagesFollow, RecordsMatch, ServedIsSound,
        MappedIsSound, Sound, LooksComplete
  <2>5. MappedIsSound'
    BY <1>3, Facts
    DEF OriginChanges, IInv, TypeOK, StagesFollow, RecordsMatch, MappedIsSound,
        Sound, LooksComplete
  <2> QED BY <2>1, <2>2, <2>3, <2>4, <2>5 DEF IInv
<1> QED BY <1>1, <1>2, <1>3

LEMMA InitIInv == Init => IInv
BY DEF Init, IInv, TypeOK, StagesFollow, RecordsMatch, ServedIsSound, MappedIsSound

LEMMA NextKeepsIInv == IInv /\ [Next]_vars => IInv'
<1>1. ASSUME IInv, UNCHANGED vars PROVE IInv'
  BY <1>1
  DEF vars, IInv, TypeOK, StagesFollow, RecordsMatch, ServedIsSound, MappedIsSound,
      Sound, LooksComplete
<1> QED BY <1>1, BeginKeepsIInv, AnswersKeepIInv, PromotionKeepsIInv, OutsideKeepsIInv
        DEF Next, Fetch

(* The inductive invariant holds in every reachable state. *)
THEOREM Invariance == Spec => []IInv
BY InitIInv, NextKeepsIInv, PTL DEF Spec

(* Every variable keeps its type. *)
THEOREM TypeCorrect == Spec => []TypeOK
<1>1. IInv => TypeOK
  BY DEF IInv
<1> QED BY <1>1, Invariance, PTL

(* ensureLocalFile: a file that is opened is as the origin sent it in this fetch,   *)
(* but for what its closing lost unnoticed; or it was there before, is whole if its *)
(* record had the length and, but for a body whose record was not replaced, is what *)
(* the origin confirmed or once validated.                                          *)
THEOREM ServedFilesAreSound == Spec => []ServedIsSound
<1>1. IInv => ServedIsSound
  BY DEF IInv
<1> QED BY <1>1, Invariance, PTL

(* ensureLocalFile, a URL in m_url_to_local: so is a file that is asked for again.  *)
THEOREM MappedFilesAreSound == Spec => []MappedIsSound
<1>1. IInv => MappedIsSound
  BY DEF IInv
<1> QED BY <1>1, Invariance, PTL
=============================================================================
