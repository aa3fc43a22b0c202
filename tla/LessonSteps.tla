----------------------------- MODULE LessonSteps -----------------------------
(***************************************************************************)
(* What is said of several lessons at once and proved in LessonProofs: of   *)
(* the hash table and the ring buffer, that they hold what their callers    *)
(* stored, and of single steps of three lessons, what they keep.           *)
(***************************************************************************)
EXTENDS WebhookDelivery, OpenAddressing, RingQueue, AnswerSearch

(* After every sequence of calls the hash table is the map that the calls   *)
(* describe and has room for a new key, and the ring buffer is the line,    *)
(* wherever its head and its tail are.                                     *)
StructuresHold == LookupIsTheMap /\ RoomIsLeft /\ RingHoldsTheLine

(* What single steps keep: the map of deliveries is swept, players are      *)
(* matched in the order of their arrival, and a search's range narrows.     *)
StepsKeepOrder == HistoryIsSwept /\ MatchedInOrder /\ RangeShrinks
=============================================================================
