--------------------------- MODULE TourStoreProofs ---------------------------
(***************************************************************************)
(* Proofs about TourStore, for any set of requests and any bounds: what is *)
(* stored; then that what the handlers answer holds, and that they         *)
(* implement TourLibrary, for any number of rejected calls and stopped     *)
(* instances, while a call that rejects was not applied.                   *)
(***************************************************************************)
EXTENDS TourStore, FiniteSetTheorems, TLAPS

-----------------------------------------------------------------------------
(* Types of the parts the handlers are built from. *)

\* The names of a tour's or a photo's files are files.
LEMMA FileTypes ==
  ASSUME NEW r \in Request
  PROVE  Files(r) \subseteq File /\ Variants(r) \subseteq File
BY DEF Files, Variants, File

\* A blank and a new tour document are documents.
LEMMA DocTypes ==
  ASSUME NEW t \in Request
  PROVE  Blank(t) \in Doc /\ NewDoc(t) \in Doc
BY DEF Blank, NewDoc, Doc

\* Everything a DeleteTour names is a file.
LEMMA FilesOfType ==
  ASSUME NEW t \in Request, NEW d \in Doc
  PROVE  FilesOf(t, d) \subseteq File
BY FileTypes DEF FilesOf, Doc

\* How a handler goes on keeps the type of its state.
LEMMA ContinuationTypes ==
  ASSUME TypeOK, NEW r \in Request
  PROVE  /\ \A pc \in Pc : Goto(r, pc) => call' \in [Request -> Call]
         /\ \A a \in Answer : Finish(r, a) => call' \in [Request -> Call]
         /\ \A a \in Answer, f \in SUBSET File :
              DeleteThen(r, f, a) => call' \in [Request -> Call]
         /\ Reject(r) => call' \in [Request -> Call]
<1>1. call \in [Request -> Call] /\ call[r] \in Call
  BY DEF TypeOK
<1>2. ASSUME NEW pc \in Pc, Goto(r, pc) PROVE call' \in [Request -> Call]
  BY <1>1, <1>2 DEF Goto, Call
<1>3. ASSUME NEW a \in Answer, Finish(r, a) PROVE call' \in [Request -> Call]
  <2>1. Finished(r, a) \in Call
    BY <1>1, DocTypes DEF Finished, Call, Pc
  <2>2. QED BY <1>1, <1>3, <2>1 DEF Finish
<1>4. ASSUME NEW a \in Answer, NEW f \in SUBSET File, DeleteThen(r, f, a)
      PROVE  call' \in [Request -> Call]
  <2> DEFINE c == [call[r] EXCEPT !.pc = "deleting", !.current = Blank(r), !.attempt = 0,
                                  !.todo = f, !.answer = a]
  <2>1. c \in Call
    BY <1>1, DocTypes DEF Call, Pc
  <2>2. call' = [call EXCEPT ![r] = c]
    BY <1>4 DEF DeleteThen
  <2>3. QED BY <1>1, <2>1, <2>2
<1>5. Undo(r) \subseteq File
  BY FileTypes DEF Undo, File
<1>6. "failed" \in Answer
  BY DEF Answer
<1>7. ASSUME Reject(r) PROVE call' \in [Request -> Call]
  BY <1>3, <1>4, <1>5, <1>6, <1>7 DEF Reject
<1>8. QED BY <1>2, <1>3, <1>4, <1>7

-----------------------------------------------------------------------------
(* Type correctness. *)

\* A storage call that settles keeps the type of the handler's state.
LEMMA SettledTypes ==
  ASSUME TypeOK, NEW r \in Request, NEW x \in File, NEW a \in Answer
  PROVE  /\ VariantSettled(r, x, a) => call' \in [Request -> Call]
         /\ FileSettled(r, x, a) => call' \in [Request -> Call]
<1> DEFINE left == call[r].todo \ {x}
<1>1. call \in [Request -> Call] /\ call[r] \in Call /\ left \in SUBSET File
  BY DEF TypeOK, Call
<1>2. "failed" \in Answer /\ "append" \in Pc
  BY DEF Answer, Pc
<1>3. ASSUME VariantSettled(r, x, a) PROVE call' \in [Request -> Call]
  <2>1. CASE left # {}
    BY <1>1, <1>3, <2>1 DEF VariantSettled, Call
  <2>2. CASE left = {} /\ a = "failed"
    BY <1>2, <1>3, <2>2, ContinuationTypes, FileTypes DEF VariantSettled
  <2>3. CASE left = {} /\ a # "failed"
    BY <1>1, <1>2, <1>3, <2>3 DEF VariantSettled, Call
  <2>4. QED BY <2>1, <2>2, <2>3
<1>4. ASSUME FileSettled(r, x, a) PROVE call' \in [Request -> Call]
  <2>1. CASE left # {}
    BY <1>1, <1>4, <2>1 DEF FileSettled, Call
  <2>2. CASE left = {}
    BY <1>4, <2>2, ContinuationTypes DEF FileSettled
  <2>3. QED BY <2>1, <2>2
<1>5. QED BY <1>3, <1>4

\* A handler that begins, served or refused, is in a typed state.
LEMMA BeginTypes ==
  ASSUME TypeOK, NEW r \in Request, NEW t \in Request, NEW i \in Request,
         NEW op \in Op, NEW pc \in Pc, NEW todo \in SUBSET File
  PROVE  /\ Admitted(r, op, pc, t, i, todo) => call' \in [Request -> Call]
         /\ Refused(r, op, t, i) => call' \in [Request -> Call]
<1>1. call \in [Request -> Call] /\ call[r] \in Call /\ doc[t] \in Doc
  BY DEF TypeOK
<1>2. "done" \in Pc /\ "none" \in Answer /\ "refused" \in Answer
  BY DEF Pc, Answer
<1>3. ASSUME Admitted(r, op, pc, t, i, todo) PROVE call' \in [Request -> Call]
  BY <1>1, <1>2, <1>3 DEF Admitted, Call
<1>4. ASSUME Refused(r, op, t, i) PROVE call' \in [Request -> Call]
  BY <1>1, <1>2, <1>4 DEF Refused, Call
<1>5. QED BY <1>3, <1>4

\* A write of an existing document keeps the documents typed.
LEMMA WriteType ==
  ASSUME TypeOK, NEW t \in Request, NEW d \in Doc, Write(t, d)
  PROVE  doc' \in [Request -> Doc]
BY DEF TypeOK, Write, Doc

\* Each request that begins keeps TypeOK.
LEMMA BeginTypeOK ==
  ASSUME TypeOK, NEW r \in Request, Begin(r)
  PROVE  TypeOK'
<1>1. TourIds \subseteq Request /\ \A t \in Request : ImageIds(t) \subseteq Request
  BY DEF TypeOK, TourIds, ImageIds
<1>2. call' \in [Request -> Call]
  <2>1. CASE BeginUploadTour(r)
    BY <2>1, BeginTypes DEF BeginUploadTour, Op, Pc
  <2>2. CASE \E t \in TourIds : BeginUploadImage(r, t)
    BY <1>1, <2>2, BeginTypes, FileTypes DEF BeginUploadImage, Op, Pc
  <2>3. CASE \E t \in TourIds : BeginEditTour(r, t)
    BY <1>1, <2>3, BeginTypes DEF BeginEditTour, Op, Pc
  <2>4. CASE \E t \in TourIds : BeginDeleteTour(r, t)
    BY <1>1, <2>4, BeginTypes DEF BeginDeleteTour, Op, Pc
  <2>5. CASE \E t \in TourIds : \E i \in ImageIds(t) : BeginDeleteImage(r, t, i)
    <3>1. PICK t \in TourIds : \E i \in ImageIds(t) : BeginDeleteImage(r, t, i)
      BY <2>5
    <3>2. PICK i \in ImageIds(t) : BeginDeleteImage(r, t, i)
      BY <3>1
    <3>3. t \in Request /\ i \in Request
      BY <1>1
    <3>4. QED BY <3>2, <3>3, BeginTypes DEF BeginDeleteImage, Op, Pc
  <2>6. QED BY <2>1, <2>2, <2>3, <2>4, <2>5 DEF Begin
<1>3. UNCHANGED <<tours, doc, stored, landed, abandoned>>
  BY DEF Begin, BeginUploadTour, BeginUploadImage, BeginEditTour, BeginDeleteTour,
         BeginDeleteImage
<1>4. QED BY <1>2, <1>3 DEF TypeOK

\* Each step of a handler keeps TypeOK.
LEMMA StepTypeOK ==
  ASSUME TypeOK, NEW r \in Request, Step(r)
  PROVE  TypeOK'
<1> DEFINE t == call[r].tour
<1>1. /\ call \in [Request -> Call] /\ call[r] \in Call /\ doc \in [Request -> Doc]
      /\ t \in Request /\ call[r].image \in Request /\ doc[t] \in Doc
      /\ call[r].current \in Doc /\ call[r].answer \in Answer
  BY DEF TypeOK, Call
<1>2. {"ok", "failed", "refused", "crashed"} \subseteq Answer
  BY DEF Answer
<1>3. <<"gpx", r>> \in File /\ <<"track", r>> \in File
  BY DEF File
<1>4. CASE StoreGpx(r)
  BY <1>3, <1>4, ContinuationTypes DEF StoreGpx, AnswerLost, TypeOK, Pc
<1>5. CASE CreateTrack(r)
  BY <1>3, <1>5, ContinuationTypes DEF CreateTrack, AnswerLost, TypeOK, Pc
<1>6. CASE CreateTour(r)
  BY <1>2, <1>6, ContinuationTypes, DocTypes DEF CreateTour, AnswerLost, TypeOK
<1>7. CASE \E x \in File : StoreVariant(r, x)
  BY <1>1, <1>2, <1>7, SettledTypes DEF StoreVariant, TypeOK
<1>8. CASE Append(r)
  <2>1. [doc[t] EXCEPT !.images = @ \cup {r}] \in Doc
    BY <1>1 DEF Doc
  <2>2. doc' \in [Request -> Doc]
    BY <1>1, <1>8, <2>1, WriteType DEF Append
  <2>3. QED BY <1>2, <1>8, <2>2, ContinuationTypes DEF Append, AnswerLost, TypeOK
<1>9. CASE AppendRefused(r)
  <2>1. CASE call' = [call EXCEPT ![r].pc = "rereadToAppend", ![r].attempt = @ + 1]
    BY <1>1, <1>9, <2>1 DEF AppendRefused, TypeOK, Call, Pc
  <2>2. CASE DeleteThen(r, Variants(r), "refused") \/ Reject(r)
    BY <1>2, <1>9, <2>2, ContinuationTypes, FileTypes DEF AppendRefused, TypeOK
  <2>3. QED BY <1>9, <2>1, <2>2 DEF AppendRefused
<1>10. CASE RereadToAppend(r)
  <2>1. CASE call' = [call EXCEPT ![r].pc = "append", ![r].current = doc[t]]
    BY <1>1, <1>10, <2>1 DEF RereadToAppend, TypeOK, Call, Pc
  <2>2. CASE DeleteThen(r, Variants(r), "refused")
    BY <1>2, <1>10, <2>2, ContinuationTypes, FileTypes DEF RereadToAppend, TypeOK
  <2>3. QED BY <1>10, <2>1, <2>2 DEF RereadToAppend
<1>11. CASE Patch(r)
  <2>1. [doc[t] EXCEPT !.details = r] \in Doc
    BY <1>1 DEF Doc
  <2>2. doc' \in [Request -> Doc]
    BY <1>1, <1>11, <2>1, WriteType DEF Patch
  <2>3. QED BY <1>2, <1>11, <2>2, ContinuationTypes DEF Patch, AnswerLost, TypeOK
<1>12. CASE PatchMissed(r)
  BY <1>12, ContinuationTypes DEF PatchMissed, TypeOK
<1>13. CASE Replace(r)
  <2>1. WithoutImage(call[r].current, call[r].image) \in Doc
    BY <1>1 DEF WithoutImage, Doc
  <2>2. doc' \in [Request -> Doc]
    BY <1>1, <1>13, <2>1, WriteType DEF Replace
  <2>3. Variants(call[r].image) \subseteq File
    BY <1>1, FileTypes
  <2>4. QED BY <1>2, <1>13, <2>2, <2>3, ContinuationTypes DEF Replace, AnswerLost, TypeOK
<1>14. CASE ReplaceRefused(r)
  <2>1. CASE call' = [call EXCEPT ![r].pc = "rereadToReplace", ![r].attempt = @ + 1]
    BY <1>1, <1>14, <2>1 DEF ReplaceRefused, TypeOK, Call, Pc
  <2>2. CASE Reject(r)
    BY <1>14, <2>2, ContinuationTypes DEF ReplaceRefused, TypeOK
  <2>3. QED BY <1>14, <2>1, <2>2 DEF ReplaceRefused
<1>15. CASE RereadToReplace(r)
  <2>1. CASE call' = [call EXCEPT ![r].pc = "replace", ![r].current = doc[t]]
    BY <1>1, <1>15, <2>1 DEF RereadToReplace, TypeOK, Call, Pc
  <2>2. CASE Finish(r, "refused")
    BY <1>2, <1>15, <2>2, ContinuationTypes DEF RereadToReplace, TypeOK
  <2>3. QED BY <1>15, <2>1, <2>2 DEF RereadToReplace
<1>16. CASE DeleteDoc(r)
  <2>1. doc' \in [Request -> Doc] /\ tours' \subseteq Request /\ landed' \subseteq Request
    BY <1>1, <1>16, DocTypes DEF DeleteDoc, TypeOK
  <2>2. FilesOf(t, call[r].current) \subseteq File
    BY <1>1, FilesOfType
  <2>3. \A i \in doc[t].images : Variants(i) \subseteq File
    BY <1>1, FileTypes DEF Doc
  <2>4. abandoned' \subseteq File
    BY <1>16, <2>3 DEF DeleteDoc, TypeOK
  <2>5. QED BY <1>2, <1>16, <2>1, <2>2, <2>4, ContinuationTypes DEF DeleteDoc, AnswerLost, TypeOK
<1>17. CASE DeleteDocMissed(r)
  BY <1>17, ContinuationTypes DEF DeleteDocMissed, TypeOK
<1>18. CASE \E x \in File : DeleteFile(r, x)
  BY <1>1, <1>2, <1>18, SettledTypes DEF DeleteFile, TypeOK
<1>19. CASE CallRejects(r)
  BY <1>19, ContinuationTypes DEF CallRejects, TypeOK
<1>20. CASE Crash(r)
  <2>1. Held(r) \subseteq File
    BY <1>1, FileTypes DEF Held, Call, File, Files
  <2> QED BY <1>2, <1>20, <2>1, ContinuationTypes DEF Crash, TypeOK
<1>21. QED BY <1>4, <1>5, <1>6, <1>7, <1>8, <1>9, <1>10, <1>11, <1>12, <1>13, <1>14, <1>15,
              <1>16, <1>17, <1>18, <1>19, <1>20 DEF Step

\* The empty store and the idle handlers are well formed.
LEMMA InitTypeOK == Init => TypeOK
<1> SUFFICES ASSUME Init PROVE TypeOK
  OBVIOUS
<1>1. doc \in [Request -> Doc]
  BY DocTypes DEF Init
<1>2. call \in [Request -> Call]
  BY DocTypes DEF Init, Call, Op, Pc, Answer
<1>3. QED BY <1>1, <1>2 DEF Init, TypeOK

\* The state of the store and of every handler stays well formed, whatever the faults.
THEOREM TypeCorrect == Spec => []TypeOK
<1>1. Init => TypeOK
  BY InitTypeOK
<1>2. TypeOK /\ [Next]_vars => TypeOK'
  <2> SUFFICES ASSUME TypeOK, [Next]_vars PROVE TypeOK'
    OBVIOUS
  <2>1. CASE UNCHANGED vars
    BY <2>1 DEF vars, TypeOK
  <2>2. CASE Next
    BY <2>1, <2>2, BeginTypeOK, StepTypeOK DEF Next, Rest
  <2>3. QED BY <2>1, <2>2
<1>3. QED BY <1>1, <1>2, PTL DEF Spec

-----------------------------------------------------------------------------
(* TourWhole and NoDeadEntry. *)

\* The other handlers are where they were, and request r is about what it was about.
Frame(r) ==
  /\ \A d \in Request \ {r} : call'[d] = call[d]
  /\ call'[r].op = call[r].op /\ call'[r].tour = call[r].tour
  /\ call'[r].image = call[r].image

\* What each way to go on does to the handler's state.
LEMMA ContinuationMoves ==
  ASSUME TypeOK, NEW r \in Request
  PROVE  /\ \A pc \in Pc : Goto(r, pc) =>
              Frame(r) /\ call'[r].pc = pc
         /\ \A a \in Answer : Finish(r, a) =>
              Frame(r) /\ call'[r].pc = "done" /\ call'[r].answer = a
         /\ \A a \in Answer, f \in SUBSET File : DeleteThen(r, f, a) =>
              /\ Frame(r) /\ call'[r].pc = "deleting" /\ call'[r].answer = a
              /\ call'[r].todo = f
         /\ Reject(r) =>
              /\ Frame(r) /\ call'[r].answer = "failed"
              /\ \/ Undo(r) = {} /\ call'[r].pc = "done"
                 \/ call'[r].pc = "deleting" /\ call'[r].todo = Undo(r)
<1>1. call \in [Request -> Call] /\ call[r] \in Call
  BY DEF TypeOK
<1>2. ASSUME NEW pc \in Pc, Goto(r, pc)
      PROVE  Frame(r) /\ call'[r].pc = pc
  BY <1>1, <1>2 DEF Goto, Frame, Call
<1>3. ASSUME NEW a \in Answer, Finish(r, a)
      PROVE  Frame(r) /\ call'[r].pc = "done" /\ call'[r].answer = a
  <2>1. call'[r] = Finished(r, a) /\ \A d \in Request \ {r} : call'[d] = call[d]
    BY <1>1, <1>3 DEF Finish
  <2>2. QED BY <1>1, <2>1 DEF Finished, Frame, Call
<1>4. ASSUME NEW a \in Answer, NEW f \in SUBSET File, DeleteThen(r, f, a)
      PROVE  /\ Frame(r) /\ call'[r].pc = "deleting" /\ call'[r].answer = a
             /\ call'[r].todo = f
  <2> DEFINE c == [call[r] EXCEPT !.pc = "deleting", !.current = Blank(r), !.attempt = 0,
                                  !.todo = f, !.answer = a]
  <2>1. call' = [call EXCEPT ![r] = c]
    BY <1>4 DEF DeleteThen
  <2>2. call'[r] = c /\ \A d \in Request \ {r} : call'[d] = call[d]
    BY <1>1, <2>1
  <2>3. QED BY <1>1, <2>2 DEF Frame, Call
<1>5. "failed" \in Answer /\ Undo(r) \subseteq File
  BY FileTypes DEF Answer, Undo, File
<1>6. QED BY <1>2, <1>3, <1>4, <1>5 DEF Reject

\* What each settled storage call does to the handler's state.
LEMMA SettledMoves ==
  ASSUME TypeOK, NEW r \in Request, NEW x \in File, NEW a \in Answer
  PROVE  /\ VariantSettled(r, x, a) =>
              /\ Frame(r)
              /\ \/ /\ call'[r].pc = call[r].pc /\ call'[r].answer = a
                    /\ call'[r].todo = call[r].todo \ {x}
                    /\ call'[r].current = call[r].current
                 \/ /\ call'[r].pc = "deleting" /\ call'[r].todo = Variants(r)
                 \/ /\ call'[r].pc = "append" /\ call[r].todo \subseteq {x} /\ a # "failed"
                    /\ call'[r].current = call[r].current
         /\ FileSettled(r, x, a) =>
              /\ Frame(r)
              /\ \/ call'[r].pc = "done"
                 \/ call'[r].pc = call[r].pc /\ call'[r].todo = call[r].todo \ {x}
<1> DEFINE left == call[r].todo \ {x}
<1>1. call \in [Request -> Call] /\ call[r] \in Call /\ left \in SUBSET File
  BY DEF TypeOK, Call
<1>2. "failed" \in Answer
  BY DEF Answer
<1>3. ASSUME VariantSettled(r, x, a), left # {}
      PROVE  /\ Frame(r) /\ call'[r].pc = call[r].pc /\ call'[r].answer = a
             /\ call'[r].todo = left /\ call'[r].current = call[r].current
  BY <1>1, <1>3 DEF VariantSettled, Frame, Call
<1>4. ASSUME VariantSettled(r, x, a), left = {}, a = "failed"
      PROVE  Frame(r) /\ call'[r].pc = "deleting" /\ call'[r].todo = Variants(r)
  BY <1>2, <1>4, ContinuationMoves, FileTypes DEF VariantSettled
<1>5. ASSUME VariantSettled(r, x, a), left = {}, a # "failed"
      PROVE  Frame(r) /\ call'[r].pc = "append" /\ call'[r].current = call[r].current
  BY <1>1, <1>5 DEF VariantSettled, Frame, Call
<1>6. ASSUME FileSettled(r, x, a), left # {}
      PROVE  Frame(r) /\ call'[r].pc = call[r].pc /\ call'[r].todo = left
  BY <1>1, <1>6 DEF FileSettled, Frame, Call
<1>7. ASSUME FileSettled(r, x, a), left = {}
      PROVE  Frame(r) /\ call'[r].pc = "done"
  BY <1>7, ContinuationMoves DEF FileSettled
<1>8. QED BY <1>3, <1>4, <1>5, <1>6, <1>7

\* A step moves one handler that was under way, and one that deletes goes on deleting or is done.
LEMMA StepMoves ==
  ASSUME TypeOK, NEW r \in Request, Step(r)
  PROVE  /\ Frame(r)
         /\ call[r].pc \notin {"idle", "done"}
         /\ call[r].pc = "deleting" => call'[r].pc \in {"deleting", "done"}
<1>1. call \in [Request -> Call] /\ call[r] \in Call /\ call[r].answer \in Answer
  BY DEF TypeOK, Call
<1>2. {"ok", "failed", "refused", "crashed"} \subseteq Answer
  BY DEF Answer
<1>3. {"createTrack", "createTour"} \subseteq Pc
  BY DEF Pc
<1>4. CASE StoreGpx(r)
  BY <1>1, <1>2, <1>3, <1>4, ContinuationMoves DEF StoreGpx, AnswerLost
<1>5. CASE CreateTrack(r)
  BY <1>1, <1>2, <1>3, <1>5, ContinuationMoves DEF CreateTrack, AnswerLost
<1>6. CASE CreateTour(r)
  BY <1>1, <1>2, <1>3, <1>6, ContinuationMoves DEF CreateTour, AnswerLost
<1>7. CASE Append(r)
  BY <1>1, <1>2, <1>3, <1>7, ContinuationMoves DEF Append, AnswerLost
<1>8. CASE AppendRefused(r)
  BY <1>1, <1>2, <1>3, <1>8, ContinuationMoves, FileTypes DEF AppendRefused, Frame, Call
<1>9. CASE RereadToAppend(r)
  BY <1>1, <1>2, <1>3, <1>9, ContinuationMoves, FileTypes DEF RereadToAppend, Frame, Call
<1>10. CASE Patch(r)
  BY <1>1, <1>2, <1>3, <1>10, ContinuationMoves DEF Patch, AnswerLost
<1>11. CASE PatchMissed(r)
  BY <1>1, <1>2, <1>3, <1>11, ContinuationMoves DEF PatchMissed
<1>12. CASE Replace(r)
  BY <1>1, <1>2, <1>3, <1>12, ContinuationMoves, FileTypes DEF Replace, AnswerLost, Call, TypeOK
<1>13. CASE ReplaceRefused(r)
  BY <1>1, <1>2, <1>3, <1>13, ContinuationMoves DEF ReplaceRefused, Frame, Call
<1>14. CASE RereadToReplace(r)
  BY <1>1, <1>2, <1>3, <1>14, ContinuationMoves DEF RereadToReplace, Frame, Call
<1>15. CASE DeleteDoc(r)
  BY <1>1, <1>2, <1>3, <1>15, ContinuationMoves, FilesOfType DEF DeleteDoc, AnswerLost, Call, TypeOK
<1>16. CASE DeleteDocMissed(r)
  BY <1>1, <1>2, <1>3, <1>16, ContinuationMoves DEF DeleteDocMissed
<1>17. CASE CallRejects(r)
  BY <1>1, <1>2, <1>3, <1>17, ContinuationMoves DEF CallRejects, Pc
<1>18. CASE Crash(r)
  BY <1>1, <1>2, <1>3, <1>18, ContinuationMoves DEF Crash
<1>19. CASE \E x \in File : StoreVariant(r, x)
  BY <1>1, <1>2, <1>19, SettledMoves DEF StoreVariant
<1>20. CASE \E x \in File : DeleteFile(r, x)
  BY <1>1, <1>2, <1>20, SettledMoves DEF DeleteFile
<1>21. QED BY <1>4, <1>5, <1>6, <1>7, <1>8, <1>9, <1>10, <1>11, <1>12, <1>13, <1>14, <1>15, <1>16, <1>17, <1>18, <1>19, <1>20 DEF Step

\* A step that changes one handler's state, and at most adds files, keeps StoreInv if that handler is
\* left in a state it allows: nobody's claims rest on a handler that is not done.
LEMMA CallOnlyKeeps ==
  ASSUME StoreInv, TypeOK', NEW r \in Request,
         UNCHANGED <<tours, doc>>, stored \subseteq stored',
         \A d \in Request \ {r} : call'[d] = call[d],
         call[r].pc # "done",
         call[r].pc = "deleting" => call'[r].pc \in {"deleting", "done"},
         HandlerInv(r)'
  PROVE  StoreInv'
<1>1. \A d \in Request : call[d].pc = "done" => call'[d] = call[d]
  OBVIOUS
<1>2. \A d \in Request : call[d].pc \in {"deleting", "done"} =>
                           call'[d].pc \in {"deleting", "done"}
  OBVIOUS
<1>3. ToursUploaded' /\ EntriesUploaded'
  BY <1>1 DEF StoreInv, TypeOK, Doc, ToursUploaded, EntriesUploaded, Uploaded
<1>4. TourWhole' /\ NoDeadEntry'
  BY DEF StoreInv, TourWhole, NoDeadEntry
<1>5. ASSUME NEW d \in Request \ {r} PROVE HandlerInv(d)'
  <2>1. call'[d] = call[d] /\ HandlerInv(d) /\ call[d] \in Call
    BY DEF StoreInv, TypeOK
  <2>2. TourFilesStored(d)' /\ VariantsStored(d)'
    BY <2>1 DEF HandlerInv, TourFilesStored, VariantsStored
  <2>3. HeldTour(d)'
    BY <1>1, <2>1 DEF HandlerInv, HeldTour, Uploaded, Call, Doc
  <2>4. DeletesUnreferenced(d)'
    BY <1>2, <2>1 DEF HandlerInv, DeletesUnreferenced, Unreferenced, Call, File
  <2>5. QED BY <2>2, <2>3, <2>4 DEF HandlerInv
<1>6. QED BY <1>3, <1>4, <1>5 DEF StoreInv

\* Each request that begins keeps StoreInv.
LEMMA BeginKeeps ==
  ASSUME StoreInv, NEW r \in Request, Begin(r)
  PROVE  StoreInv'
<1>1. TypeOK /\ TypeOK'
  BY BeginTypeOK DEF StoreInv
<1>2. call \in [Request -> Call] /\ call[r].pc = "idle"
  BY <1>1 DEF TypeOK, Begin, BeginUploadTour, BeginUploadImage, BeginEditTour, BeginDeleteTour,
              BeginDeleteImage, Idle
<1>3. UNCHANGED <<tours, doc, stored>>
  BY DEF Begin, BeginUploadTour, BeginUploadImage, BeginEditTour, BeginDeleteTour,
         BeginDeleteImage
<1>4. ASSUME NEW op, NEW t, NEW i, Refused(r, op, t, i)
      PROVE  (\A d \in Request \ {r} : call'[d] = call[d]) /\ HandlerInv(r)'
  <2>1. (\A d \in Request \ {r} : call'[d] = call[d]) /\ call'[r].pc = "done"
    BY <1>2, <1>4 DEF Refused, Call
  <2>2. QED BY <2>1 DEF HandlerInv, TourFilesStored, VariantsStored, HeldTour, HoldingPc,
                       DeletesUnreferenced
<1>5. ASSUME NEW op \in Op, NEW t \in tours, NEW i \in Request,
             NEW pc \in {"storeVariants", "patch", "replace", "deleteDoc"},
             NEW todo \in SUBSET File,
             Admitted(r, op, pc, t, i, todo),
             pc = "storeVariants" => todo = Variants(r),
             pc = "replace" => i \in doc[t].images
      PROVE  (\A d \in Request \ {r} : call'[d] = call[d]) /\ HandlerInv(r)'
  <2>1. /\ \A d \in Request \ {r} : call'[d] = call[d]
        /\ call'[r].pc = pc /\ call'[r].tour = t /\ call'[r].image = i
        /\ call'[r].current = doc[t] /\ call'[r].todo = todo
    BY <1>2, <1>5 DEF Admitted
  <2>2. t \in Request /\ doc[t] \in Doc /\ call[t].pc = "done" /\ t # r
    BY <1>1, <1>2 DEF StoreInv, ToursUploaded, TypeOK
  <2>3. \A j \in doc[t].images : j \in Request /\ j # r /\ Uploaded(j, t)
    BY <1>2, <2>2 DEF StoreInv, EntriesUploaded, Uploaded, Doc
  <2>4. HeldTour(r)'
    BY <1>3, <1>5, <2>1, <2>2, <2>3 DEF HeldTour, Uploaded, Doc
  <2>5. TourFilesStored(r)' /\ VariantsStored(r)' /\ DeletesUnreferenced(r)'
    BY <1>5, <2>1 DEF TourFilesStored, VariantsStored, DeletesUnreferenced
  <2>6. QED BY <2>1, <2>4, <2>5 DEF HandlerInv
<1>6. CASE BeginUploadTour(r)
  <2>1. (\A d \in Request \ {r} : call'[d] = call[d]) /\ call'[r].pc = "storeGpx"
    BY <1>2, <1>6 DEF BeginUploadTour, Admitted
  <2>2. HandlerInv(r)'
    BY <2>1 DEF HandlerInv, TourFilesStored, VariantsStored, HeldTour, HoldingPc,
                DeletesUnreferenced
  <2>3. QED BY <1>1, <1>2, <1>3, <2>1, <2>2, CallOnlyKeeps
<1>7. CASE \E t \in TourIds : BeginUploadImage(r, t) \/ BeginEditTour(r, t) \/ BeginDeleteTour(r, t)
  <2>1. (\A d \in Request \ {r} : call'[d] = call[d]) /\ HandlerInv(r)'
    BY <1>4, <1>5, <1>7, FileTypes
       DEF BeginUploadImage, BeginEditTour, BeginDeleteTour, Op
  <2>2. QED BY <1>1, <1>2, <1>3, <2>1, CallOnlyKeeps
<1>8. CASE \E t \in TourIds : \E i \in ImageIds(t) : BeginDeleteImage(r, t, i)
  <2>1. PICK t \in TourIds : \E i \in ImageIds(t) : BeginDeleteImage(r, t, i)
    BY <1>8
  <2>2. PICK i \in ImageIds(t) : BeginDeleteImage(r, t, i)
    BY <2>1
  <2>3. i \in Request
    BY <1>1 DEF ImageIds, TypeOK
  <2>4. (\A d \in Request \ {r} : call'[d] = call[d]) /\ HandlerInv(r)'
    BY <1>4, <1>5, <2>2, <2>3 DEF BeginDeleteImage, Op
  <2>5. QED BY <1>1, <1>2, <1>3, <2>4, CallOnlyKeeps
<1>9. QED BY <1>6, <1>7, <1>8 DEF Begin

\* A handler that is done, or starts to delete what nothing can come to point at, claims nothing else.
LEMMA SettledHandlers ==
  ASSUME NEW r \in Request,
         \/ call'[r].pc = "done"
         \/ /\ call'[r].pc = "deleting"
            /\ \A x \in call'[r].todo : Unreferenced(x)'
  PROVE  HandlerInv(r)'
BY DEF HandlerInv, TourFilesStored, VariantsStored, HeldTour, HoldingPc, DeletesUnreferenced

\* What an upload rolls back is its own and nothing points at it while the handler is not done.
LEMMA OwnFilesUnreferenced ==
  ASSUME StoreInv, NEW r \in Request, call[r].pc \notin {"idle", "done"},
         UNCHANGED <<tours, doc>>, call'[r].pc = "deleting",
         NEW x \in Files(r) \cup Variants(r)
  PROVE  Unreferenced(x)'
<1>1. x[2] = r /\ r \notin tours
  BY DEF Files, Variants, StoreInv, ToursUploaded
<1>2. \A t \in Request : r \notin doc[t].images
  BY DEF StoreInv, EntriesUploaded, Uploaded
<1>3. QED BY <1>1, <1>2 DEF Unreferenced

\* A rejected call, with its rollback started, keeps StoreInv.
LEMMA RejectKeeps ==
  ASSUME StoreInv, TypeOK', NEW r \in Request, Reject(r),
         call[r].pc \notin {"idle", "deleting", "done"},
         UNCHANGED <<tours, doc>>, stored \subseteq stored'
  PROVE  StoreInv'
<1>1. /\ Frame(r)
      /\ \/ call'[r].pc = "done"
         \/ call'[r].pc = "deleting" /\ call'[r].todo = Undo(r)
  BY ContinuationMoves DEF StoreInv
<1>2. Undo(r) \subseteq Files(r) \cup Variants(r)
  BY DEF Undo, Files, Variants
<1>3. HandlerInv(r)'
  BY <1>1, <1>2, SettledHandlers, OwnFilesUnreferenced
<1>4. QED BY <1>1, <1>3, CallOnlyKeeps DEF Frame

\* A handler that ends, or rolls its photo's blobs back, without a write keeps StoreInv.
LEMMA EndKeeps ==
  ASSUME StoreInv, TypeOK', NEW r \in Request, NEW a \in Answer,
         call[r].pc \notin {"idle", "done"},
         \/ Finish(r, a)
         \/ DeleteThen(r, Variants(r), a) /\ call[r].pc # "deleting",
         UNCHANGED <<tours, doc>>, stored \subseteq stored'
  PROVE  StoreInv'
<1>1. /\ Frame(r)
      /\ \/ call'[r].pc = "done"
         \/ call'[r].pc = "deleting" /\ call'[r].todo = Variants(r)
  BY ContinuationMoves, FileTypes DEF StoreInv
<1>2. HandlerInv(r)'
  BY <1>1, SettledHandlers, OwnFilesUnreferenced
<1>3. QED BY <1>1, <1>2, CallOnlyKeeps DEF Frame

\* The writes of UploadTour before the document keep StoreInv.
LEMMA UploadTourKeeps ==
  ASSUME StoreInv, TypeOK', NEW r \in Request, StoreGpx(r) \/ CreateTrack(r)
  PROVE  StoreInv'
<1>1. TypeOK /\ call \in [Request -> Call] /\ {"createTrack", "createTour"} \subseteq Pc
  BY DEF StoreInv, TypeOK, Pc
<1>2. UNCHANGED <<tours, doc>> /\ stored \subseteq stored' /\ call[r].pc \in {"storeGpx", "createTrack"}
  BY DEF StoreGpx, CreateTrack
<1>3. CASE Reject(r)
  BY <1>2, <1>3, RejectKeeps
<1>4. CASE StoreGpx(r) /\ Goto(r, "createTrack")
  <2>1. Frame(r) /\ call'[r].pc = "createTrack" /\ <<"gpx", r>> \in stored'
    BY <1>1, <1>4, ContinuationMoves DEF StoreGpx
  <2>2. HandlerInv(r)'
    BY <2>1 DEF HandlerInv, TourFilesStored, VariantsStored, HeldTour, HoldingPc,
                DeletesUnreferenced
  <2>3. QED BY <1>2, <2>1, <2>2, CallOnlyKeeps DEF Frame
<1>5. CASE CreateTrack(r) /\ Goto(r, "createTour")
  <2>1. Frame(r) /\ call'[r].pc = "createTour"
    BY <1>1, <1>5, ContinuationMoves DEF CreateTrack
  <2>2. Files(r) \subseteq stored'
    BY <1>5 DEF CreateTrack, Files, StoreInv, HandlerInv, TourFilesStored
  <2>3. HandlerInv(r)'
    BY <2>1, <2>2 DEF HandlerInv, TourFilesStored, VariantsStored, HeldTour, HoldingPc,
                      DeletesUnreferenced
  <2>4. QED BY <1>2, <2>1, <2>3, CallOnlyKeeps DEF Frame
<1>6. QED BY <1>3, <1>4, <1>5 DEF StoreGpx, CreateTrack, AnswerLost

\* The uploads of a photo's blobs keep StoreInv: the append follows only if both were stored.
LEMMA StoreVariantKeeps ==
  ASSUME StoreInv, TypeOK', NEW r \in Request, NEW x \in File, StoreVariant(r, x)
  PROVE  StoreInv'
<1>1. /\ TypeOK /\ call[r] \in Call /\ call[r].answer \in Answer /\ "failed" \in Answer
      /\ HeldTour(r) /\ VariantsStored(r)
  BY DEF StoreInv, TypeOK, Call, Answer, HandlerInv
<1>2. /\ UNCHANGED <<tours, doc>> /\ stored \subseteq stored' /\ call[r].pc = "storeVariants"
      /\ x \in call[r].todo
      /\ \/ VariantSettled(r, x, "failed")
         \/ x \in stored' /\ VariantSettled(r, x, call[r].answer)
  BY DEF StoreVariant
<1>3. Frame(r) /\ call'[r].pc \in {"storeVariants", "append", "deleting"}
  BY <1>1, <1>2, SettledMoves
<1>4. CASE call'[r].pc = "deleting"
  <2>1. call'[r].todo = Variants(r)
    BY <1>1, <1>2, <1>4, SettledMoves
  <2>2. HandlerInv(r)'
    BY <1>2, <1>4, <2>1, SettledHandlers, OwnFilesUnreferenced
  <2>3. QED BY <1>2, <1>3, <2>2, CallOnlyKeeps DEF Frame
<1>5. CASE call'[r].pc # "deleting"
  <2>1. call'[r].current = call[r].current
    BY <1>1, <1>2, <1>5, SettledMoves
  <2>2. HeldTour(r)'
    <3>1. call[call[r].tour].pc = "done" /\ call[r].tour \in Request
      BY <1>1, <1>2 DEF HeldTour, HoldingPc, Call
    <3>2. \A i \in call[r].current.images : i \in Request /\ i # r /\ Uploaded(i, call[r].tour)
      BY <1>1, <1>2 DEF HeldTour, HoldingPc, Call, Doc, Uploaded
    <3>3. QED BY <1>1, <1>2, <1>3, <1>5, <2>1, <3>1, <3>2 DEF HeldTour, HoldingPc, Frame, Uploaded
  <2>3. VariantsStored(r)'
    BY <1>1, <1>2, <1>5, SettledMoves DEF VariantsStored, Call
  <2>4. HandlerInv(r)'
    BY <1>3, <1>5, <2>2, <2>3 DEF HandlerInv, TourFilesStored, DeletesUnreferenced
  <2>5. QED BY <1>2, <1>3, <2>4, CallOnlyKeeps DEF Frame
<1>6. QED BY <1>4, <1>5

\* A handler that still holds the tour it read, in an unchanged store, holds it rightly.
LEMMA StillHolds ==
  ASSUME StoreInv, NEW r \in Request, Frame(r), UNCHANGED <<tours, doc>>,
         call[r].pc \in HoldingPc, call'[r].current = call[r].current,
         call'[r].pc \in {"replace", "rereadToReplace"} => call[r].pc \in {"replace", "rereadToReplace"}
  PROVE  HeldTour(r)'
<1> DEFINE t == call[r].tour
<1>1. HeldTour(r) /\ call[r] \in Call /\ call[r].pc # "done"
  BY DEF StoreInv, TypeOK, HandlerInv, HoldingPc
<1>2. t \in Request /\ call[t].pc = "done" /\ call'[t] = call[t]
  BY <1>1 DEF HeldTour, Call, Frame
<1>3. \A i \in call[r].current.images : Uploaded(i, t) /\ call'[i] = call[i]
  BY <1>1 DEF HeldTour, Call, Doc, Frame, Uploaded
<1>4. call[r].pc \in {"replace", "rereadToReplace"} =>
        Uploaded(call[r].image, t) /\ call'[call[r].image] = call[call[r].image]
  BY <1>1 DEF HeldTour, Call, Frame, Uploaded
<1>5. QED BY <1>1, <1>2, <1>3, <1>4 DEF HeldTour, Frame, Uploaded

\* A handler that reads an existing tour again holds that tour.
LEMMA HoldsAgain ==
  ASSUME StoreInv, NEW r \in Request, Frame(r), UNCHANGED <<tours, doc>>,
         call[r].pc \in HoldingPc, call[r].tour \in tours, call'[r].current = doc[call[r].tour],
         call'[r].pc \in {"replace", "rereadToReplace"} => call[r].pc \in {"replace", "rereadToReplace"}
  PROVE  HeldTour(r)'
<1> DEFINE t == call[r].tour
<1>1. /\ HeldTour(r) /\ call[r] \in Call /\ call[r].pc # "done" /\ t \in Request
      /\ doc[t] \in Doc
  BY DEF StoreInv, TypeOK, HandlerInv, HoldingPc, Call
<1>2. call[t].pc = "done" /\ call'[t] = call[t]
  BY <1>1 DEF HeldTour, Frame
<1>3. \A i \in doc[t].images : Uploaded(i, t) /\ call'[i] = call[i]
  BY <1>1 DEF StoreInv, EntriesUploaded, Uploaded, Doc, Frame
<1>4. call[r].pc \in {"replace", "rereadToReplace"} =>
        Uploaded(call[r].image, t) /\ call'[call[r].image] = call[call[r].image]
  BY <1>1 DEF HeldTour, Call, Frame, Uploaded
<1>5. QED BY <1>1, <1>2, <1>3, <1>4 DEF HeldTour, Frame, Uploaded, Doc

\* The refusals, the rereads and the faults write nothing and keep StoreInv.
LEMMA NoWriteKeeps ==
  ASSUME StoreInv, TypeOK', NEW r \in Request,
         \/ AppendRefused(r) \/ RereadToAppend(r) \/ PatchMissed(r) \/ ReplaceRefused(r)
         \/ RereadToReplace(r) \/ DeleteDocMissed(r) \/ CallRejects(r) \/ Crash(r)
  PROVE  StoreInv'
<1>1. UNCHANGED <<tours, doc, stored>>
  BY DEF AppendRefused, RereadToAppend, PatchMissed, ReplaceRefused, RereadToReplace,
         DeleteDocMissed, CallRejects, Crash
<1>2. /\ TypeOK /\ call \in [Request -> Call] /\ call[r] \in Call
      /\ {"refused", "crashed"} \subseteq Answer
  BY DEF StoreInv, TypeOK, Answer
<1>3. CASE AppendRefused(r)
  <2>1. CASE call' = [call EXCEPT ![r].pc = "rereadToAppend", ![r].attempt = @ + 1]
    <3>1. /\ Frame(r) /\ call'[r].pc = "rereadToAppend" /\ call[r].pc = "append"
          /\ call'[r].current = call[r].current
      BY <1>2, <1>3, <2>1 DEF AppendRefused, Frame, Call
    <3>2. HeldTour(r)'
      BY <1>1, <3>1, StillHolds DEF HoldingPc
    <3>3. HandlerInv(r)'
      BY <1>1, <3>1, <3>2
         DEF StoreInv, HandlerInv, TourFilesStored, VariantsStored, DeletesUnreferenced
    <3>4. QED BY <1>1, <3>1, <3>3, CallOnlyKeeps DEF Frame
  <2>2. CASE DeleteThen(r, Variants(r), "refused") \/ Reject(r)
    BY <1>1, <1>2, <1>3, <2>2, EndKeeps, RejectKeeps DEF AppendRefused
  <2>3. QED BY <1>3, <2>1, <2>2 DEF AppendRefused
<1>4. CASE RereadToAppend(r)
  <2>1. CASE /\ call[r].tour \in tours
             /\ call' = [call EXCEPT ![r].pc = "append", ![r].current = doc[call[r].tour]]
    <3>1. /\ Frame(r) /\ call'[r].pc = "append" /\ call[r].pc = "rereadToAppend"
          /\ call'[r].current = doc[call[r].tour]
      BY <1>2, <1>4, <2>1 DEF RereadToAppend, Frame, Call
    <3>2. HeldTour(r)'
      BY <1>1, <2>1, <3>1, HoldsAgain DEF HoldingPc
    <3>3. HandlerInv(r)'
      BY <1>1, <3>1, <3>2
         DEF StoreInv, HandlerInv, TourFilesStored, VariantsStored, DeletesUnreferenced
    <3>4. QED BY <1>1, <3>1, <3>3, CallOnlyKeeps DEF Frame
  <2>2. CASE DeleteThen(r, Variants(r), "refused")
    BY <1>1, <1>2, <1>4, <2>2, EndKeeps DEF RereadToAppend
  <2>3. QED BY <1>4, <2>1, <2>2 DEF RereadToAppend
<1>5. CASE ReplaceRefused(r)
  <2>1. CASE call' = [call EXCEPT ![r].pc = "rereadToReplace", ![r].attempt = @ + 1]
    <3>1. /\ Frame(r) /\ call'[r].pc = "rereadToReplace" /\ call[r].pc = "replace"
          /\ call'[r].current = call[r].current
      BY <1>2, <1>5, <2>1 DEF ReplaceRefused, Frame, Call
    <3>2. HeldTour(r)'
      BY <1>1, <3>1, StillHolds DEF HoldingPc
    <3>3. HandlerInv(r)'
      BY <3>1, <3>2 DEF HandlerInv, TourFilesStored, VariantsStored, DeletesUnreferenced
    <3>4. QED BY <1>1, <3>1, <3>3, CallOnlyKeeps DEF Frame
  <2>2. CASE Reject(r)
    BY <1>1, <1>5, <2>2, RejectKeeps DEF ReplaceRefused
  <2>3. QED BY <1>5, <2>1, <2>2 DEF ReplaceRefused
<1>6. CASE RereadToReplace(r)
  <2>1. CASE /\ call[r].tour \in tours
             /\ call' = [call EXCEPT ![r].pc = "replace", ![r].current = doc[call[r].tour]]
    <3>1. /\ Frame(r) /\ call'[r].pc = "replace" /\ call[r].pc = "rereadToReplace"
          /\ call'[r].current = doc[call[r].tour]
      BY <1>2, <1>6, <2>1 DEF RereadToReplace, Frame, Call
    <3>2. HeldTour(r)'
      BY <1>1, <2>1, <3>1, HoldsAgain DEF HoldingPc
    <3>3. HandlerInv(r)'
      BY <3>1, <3>2 DEF HandlerInv, TourFilesStored, VariantsStored, DeletesUnreferenced
    <3>4. QED BY <1>1, <3>1, <3>3, CallOnlyKeeps DEF Frame
  <2>2. CASE Finish(r, "refused")
    BY <1>1, <1>2, <1>6, <2>2, EndKeeps DEF RereadToReplace
  <2>3. QED BY <1>6, <2>1, <2>2 DEF RereadToReplace
<1>7. CASE PatchMissed(r) \/ DeleteDocMissed(r)
  BY <1>1, <1>7, RejectKeeps DEF PatchMissed, DeleteDocMissed
<1>8. CASE CallRejects(r)
  BY <1>1, <1>8, RejectKeeps DEF CallRejects
<1>9. CASE Crash(r)
  BY <1>1, <1>2, <1>9, EndKeeps DEF Crash
<1>10. QED BY <1>3, <1>4, <1>5, <1>6, <1>7, <1>8, <1>9

\* A write that raises the ETag of any tour it changes, and points at nothing another handler deletes,
\* leaves the other handlers as sound as they were.
LEMMA OthersKeep ==
  ASSUME StoreInv, NEW r \in Request, Frame(r), stored' = stored,
         call[r].pc \notin {"deleting", "done"},
         \A v \in Request : call[v].pc = "done" /\ v \in tours' =>
           v \in tours /\ (doc'[v] = doc[v] \/ doc'[v].etag = doc[v].etag + 1),
         \A w \in Request \ {r} : call[w].pc \in {"deleting", "done"} =>
           /\ w \in tours' => w \in tours
           /\ \A u \in Request : w \in doc'[u].images => w \in doc[u].images,
         NEW c \in Request \ {r}
  PROVE  HandlerInv(c)'
<1>1. call'[c] = call[c] /\ HandlerInv(c) /\ call[c] \in Call
  BY DEF StoreInv, TypeOK, Frame
<1>2. \A d \in Request : call[d].pc = "done" => call'[d] = call[d]
  BY DEF Frame
<1>3. TourFilesStored(c)' /\ VariantsStored(c)'
  BY <1>1 DEF HandlerInv, TourFilesStored, VariantsStored
<1>4. HeldTour(c)'
  <2> SUFFICES ASSUME call[c].pc \in HoldingPc PROVE HeldTour(c)'
    BY <1>1 DEF HeldTour
  <2> DEFINE v == call[c].tour
  <2>1. /\ v \in Request /\ call[v].pc = "done"
        /\ \A i \in call[c].current.images : i \in Request /\ Uploaded(i, v)
        /\ call[c].image \in Request
    BY <1>1 DEF HandlerInv, HeldTour, Call, Doc
  <2>2. call'[v] = call[v] /\ \A i \in call[c].current.images : call'[i] = call[i]
    BY <1>2, <2>1 DEF Uploaded
  <2>3. call[c].pc \in {"replace", "rereadToReplace"} =>
          Uploaded(call[c].image, v) /\ call'[call[c].image] = call[call[c].image]
    BY <1>1, <1>2, <2>1 DEF HandlerInv, HeldTour, Uploaded
  <2>4. v \in tours' => /\ call[c].current.etag <= doc'[v].etag
                        /\ call[c].current.etag = doc'[v].etag => call[c].current = doc'[v]
    BY <1>1, <2>1 DEF StoreInv, TypeOK, HandlerInv, HeldTour, Call, Doc
  <2>5. QED BY <1>1, <2>1, <2>2, <2>3, <2>4 DEF HeldTour, Uploaded
<1>5. DeletesUnreferenced(c)'
  <2> SUFFICES ASSUME call[c].pc = "deleting", NEW x \in call[c].todo PROVE Unreferenced(x)'
    BY <1>1 DEF DeletesUnreferenced
  <2>1. x \in File /\ x[2] \in Request /\ Unreferenced(x)
    BY <1>1 DEF HandlerInv, DeletesUnreferenced, Call, File
  <2>2. call'[x[2]] = call[x[2]] /\ x[2] # r
    BY <2>1 DEF Unreferenced, Frame
  <2>3. QED BY <2>1, <2>2 DEF Unreferenced
<1>6. QED BY <1>3, <1>4, <1>5 DEF HandlerInv

\* A conditional write of a tour that adds no photo but the writer's own, stored one keeps StoreInv:
\* the new ETag is above every one a handler holds.
LEMMA WriteKeeps ==
  ASSUME StoreInv, TypeOK', NEW r \in Request, NEW d \in Doc,
         call[r].tour \in tours, Write(call[r].tour, d), UNCHANGED <<tours, stored>>,
         call[r].pc \in HoldingPc, Frame(r), call'[r].pc \in {"deleting", "done"},
         \A i \in d.images : \/ i \in doc[call[r].tour].images
                             \/ i = r /\ call'[r].pc = "done" /\ Variants(r) \subseteq stored,
         call'[r].pc = "deleting" => \A x \in call'[r].todo : Unreferenced(x)'
  PROVE  StoreInv'
<1> DEFINE t == call[r].tour
<1>1. /\ doc \in [Request -> Doc] /\ t \in Request /\ t # r /\ doc[t] \in Doc
      /\ call \in [Request -> Call] /\ call[r].pc \notin {"idle", "deleting", "done"}
  BY DEF StoreInv, TypeOK, Call, HoldingPc, ToursUploaded
<1>2. doc'[t] = [d EXCEPT !.etag = doc[t].etag + 1] /\ \A u \in Request \ {t} : doc'[u] = doc[u]
  BY <1>1 DEF Write
<1>3. doc'[t].images = d.images /\ doc'[t].etag = doc[t].etag + 1
  BY <1>2 DEF Doc
<1>4. \A c \in Request : call[c].pc = "done" => call'[c] = call[c]
  BY <1>1 DEF Frame
<1>5. ToursUploaded' /\ TourWhole'
  BY <1>4 DEF StoreInv, TypeOK, ToursUploaded, TourWhole
<1>6. EntriesUploaded'
  <2> SUFFICES ASSUME NEW u \in Request, NEW i \in doc'[u].images
               PROVE  u \in tours /\ Uploaded(i, u)'
    BY DEF EntriesUploaded
  <2>1. CASE i \in doc[u].images
    <3>1. u \in tours /\ Uploaded(i, u) /\ i \in Request
      BY <1>1, <2>1 DEF StoreInv, EntriesUploaded, Doc
    <3>2. QED BY <1>4, <3>1 DEF Uploaded
  <2>2. CASE i \notin doc[u].images
    <3>1. u = t /\ i = r /\ call'[r].pc = "done"
      BY <1>2, <1>3, <2>2
    <3>2. QED BY <3>1 DEF Uploaded, Frame
  <2>3. QED BY <2>1, <2>2
<1>7. NoDeadEntry'
  BY <1>1, <1>2, <1>3 DEF StoreInv, NoDeadEntry, TypeOK
<1>8. HandlerInv(r)'
  BY SettledHandlers
<1>9. ASSUME NEW c \in Request \ {r} PROVE HandlerInv(c)'
  <2>1. \A u \in Request, w \in Request \ {r} : w \in doc'[u].images => w \in doc[u].images
    BY <1>2, <1>3
  <2>2. QED BY <1>1, <1>2, <1>3, <2>1, OthersKeep
<1>10. QED BY <1>5, <1>6, <1>7, <1>8, <1>9 DEF StoreInv

\* An append, an edit and a photo's removal keep StoreInv.
LEMMA DocumentWritesKeep ==
  ASSUME StoreInv, TypeOK', "ackLost" \notin Faults, NEW r \in Request,
         Append(r) \/ Patch(r) \/ Replace(r)
  PROVE  StoreInv'
<1> DEFINE t == call[r].tour
<1>1. /\ TypeOK /\ call[r] \in Call /\ t \in tours /\ t \in Request /\ doc[t] \in Doc
      /\ doc \in [Request -> Doc] /\ call[r].current \in Doc /\ call[r].image \in Request
      /\ "ok" \in Answer /\ call[r].pc \in HoldingPc /\ UNCHANGED <<tours, stored>>
      /\ HandlerInv(r)
  BY DEF StoreInv, TypeOK, Call, Doc, Answer, Append, Patch, Replace, Matches, HoldingPc
<1>2. CASE Append(r)
  <2> DEFINE d == [doc[t] EXCEPT !.images = @ \cup {r}]
  <2>1. d \in Doc /\ d.images = doc[t].images \cup {r}
    BY <1>1 DEF Doc
  <2>2. Write(t, d)
    BY <1>2 DEF Append
  <2>3. Frame(r) /\ call'[r].pc = "done"
    BY <1>1, <1>2, ContinuationMoves DEF Append, AnswerLost
  <2>4. Variants(r) \subseteq stored
    BY <1>1, <1>2 DEF Append, HandlerInv, VariantsStored
  <2> HIDE DEF d
  <2>5. QED BY <1>1, <2>1, <2>2, <2>3, <2>4, WriteKeeps
<1>3. CASE Patch(r)
  <2> DEFINE d == [doc[t] EXCEPT !.details = r]
  <2>1. d \in Doc /\ d.images = doc[t].images
    BY <1>1 DEF Doc
  <2>2. Write(t, d)
    BY <1>3 DEF Patch
  <2>3. Frame(r) /\ call'[r].pc = "done"
    BY <1>1, <1>3, ContinuationMoves DEF Patch, AnswerLost
  <2> HIDE DEF d
  <2>4. QED BY <1>1, <2>1, <2>2, <2>3, WriteKeeps
<1>4. CASE Replace(r)
  <2> DEFINE i == call[r].image
             d == WithoutImage(call[r].current, i)
  <2>1. call[r].current = doc[t] /\ Uploaded(i, t)
    BY <1>1, <1>4 DEF Replace, Matches, HandlerInv, HeldTour, HoldingPc
  <2>2. d \in Doc /\ d.images = doc[t].images \ {i}
    BY <1>1, <2>1 DEF WithoutImage, Doc
  <2>3. Write(t, d)
    BY <1>4 DEF Replace
  <2>4. Frame(r) /\ call'[r].pc = "deleting" /\ call'[r].todo = Variants(i)
    BY <1>1, <1>4, ContinuationMoves, FileTypes DEF Replace, AnswerLost
  <2>5. doc'[t].images = doc[t].images \ {i} /\ \A u \in Request \ {t} : doc'[u] = doc[u]
    BY <1>1, <2>2, <2>3 DEF Write, Doc
  <2>6. \A u \in Request : i \notin doc'[u].images
    BY <1>1, <2>1, <2>5 DEF StoreInv, EntriesUploaded, Uploaded
  <2>7. i # r
    BY <1>1, <2>1 DEF Uploaded, HoldingPc
  <2>8. \A x \in call'[r].todo : Unreferenced(x)'
    BY <1>1, <2>1, <2>4, <2>6, <2>7 DEF Variants, Unreferenced, Uploaded, Frame
  <2> HIDE DEF d
  <2>9. QED BY <1>1, <2>2, <2>3, <2>4, <2>8, WriteKeeps
<1>5. QED BY <1>2, <1>3, <1>4

\* The write that publishes a tour keeps StoreInv: its track and its GPX are there.
LEMMA CreateTourKeeps ==
  ASSUME StoreInv, TypeOK', "ackLost" \notin Faults, NEW r \in Request, CreateTour(r)
  PROVE  StoreInv'
<1>1. /\ TypeOK /\ doc \in [Request -> Doc] /\ "ok" \in Answer /\ call[r].pc = "createTour"
      /\ stored' = stored /\ tours' = tours \cup {r}
  BY DEF StoreInv, TypeOK, Answer, CreateTour
<1>2. Frame(r) /\ call'[r].pc = "done"
  BY <1>1, ContinuationMoves DEF CreateTour, AnswerLost
<1>3. r \notin tours /\ Files(r) \subseteq stored
  BY <1>1 DEF StoreInv, ToursUploaded, HandlerInv, TourFilesStored
<1>4. doc'[r].images = {} /\ \A u \in Request \ {r} : doc'[u] = doc[u]
  BY <1>1 DEF CreateTour, NewDoc
<1>5. \A c \in Request : call[c].pc = "done" => call'[c] = call[c]
  BY <1>1, <1>2 DEF Frame
<1>6. ToursUploaded' /\ TourWhole'
  BY <1>1, <1>2, <1>3, <1>5 DEF StoreInv, TypeOK, ToursUploaded, TourWhole
<1>7. EntriesUploaded' /\ NoDeadEntry'
  BY <1>1, <1>4, <1>5 DEF StoreInv, TypeOK, EntriesUploaded, NoDeadEntry, Uploaded, Doc
<1>8. HandlerInv(r)'
  BY <1>2, SettledHandlers
<1>9. ASSUME NEW c \in Request \ {r} PROVE HandlerInv(c)'
  BY <1>1, <1>2, <1>4, OthersKeep
<1>10. QED BY <1>6, <1>7, <1>8, <1>9 DEF StoreInv

\* The delete of a tour's document keeps StoreInv, and nothing points at the files it goes on to
\* delete.
LEMMA DeleteDocKeeps ==
  ASSUME StoreInv, TypeOK', "ackLost" \notin Faults, NEW r \in Request, DeleteDoc(r)
  PROVE  StoreInv'
<1> DEFINE t == call[r].tour
           held == call[r].current
<1>1. /\ TypeOK /\ doc \in [Request -> Doc] /\ "ok" \in Answer /\ call[r].pc = "deleteDoc"
      /\ call[r] \in Call /\ held \in Doc /\ t \in Request /\ t \in tours
      /\ stored' = stored /\ tours' = tours \ {t}
  BY DEF StoreInv, TypeOK, Answer, DeleteDoc, Call
<1>2. Frame(r) /\ call'[r].pc = "deleting" /\ call'[r].todo = FilesOf(t, held)
  BY <1>1, ContinuationMoves, FilesOfType DEF DeleteDoc, AnswerLost
<1>3. call[t].pc = "done" /\ \A i \in held.images : i \in Request /\ Uploaded(i, t)
  BY <1>1 DEF StoreInv, HandlerInv, HeldTour, HoldingPc, Doc
<1>4. doc'[t].images = {} /\ \A u \in Request \ {t} : doc'[u] = doc[u]
  BY <1>1 DEF DeleteDoc, Blank
<1>5. \A c \in Request : call[c].pc = "done" => call'[c] = call[c]
  BY <1>1, <1>2 DEF Frame
<1>6. ToursUploaded' /\ TourWhole'
  BY <1>1, <1>5 DEF StoreInv, TypeOK, ToursUploaded, TourWhole
<1>7. EntriesUploaded' /\ NoDeadEntry'
  BY <1>1, <1>4, <1>5 DEF StoreInv, TypeOK, EntriesUploaded, NoDeadEntry, Uploaded, Doc
<1>8. HandlerInv(r)'
  <2>1. ASSUME NEW x \in Files(t) PROVE Unreferenced(x)'
    BY <1>1, <1>3, <1>5 DEF Files, Unreferenced
  <2>2. ASSUME NEW i \in held.images, NEW x \in Variants(i) PROVE Unreferenced(x)'
    <3>1. i \in Request /\ call'[i].pc = "done"
      BY <1>3, <1>5 DEF Uploaded
    <3>2. \A u \in Request : i \notin doc'[u].images
      BY <1>3, <1>4 DEF StoreInv, EntriesUploaded, Uploaded
    <3>3. QED BY <3>1, <3>2 DEF Variants, Unreferenced
  <2>3. QED BY <1>2, <2>1, <2>2, SettledHandlers DEF FilesOf
<1>9. ASSUME NEW c \in Request \ {r} PROVE HandlerInv(c)'
  BY <1>1, <1>2, <1>4, OthersKeep
<1>10. QED BY <1>6, <1>7, <1>8, <1>9 DEF StoreInv

\* A delete in storage keeps StoreInv: nothing points at its file, and no upload relies on it.
LEMMA DeleteFileKeeps ==
  ASSUME StoreInv, TypeOK', NEW r \in Request, NEW x \in File, DeleteFile(r, x)
  PROVE  StoreInv'
<1>1. /\ TypeOK /\ call[r] \in Call /\ call[r].answer \in Answer /\ "failed" \in Answer
      /\ call[r].pc = "deleting" /\ UNCHANGED <<tours, doc>> /\ stored \ {x} \subseteq stored'
      /\ x \in call[r].todo
  BY DEF StoreInv, TypeOK, Call, Answer, DeleteFile
<1>2. /\ Frame(r)
      /\ \/ call'[r].pc = "done"
         \/ call'[r].pc = "deleting" /\ call'[r].todo = call[r].todo \ {x}
  BY <1>1, SettledMoves DEF DeleteFile
<1>3. x[2] \in Request /\ Unreferenced(x)
  BY <1>1 DEF StoreInv, HandlerInv, DeletesUnreferenced, File
<1>4. \A c \in Request : call[c].pc = "done" => call'[c] = call[c]
  BY <1>1, <1>2 DEF Frame
<1>5. \A c \in Request : call[c].pc \in {"deleting", "done"} => call'[c].pc \in {"deleting", "done"}
  BY <1>2, <1>4 DEF Frame
<1>6. ToursUploaded' /\ EntriesUploaded'
  BY <1>1, <1>4 DEF StoreInv, TypeOK, ToursUploaded, EntriesUploaded, Uploaded, Doc
<1>7. TourWhole'
  <2>1. ASSUME NEW t \in tours PROVE x \notin Files(t)
    BY <1>3 DEF Files, Unreferenced
  <2>2. QED BY <1>1, <2>1 DEF StoreInv, TourWhole
<1>8. NoDeadEntry'
  <2>1. ASSUME NEW t \in tours, NEW i \in doc[t].images PROVE x \notin Variants(i)
    BY <1>1, <1>3 DEF TypeOK, Variants, Unreferenced
  <2>2. QED BY <1>1, <2>1 DEF StoreInv, NoDeadEntry
<1>9. \A y \in File : Unreferenced(y) => Unreferenced(y)'
  BY <1>1, <1>5 DEF Unreferenced, File
<1>10. HandlerInv(r)'
  BY <1>1, <1>2, <1>9, SettledHandlers DEF StoreInv, HandlerInv, DeletesUnreferenced, Call
<1>11. ASSUME NEW c \in Request \ {r} PROVE HandlerInv(c)'
  <2>1. call'[c] = call[c] /\ HandlerInv(c) /\ call[c] \in Call
    BY <1>2 DEF StoreInv, TypeOK, Frame
  <2>2. TourFilesStored(c)'
    BY <1>1, <1>3, <2>1 DEF HandlerInv, TourFilesStored, Files, Unreferenced
  <2>3. VariantsStored(c)'
    BY <1>1, <1>3, <2>1 DEF HandlerInv, VariantsStored, Variants, Unreferenced
  <2>4. HeldTour(c)'
    BY <1>1, <1>4, <2>1 DEF HandlerInv, HeldTour, Uploaded, Call, Doc
  <2>5. DeletesUnreferenced(c)'
    BY <1>9, <2>1 DEF HandlerInv, DeletesUnreferenced, Call
  <2>6. QED BY <2>2, <2>3, <2>4, <2>5 DEF HandlerInv
<1>12. QED BY <1>6, <1>7, <1>8, <1>10, <1>11 DEF StoreInv

\* Every step of a request under way keeps StoreInv.
LEMMA StepKeeps ==
  ASSUME StoreInv, "ackLost" \notin Faults, NEW r \in Request, Step(r)
  PROVE  StoreInv'
<1>1. TypeOK'
  BY StepTypeOK DEF StoreInv
<1>2. CASE StoreGpx(r) \/ CreateTrack(r)
  BY <1>1, <1>2, UploadTourKeeps
<1>3. CASE CreateTour(r)
  BY <1>1, <1>3, CreateTourKeeps
<1>4. CASE \E x \in File : StoreVariant(r, x)
  BY <1>1, <1>4, StoreVariantKeeps
<1>5. CASE Append(r) \/ Patch(r) \/ Replace(r)
  BY <1>1, <1>5, DocumentWritesKeep
<1>6. CASE DeleteDoc(r)
  BY <1>1, <1>6, DeleteDocKeeps
<1>7. CASE \E x \in File : DeleteFile(r, x)
  BY <1>1, <1>7, DeleteFileKeeps
<1>8. CASE \/ AppendRefused(r) \/ RereadToAppend(r) \/ PatchMissed(r) \/ ReplaceRefused(r)
           \/ RereadToReplace(r) \/ DeleteDocMissed(r) \/ CallRejects(r) \/ Crash(r)
  BY <1>1, <1>8, NoWriteKeeps
<1>9. QED BY <1>2, <1>3, <1>4, <1>5, <1>6, <1>7, <1>8 DEF Step

\* Nothing exists and nobody is under way at the start.
LEMMA InitStoreInv == Init => StoreInv
<1> SUFFICES ASSUME Init PROVE StoreInv
  OBVIOUS
<1>1. TypeOK
  BY InitTypeOK
<1>2. \A r \in Request : call[r].pc = "idle" /\ doc[r].images = {}
  BY DEF Init, Blank
<1>3. tours = {}
  BY DEF Init
<1>4. ToursUploaded /\ EntriesUploaded /\ TourWhole /\ NoDeadEntry
  BY <1>2, <1>3 DEF ToursUploaded, EntriesUploaded, TourWhole, NoDeadEntry
<1>5. \A r \in Request : HandlerInv(r)
  BY <1>2 DEF HandlerInv, TourFilesStored, VariantsStored, HeldTour, HoldingPc, DeletesUnreferenced
<1>6. QED BY <1>1, <1>4, <1>5 DEF StoreInv

\* While no answer is lost, StoreInv is inductive.
THEOREM StoreInvariant ==
  ASSUME "ackLost" \notin Faults
  PROVE  Spec => []StoreInv
<1>1. ASSUME StoreInv, [Next]_vars PROVE StoreInv'
  <2>1. CASE UNCHANGED vars
    <3>1. UNCHANGED <<tours, doc, stored, call, landed, abandoned>>
      BY <2>1 DEF vars
    <3>2. QED BY <1>1, <3>1
       DEF StoreInv, TypeOK, ToursUploaded, EntriesUploaded, Uploaded, TourWhole, NoDeadEntry,
           HandlerInv, TourFilesStored, VariantsStored, HeldTour, DeletesUnreferenced, Unreferenced
  <2>2. CASE \E r \in Request : Begin(r) \/ Step(r)
    BY <1>1, <2>2, BeginKeeps, StepKeeps
  <2>3. QED BY <1>1, <2>1, <2>2 DEF Next, Rest
<1>2. QED BY <1>1, InitStoreInv, PTL DEF Spec

\* A tour never points at a missing GPX or track, for any number of requests, whichever calls are
\* rejected and wherever instances stop, as long as a rejected call was not applied.
THEOREM ToursWhole ==
  ASSUME "ackLost" \notin Faults
  PROVE  Spec => []TourWhole
<1>1. StoreInv => TourWhole
  BY DEF StoreInv
<1>2. QED BY <1>1, StoreInvariant, PTL

\* Every entry of a tour's /images has both its blobs, under the same assumption.
THEOREM NoDeadEntries ==
  ASSUME "ackLost" \notin Faults
  PROVE  Spec => []NoDeadEntry
<1>1. StoreInv => NoDeadEntry
  BY DEF StoreInv
<1>2. QED BY <1>1, StoreInvariant, PTL

-----------------------------------------------------------------------------
(* ImageCap. *)

\* A handler that is done or deleting holds no count; one that keeps or renews its tour was let on.
LEMMA CapCalls ==
  ASSUME TypeOK, CapInv, NEW r \in Request, Step(r)
  PROVE  NotFullWhenRead(r)'
<1> DEFINE Counting == {"storeVariants", "append", "rereadToAppend"}
<1>1. call \in [Request -> Call] /\ call[r] \in Call /\ call[r].answer \in Answer
  BY DEF TypeOK, Call
<1>2. {"ok", "failed", "refused", "crashed"} \subseteq Answer
  BY DEF Answer
<1>3. {"createTrack", "createTour"} \subseteq Pc
  BY DEF Pc
<1>4. SUFFICES \/ call'[r].pc \notin Counting
               \/ call[r].pc \in Counting /\ call'[r].current = call[r].current
               \/ IsFiniteSet(call'[r].current.images) /\ ~IsFull(call'[r].current)
  BY DEF CapInv, NotFullWhenRead, IsFull
<1>5. CASE StoreGpx(r) \/ CreateTrack(r) \/ CreateTour(r)
  BY <1>1, <1>2, <1>3, <1>5, ContinuationMoves DEF StoreGpx, CreateTrack, CreateTour, AnswerLost
<1>6. CASE \E x \in File : StoreVariant(r, x)
  BY <1>1, <1>2, <1>6, SettledMoves DEF StoreVariant
<1>7. CASE Append(r) \/ Patch(r) \/ PatchMissed(r)
  BY <1>1, <1>2, <1>7, ContinuationMoves DEF Append, Patch, PatchMissed, AnswerLost
<1>8. CASE AppendRefused(r)
  BY <1>1, <1>2, <1>8, ContinuationMoves, FileTypes DEF AppendRefused, Call
<1>9. CASE RereadToAppend(r)
  <2>1. CASE /\ call[r].tour \in tours /\ ~IsFull(doc[call[r].tour])
             /\ call' = [call EXCEPT ![r].pc = "append", ![r].current = doc[call[r].tour]]
    BY <1>1, <2>1 DEF CapInv, TypeOK, Call
  <2>2. CASE DeleteThen(r, Variants(r), "refused")
    BY <1>1, <1>2, <2>2, ContinuationMoves, FileTypes
  <2>3. QED BY <1>9, <2>1, <2>2 DEF RereadToAppend
<1>10. CASE Replace(r)
  BY <1>1, <1>2, <1>10, ContinuationMoves, FileTypes DEF Replace, AnswerLost, Call
<1>11. CASE ReplaceRefused(r) \/ RereadToReplace(r)
  BY <1>1, <1>2, <1>11, ContinuationMoves DEF ReplaceRefused, RereadToReplace, Call
<1>12. CASE DeleteDoc(r)
  BY <1>1, <1>2, <1>12, ContinuationMoves, FilesOfType DEF DeleteDoc, AnswerLost, Call, TypeOK
<1>13. CASE DeleteDocMissed(r) \/ CallRejects(r) \/ Crash(r)
  BY <1>1, <1>2, <1>13, ContinuationMoves DEF DeleteDocMissed, CallRejects, Crash
<1>14. CASE \E x \in File : DeleteFile(r, x)
  BY <1>1, <1>2, <1>14, SettledMoves DEF DeleteFile
<1>15. QED BY <1>5, <1>6, <1>7, <1>8, <1>9, <1>10, <1>11, <1>12, <1>13, <1>14 DEF Step

\* No write takes a tour past the cap: an append adds to the very images that were counted.
LEMMA CapDocs ==
  ASSUME StoreInv, CapInv, NEW r \in Request, Step(r), NEW t \in Request
  PROVE  IsFiniteSet(doc'[t].images) /\ Cardinality(doc'[t].images) <= MaxImages
<1>1. /\ TypeOK /\ doc \in [Request -> Doc] /\ call[r] \in Call /\ doc[t] \in Doc
      /\ MaxImages \in Nat /\ HandlerInv(r)
  BY StoreAssumption DEF StoreInv, TypeOK
<1>2. IsFiniteSet(doc[t].images) /\ Cardinality(doc[t].images) <= MaxImages
  BY DEF CapInv
<1>3. Cardinality(doc[t].images) \in Nat
  BY <1>2, FS_CardinalityType
<1>4. CASE Append(r) /\ t = call[r].tour
  <2>1. doc[t] = call[r].current
    BY <1>1, <1>4 DEF Append, Matches, HandlerInv, HeldTour, HoldingPc
  <2>2. Cardinality(doc[t].images) < MaxImages
    BY <1>1, <1>3, <1>4, <2>1 DEF CapInv, NotFullWhenRead, IsFull, Append
  <2>3. doc'[t].images = doc[t].images \cup {r}
    BY <1>1, <1>4 DEF Append, Write, Doc
  <2>4. \A S : IsFiniteSet(S) => /\ IsFiniteSet(S \cup {r})
                                 /\ Cardinality(S \cup {r}) \in {Cardinality(S), Cardinality(S) + 1}
    BY FS_AddElement, ZenonT(30)
  <2>5. QED BY <1>1, <1>2, <1>3, <2>2, <2>3, <2>4
<1>5. CASE Replace(r) /\ t = call[r].tour
  <2>1. doc[t] = call[r].current
    BY <1>1, <1>5 DEF Replace, Matches, HandlerInv, HeldTour, HoldingPc
  <2>2. doc'[t].images = doc[t].images \ {call[r].image}
    <3> DEFINE d == WithoutImage(call[r].current, call[r].image)
    <3>1. d.images = doc[t].images \ {call[r].image} /\ d \in Doc
      BY <1>1, <2>1 DEF WithoutImage, Doc
    <3>2. doc'[t] = [d EXCEPT !.etag = doc[t].etag + 1]
      BY <1>1, <1>5 DEF Replace, Write
    <3> HIDE DEF d
    <3>3. QED BY <3>1, <3>2 DEF Doc
  <2> DEFINE S == doc[t].images
             i == call[r].image
  <2>3. IsFiniteSet(S) /\ Cardinality(S) \in Nat /\ Cardinality(S) <= MaxImages
    BY <1>2, <1>3
  <2>4. doc'[t].images = S \ {i}
    BY <2>2
  <2> HIDE DEF S, i
  <2>5. IsFiniteSet(S \ {i}) /\ Cardinality(S \ {i}) \in {Cardinality(S), Cardinality(S) - 1}
    BY <2>3, FS_RemoveElement, ZenonT(30)
  <2>6. QED BY <1>1, <2>3, <2>4, <2>5
<1>6. CASE doc'[t].images = doc[t].images
  BY <1>2, <1>6
<1>7. CASE doc'[t].images = {}
  BY <1>1, <1>7, FS_EmptySet
<1>8. QED
  <2>1. CASE Append(r) \/ Replace(r)
    BY <1>1, <1>4, <1>5, <1>6, <2>1 DEF Append, Replace, Write
  <2>2. CASE Patch(r)
    BY <1>1, <1>6, <2>2 DEF Patch, Write, Doc
  <2>3. CASE CreateTour(r)
    BY <1>1, <1>6, <1>7, <2>3 DEF CreateTour, NewDoc
  <2>4. CASE DeleteDoc(r)
    BY <1>1, <1>6, <1>7, <2>4 DEF DeleteDoc, Blank
  <2>5. CASE UNCHANGED doc
    BY <1>6, <2>5
  <2>6. QED
    BY <2>1, <2>2, <2>3, <2>4, <2>5
       DEF Step, StoreGpx, CreateTrack, StoreVariant, AppendRefused, RereadToAppend, PatchMissed,
           ReplaceRefused, RereadToReplace, DeleteDocMissed, DeleteFile, CallRejects, Crash

\* A request that begins writes nothing, and is let on to store a photo only below the cap.
LEMMA CapBegins ==
  ASSUME TypeOK, CapInv, NEW r \in Request, Begin(r)
  PROVE  CapInv'
<1>1. call \in [Request -> Call] /\ UNCHANGED doc
  BY DEF TypeOK, Begin, BeginUploadTour, BeginUploadImage, BeginEditTour, BeginDeleteTour,
         BeginDeleteImage
<1>2. ASSUME NEW op, NEW pc, NEW t \in Request, NEW i, NEW todo,
             Admitted(r, op, pc, t, i, todo),
             pc = "storeVariants" => ~IsFull(doc[t]),
             pc \notin {"append", "rereadToAppend"}
      PROVE  (\A d \in Request \ {r} : call'[d] = call[d]) /\ NotFullWhenRead(r)'
  <2>1. /\ \A d \in Request \ {r} : call'[d] = call[d]
        /\ call'[r].pc = pc /\ call'[r].current = doc[t]
    BY <1>1, <1>2 DEF Admitted
  <2>2. QED BY <1>2, <2>1 DEF NotFullWhenRead, CapInv, IsFull
<1>3. ASSUME NEW op, NEW t, NEW i, Refused(r, op, t, i)
      PROVE  (\A d \in Request \ {r} : call'[d] = call[d]) /\ NotFullWhenRead(r)'
  <2>1. (\A d \in Request \ {r} : call'[d] = call[d]) /\ call'[r].pc = "done"
    BY <1>1, <1>3 DEF Refused, Call
  <2>2. QED BY <2>1 DEF NotFullWhenRead
<1>4. (\A d \in Request \ {r} : call'[d] = call[d]) /\ NotFullWhenRead(r)'
  <2>1. TourIds \subseteq Request
    BY DEF TourIds, TypeOK
  <2>2. CASE BeginUploadTour(r)
    BY <1>2, <2>2 DEF BeginUploadTour
  <2>3. CASE \E t \in TourIds : BeginUploadImage(r, t) \/ BeginEditTour(r, t) \/ BeginDeleteTour(r, t)
    BY <1>2, <1>3, <2>1, <2>3 DEF BeginUploadImage, BeginEditTour, BeginDeleteTour
  <2>4. CASE \E t \in TourIds : \E i \in ImageIds(t) : BeginDeleteImage(r, t, i)
    <3>1. PICK t \in TourIds : \E i \in ImageIds(t) : BeginDeleteImage(r, t, i)
      BY <2>4
    <3>2. PICK i : BeginDeleteImage(r, t, i)
      BY <3>1
    <3>3. QED BY <1>2, <1>3, <2>1, <3>2 DEF BeginDeleteImage
  <2>5. QED BY <2>2, <2>3, <2>4 DEF Begin
<1>5. QED BY <1>1, <1>4 DEF CapInv, NotFullWhenRead, IsFull

\* What an upload counted was not full, and no tour ever is too full.
LEMMA CapInvariant ==
  ASSUME "ackLost" \notin Faults
  PROVE  Spec => []CapInv
<1>1. Init => CapInv
  <2> SUFFICES ASSUME Init PROVE CapInv
    OBVIOUS
  <2>1. \A t \in Request : doc[t].images = {} /\ call[t].pc = "idle"
    BY DEF Init, Blank
  <2>2. IsFiniteSet({}) /\ Cardinality({}) <= MaxImages
    BY FS_EmptySet, StoreAssumption
  <2>3. QED BY <2>1, <2>2 DEF CapInv, NotFullWhenRead
<1>2. ASSUME StoreInv, CapInv, [Next]_vars PROVE CapInv'
  <2>1. CASE UNCHANGED vars
    <3>1. doc' = doc /\ call' = call
      BY <2>1 DEF vars
    <3>2. QED BY <1>2, <3>1 DEF CapInv, NotFullWhenRead, IsFull
  <2>2. ASSUME NEW r \in Request, Step(r) PROVE CapInv'
    <3>1. \A c \in Request \ {r} : call'[c] = call[c]
      BY <1>2, <2>2, StepMoves DEF StoreInv, Frame
    <3>2. \A c \in Request : NotFullWhenRead(c)'
      BY <1>2, <2>2, <3>1, CapCalls DEF StoreInv, CapInv, NotFullWhenRead, IsFull
    <3>3. QED BY <1>2, <2>2, <3>2, CapDocs DEF CapInv
  <2>3. ASSUME NEW r \in Request, Begin(r) PROVE CapInv'
    BY <1>2, <2>3, CapBegins DEF StoreInv
  <2>4. QED BY <1>2, <2>1, <2>2, <2>3 DEF Next, Rest
<1>3. QED BY <1>1, <1>2, StoreInvariant, PTL DEF Spec

\* However many uploads of photos to one tour interleave, the tour never holds more than MaxImages.
THEOREM ImagesCapped ==
  ASSUME "ackLost" \notin Faults
  PROVE  Spec => []ImageCap
<1>1. StoreInv /\ CapInv => ImageCap
  BY DEF StoreInv, TypeOK, CapInv, ImageCap
<1>2. QED BY <1>1, StoreInvariant, CapInvariant, PTL

-----------------------------------------------------------------------------
(* OnlyEditsChangeDetails. *)

\* A request that lands is over or has only files left to delete, and none comes back to a patch.
LEMMA EditCalls ==
  ASSUME TypeOK, NEW r \in Request, Step(r)
  PROVE  /\ call'[r].pc # "patch"
         /\ \/ landed' = landed
            \/ landed' = landed \cup {r} /\ call'[r].pc \in {"deleting", "done"}
<1>1. call \in [Request -> Call] /\ call[r] \in Call /\ call[r].answer \in Answer
  BY DEF TypeOK, Call
<1>2. {"ok", "failed", "refused", "crashed"} \subseteq Answer
  BY DEF Answer
<1>3. {"createTrack", "createTour"} \subseteq Pc
  BY DEF Pc
<1>4. CASE CreateTour(r) \/ Append(r) \/ Patch(r)
  BY <1>1, <1>2, <1>4, ContinuationMoves DEF CreateTour, Append, Patch, AnswerLost
<1>5. CASE Replace(r)
  BY <1>1, <1>2, <1>5, ContinuationMoves, FileTypes DEF Replace, AnswerLost, Call
<1>6. CASE DeleteDoc(r)
  BY <1>1, <1>2, <1>6, ContinuationMoves, FilesOfType DEF DeleteDoc, AnswerLost, Call, TypeOK
<1>7. CASE UNCHANGED landed
  <2>1. SUFFICES call'[r].pc # "patch"
    BY <1>7
  <2>2. CASE StoreGpx(r)
    BY <1>1, <1>2, <1>3, <2>2, ContinuationMoves DEF StoreGpx, AnswerLost
  <2>3. CASE CreateTrack(r)
    BY <1>1, <1>2, <1>3, <2>3, ContinuationMoves DEF CreateTrack, AnswerLost
  <2>4. CASE \E x \in File : StoreVariant(r, x)
    BY <1>1, <1>2, <2>4, SettledMoves DEF StoreVariant
  <2>5. CASE \E x \in File : DeleteFile(r, x)
    BY <1>1, <1>2, <2>5, SettledMoves DEF DeleteFile
  <2>6. CASE AppendRefused(r)
    BY <1>1, <1>2, <2>6, ContinuationMoves, FileTypes DEF AppendRefused, Call
  <2>7. CASE RereadToAppend(r)
    BY <1>1, <1>2, <2>7, ContinuationMoves, FileTypes DEF RereadToAppend, Call
  <2>8. CASE ReplaceRefused(r)
    BY <1>1, <1>2, <2>8, ContinuationMoves DEF ReplaceRefused, Call
  <2>9. CASE RereadToReplace(r)
    BY <1>1, <1>2, <2>9, ContinuationMoves DEF RereadToReplace, Call
  <2>10. CASE PatchMissed(r) \/ DeleteDocMissed(r) \/ CallRejects(r) \/ Crash(r)
    BY <1>1, <1>2, <2>10, ContinuationMoves DEF PatchMissed, DeleteDocMissed, CallRejects, Crash
  <2>11. QED
    BY <1>4, <1>5, <1>6, <2>2, <2>3, <2>4, <2>5, <2>6, <2>7, <2>8, <2>9, <2>10 DEF Step
<1>8. QED
  BY <1>4, <1>5, <1>6, <1>7
     DEF Step, StoreGpx, CreateTrack, StoreVariant, AppendRefused, RereadToAppend, PatchMissed,
         ReplaceRefused, RereadToReplace, DeleteDocMissed, DeleteFile, CallRejects, Crash

\* Only BeginEditTour leads to a patch.
LEMMA EditBegins ==
  ASSUME TypeOK, EditInv, NEW r \in Request, Begin(r)
  PROVE  EditInv'
<1>1. call \in [Request -> Call] /\ UNCHANGED landed /\ call[r].pc = "idle"
  BY DEF TypeOK, Begin, BeginUploadTour, BeginUploadImage, BeginEditTour, BeginDeleteTour,
         BeginDeleteImage, Idle
<1>2. ASSUME NEW op, NEW pc, NEW t, NEW i, NEW todo, Admitted(r, op, pc, t, i, todo),
             pc = "patch" => op = "editTour"
      PROVE  /\ \A d \in Request \ {r} : call'[d] = call[d]
             /\ call'[r].pc = "patch" => call'[r].op = "editTour"
  BY <1>1, <1>2 DEF Admitted
<1>3. ASSUME NEW op, NEW t, NEW i, Refused(r, op, t, i)
      PROVE  /\ \A d \in Request \ {r} : call'[d] = call[d]
             /\ call'[r].pc = "patch" => call'[r].op = "editTour"
  BY <1>1, <1>3 DEF Refused, Call
<1>4. /\ \A d \in Request \ {r} : call'[d] = call[d]
      /\ call'[r].pc = "patch" => call'[r].op = "editTour"
  BY <1>2, <1>3
     DEF Begin, BeginUploadTour, BeginUploadImage, BeginEditTour, BeginDeleteTour, BeginDeleteImage
<1>5. r \notin landed'
  BY <1>1 DEF EditInv
<1>6. QED BY <1>1, <1>4, <1>5 DEF EditInv

\* A write to a tour that was and stays there changes its details only as a patch.
LEMMA DetailsWrites ==
  ASSUME StoreInv, EditInv, NEW r \in Request, Step(r), NEW t \in tours \cap tours',
         doc'[t].details # doc[t].details
  PROVE  r \in landed' \ landed /\ call[r].op = "editTour" /\ doc'[t].details = r
<1>1. /\ TypeOK /\ doc \in [Request -> Doc] /\ call[r] \in Call /\ t \in Request /\ doc[t] \in Doc
      /\ HandlerInv(r) /\ call[t].pc = "done"
  BY DEF StoreInv, TypeOK, ToursUploaded
<1>2. CASE CreateTour(r)
  BY <1>1, <1>2 DEF CreateTour
<1>3. CASE Append(r)
  BY <1>1, <1>3 DEF Append, Write, Doc
<1>4. CASE Patch(r)
  BY <1>1, <1>4 DEF Patch, Write, Doc, EditInv
<1>5. CASE Replace(r)
  <2> DEFINE d == WithoutImage(call[r].current, call[r].image)
  <2>1. CASE t = call[r].tour
    <3>1. doc[t] = call[r].current
      BY <1>1, <1>5, <2>1 DEF Replace, Matches, HandlerInv, HeldTour, HoldingPc
    <3>2. d.details = doc[t].details /\ d \in Doc
      BY <1>1, <3>1 DEF WithoutImage, Doc
    <3>3. doc'[t] = [d EXCEPT !.etag = doc[t].etag + 1]
      BY <1>1, <1>5, <2>1 DEF Replace, Write
    <3> HIDE DEF d
    <3>4. QED BY <3>2, <3>3 DEF Doc
  <2>2. QED BY <1>1, <1>5, <2>1 DEF Replace, Write
<1>6. CASE DeleteDoc(r)
  BY <1>1, <1>6 DEF DeleteDoc
<1>7. CASE UNCHANGED doc
  BY <1>7
<1>8. QED
  BY <1>2, <1>3, <1>4, <1>5, <1>6, <1>7
     DEF Step, StoreGpx, CreateTrack, StoreVariant, AppendRefused, RereadToAppend, PatchMissed,
         ReplaceRefused, RereadToReplace, DeleteDocMissed, DeleteFile, CallRejects, Crash

\* The name, description and date of a tour change only when a patch of EditTour is applied, however
\* many appends and whole-document replaces run beside it.
THEOREM EditsOnly ==
  ASSUME "ackLost" \notin Faults
  PROVE  Spec => OnlyEditsChangeDetails
<1> DEFINE EditsOrKeeps ==
      \A t \in tours \cap tours' : doc'[t].details # doc[t].details =>
        \E r \in landed' \ landed : call[r].op = "editTour" /\ doc'[t].details = r
<1>1. Init => EditInv
  BY DEF Init, EditInv
<1>2. ASSUME StoreInv, EditInv, [Next]_vars PROVE EditInv' /\ [EditsOrKeeps]_vars
  <2>1. CASE UNCHANGED vars
    BY <1>2, <2>1 DEF vars, EditInv
  <2>2. ASSUME NEW r \in Request, Step(r) PROVE EditInv' /\ EditsOrKeeps
    <3>1. EditsOrKeeps
      BY <1>2, <2>2, DetailsWrites
    <3>2. EditInv'
      BY <1>2, <2>2, StepMoves, EditCalls DEF StoreInv, EditInv, Frame
    <3>3. QED BY <3>1, <3>2
  <2>3. ASSUME NEW r \in Request, Begin(r) PROVE EditInv' /\ EditsOrKeeps
    <3>1. UNCHANGED doc
      BY <2>3 DEF Begin, BeginUploadTour, BeginUploadImage, BeginEditTour, BeginDeleteTour,
                  BeginDeleteImage
    <3>2. QED BY <1>2, <2>3, <3>1, EditBegins DEF StoreInv
  <2>4. QED BY <1>2, <2>1, <2>2, <2>3 DEF Next, Rest
<1>3. QED BY <1>1, <1>2, StoreInvariant, PTL DEF Spec, OnlyEditsChangeDetails

-----------------------------------------------------------------------------
\* The inductive invariant beside StoreInv.

TourDeleted(t)  == \E d \in LandedDeletes("deleteTour") : call[d].tour = t
PhotoDeleted(i) == \E d \in LandedDeletes("deleteImage") : call[d].image = i

UploadTourPc  == {"storeGpx", "createTrack", "createTour"}
UploadImagePc == {"storeVariants", "append", "rereadToAppend"}
DeleteImagePc == {"replace", "rereadToReplace"}

\* Which operation is at which step, and about which tour.
OpAt(r) ==
  LET c == call[r] IN
  /\ c.pc = "idle" => c.op = "none" /\ c.answer = "none"
  /\ c.pc \in UploadTourPc => c.op = "uploadTour" /\ c.tour = r
  /\ c.pc \in UploadImagePc => c.op = "uploadImage"
  /\ c.pc = "storeVariants" => c.todo \subseteq Variants(r)
  /\ c.pc = "patch" => c.op = "editTour"
  /\ c.pc \in DeleteImagePc => c.op = "deleteImage" /\ c.image \in landed
  /\ c.pc = "deleteDoc" => c.op = "deleteTour"
  /\ c.pc \in HoldingPc => c.tour \in TourIds

\* An answer says whether the write landed; a failure shows until the request is over.
AnswerRight(r) ==
  LET c == call[r] IN
  /\ r \in landed => c.pc \in {"deleting", "done"} /\ c.answer # "refused"
  /\ c.answer = "ok" => r \in landed
  /\ c.answer = "failed" => c.pc \in {"storeVariants", "deleting", "done"}
  /\ c.answer = "crashed" => c.pc = "done"

\* What landed is there, or was deleted since.
UploadKept(r) ==
  LET c == call[r] IN
  /\ c.op = "uploadTour" => c.tour = r /\ (r \in tours \/ TourDeleted(r))
  /\ c.op = "uploadImage" => /\ c.tour \in TourIds
                             /\ c.tour \in tours => r \in doc[c.tour].images \/ PhotoDeleted(r)

RemovalKept(r) ==
  call[r].op = "deleteImage" =>
    call[r].image \in landed /\ call[r].image \notin doc[call[r].tour].images

LandedKept == \A r \in landed : UploadKept(r) /\ RemovalKept(r)

EntriesLanded == \A t \in Request : \A i \in doc[t].images : i \in landed /\ call[i].op = "uploadImage"

\* Every file is the upload's that is named after it.
FilesOfUploads ==
  \A x \in stored :
    call[x[2]].op = IF x[1] \in {"track", "gpx"} THEN "uploadTour" ELSE "uploadImage"

UnderWay(r) == call[r].pc \notin {"idle", "deleting", "done"}

AnswersInv ==
  /\ \A r \in Request : OpAt(r) /\ AnswerRight(r)
  /\ LandedKept /\ EntriesLanded /\ FilesOfUploads
  /\ NothingLeaks

-----------------------------------------------------------------------------
\* A step either lands, or changes no document: it goes on, fails, refuses or deletes a file.

Stays == UNCHANGED <<tours, doc, landed>>

GoesOn(r) ==
  LET c == call[r]  n == call'[r] IN
  /\ n.answer = c.answer
  /\ \/ c.pc \in UploadTourPc /\ n.pc \in UploadTourPc
     \/ /\ c.pc \in UploadImagePc /\ n.pc \in UploadImagePc
        /\ n.pc = "storeVariants" => c.pc = "storeVariants" /\ n.todo \subseteq c.todo
        /\ c.pc = "storeVariants" /\ n.answer = "failed" => n.pc = "storeVariants"
     \/ c.pc \in DeleteImagePc /\ n.pc \in DeleteImagePc

FailsNow(r) ==
  LET c == call[r]  n == call'[r] IN
  \/ n.answer \in {"failed", "crashed"} /\ n.pc = "done"
  \/ n.answer = "failed" /\ n.pc = "deleting"
  \/ n.answer = "failed" /\ n.pc = "storeVariants" /\ c.pc = "storeVariants" /\ n.todo \subseteq c.todo

RefusesNow(r) ==
  LET c == call[r]  n == call'[r] IN
  /\ n.answer = "refused"
  /\ \/ c.pc \in {"append", "rereadToAppend"} /\ n.pc = "deleting" /\ n.todo = Variants(r)
     \/ c.pc = "rereadToReplace" /\ n.pc = "done"

DeletesNow(r, x) ==
  LET c == call[r]  n == call'[r] IN
  /\ c.pc = "deleting" /\ n.answer = c.answer /\ stored' = stored \ {x}
  /\ \/ n.pc = "done" /\ c.todo \subseteq {x}
     \/ n.pc = "deleting" /\ n.todo = c.todo \ {x}

\* The files a step of r may add.
NewFiles(r) ==
  \A x \in stored' \ stored :
    \/ call[r].pc \in UploadTourPc /\ x \in Files(r)
    \/ call[r].pc = "storeVariants" /\ x \in call[r].todo

QuietStep(r) ==
  Stays /\ NewFiles(r) /\ (GoesOn(r) \/ FailsNow(r) \/ RefusesNow(r) \/ \E x \in File : DeletesNow(r, x))

\* What r had in hand and what it stored, it still has in hand, or gives up on for a reason.
HoldsOn(r) ==
  /\ abandoned \subseteq abandoned'
  /\ stored' \cap (Held(r) \cup (stored' \ stored)) \subseteq Held(r)' \cup abandoned'

\* A call that rejects, and was not applied, fails its request.
LEMMA RejectFails ==
  ASSUME TypeOK, NEW r \in Request, Reject(r)
  PROVE  FailsNow(r)
BY ContinuationMoves DEF FailsNow

\* The steps that change no document, by their shape.
LEMMA QuietShape ==
  ASSUME TypeOK, "ackLost" \notin Faults, NEW r \in Request, Step(r),
         ~(CreateTour(r) \/ Append(r) \/ Patch(r) \/ Replace(r) \/ DeleteDoc(r))
  PROVE  QuietStep(r)
<1>1. call \in [Request -> Call] /\ call[r] \in Call /\ call[r].answer \in Answer
  BY DEF TypeOK, Call
<1>2. {"ok", "failed", "refused", "crashed"} \subseteq Answer /\ {"createTrack", "createTour"} \subseteq Pc
  BY DEF Answer, Pc
<1>3. CASE StoreGpx(r) \/ CreateTrack(r)
  <2>1. /\ Stays /\ call[r].pc \in UploadTourPc
        /\ \E x \in Files(r) : stored' = stored \cup {x}
        /\ \E pc \in {"createTrack", "createTour"} : Goto(r, pc)
    BY <1>3 DEF StoreGpx, CreateTrack, AnswerLost, Stays, UploadTourPc, Files
  <2>2. call'[r].pc \in UploadTourPc /\ call'[r].answer = call[r].answer
    BY <1>1, <2>1 DEF Goto, Call, UploadTourPc
  <2> QED BY <2>1, <2>2 DEF QuietStep, GoesOn, NewFiles
<1>4. ASSUME NEW x \in File, StoreVariant(r, x) PROVE QuietStep(r)
  <2>1. /\ Stays /\ call[r].pc = "storeVariants" /\ x \in call[r].todo
        /\ stored' \subseteq stored \cup {x}
        /\ VariantSettled(r, x, call[r].answer) \/ VariantSettled(r, x, "failed")
    BY <1>4 DEF StoreVariant, Stays
  <2>2. NewFiles(r)
    BY <2>1 DEF NewFiles
  <2>3. PICK answer \in {call[r].answer, "failed"} : VariantSettled(r, x, answer)
    BY <2>1
  <2> DEFINE left == call[r].todo \ {x}
  <2>4. CASE left # {}
    <3>1. call' = [call EXCEPT ![r].todo = left, ![r].answer = answer]
      BY <2>3, <2>4 DEF VariantSettled
    <3>2. call'[r].pc = "storeVariants" /\ call'[r].todo \subseteq call[r].todo
          /\ call'[r].answer = answer
      BY <1>1, <2>1, <3>1 DEF Call
    <3>3. GoesOn(r) \/ FailsNow(r)
      BY <2>1, <2>3, <3>2 DEF GoesOn, FailsNow, UploadImagePc
    <3> QED BY <2>1, <2>2, <3>3 DEF QuietStep
  <2>5. CASE left = {} /\ answer = "failed"
    <3>1. DeleteThen(r, Variants(r), "failed")
      BY <2>3, <2>5 DEF VariantSettled
    <3>2. FailsNow(r)
      BY <1>2, <3>1, ContinuationMoves, FileTypes DEF FailsNow
    <3> QED BY <2>1, <2>2, <3>2 DEF QuietStep
  <2>6. CASE left = {} /\ answer # "failed"
    <3>1. call' = [call EXCEPT ![r].todo = {}, ![r].pc = "append"]
      BY <2>3, <2>6 DEF VariantSettled
    <3>2. call'[r].pc = "append" /\ call'[r].answer = call[r].answer
      BY <1>1, <3>1 DEF Call
    <3>3. GoesOn(r)
      BY <2>1, <2>3, <2>6, <3>2 DEF GoesOn, UploadImagePc
    <3> QED BY <2>1, <2>2, <3>3 DEF QuietStep
  <2> QED BY <2>4, <2>5, <2>6
<1>5. CASE AppendRefused(r)
  <2>1. Stays /\ call[r].pc = "append" /\ stored' = stored
    BY <1>5 DEF AppendRefused, Stays
  <2>2. \/ DeleteThen(r, Variants(r), "refused") \/ Reject(r)
        \/ call' = [call EXCEPT ![r].pc = "rereadToAppend", ![r].attempt = @ + 1]
    BY <1>5 DEF AppendRefused
  <2>3. CASE DeleteThen(r, Variants(r), "refused")
    BY <1>1, <1>2, <2>1, <2>3, ContinuationMoves, FileTypes DEF QuietStep, NewFiles, RefusesNow
  <2>4. CASE Reject(r)
    BY <2>1, <2>4, RejectFails DEF QuietStep, NewFiles
  <2>5. CASE call' = [call EXCEPT ![r].pc = "rereadToAppend", ![r].attempt = @ + 1]
    <3>1. call'[r].pc = "rereadToAppend" /\ call'[r].answer = call[r].answer
      BY <1>1, <2>5 DEF Call
    <3>2. GoesOn(r) \/ FailsNow(r)
      BY <2>1, <3>1 DEF GoesOn, UploadImagePc
    <3> QED BY <2>1, <3>2 DEF QuietStep, NewFiles
  <2> QED BY <2>2, <2>3, <2>4, <2>5
<1>6. CASE RereadToAppend(r)
  <2>1. Stays /\ call[r].pc = "rereadToAppend" /\ stored' = stored
    BY <1>6 DEF RereadToAppend, Stays
  <2>2. \/ DeleteThen(r, Variants(r), "refused")
        \/ call' = [call EXCEPT ![r].pc = "append", ![r].current = doc[call[r].tour]]
    BY <1>6 DEF RereadToAppend
  <2>3. CASE DeleteThen(r, Variants(r), "refused")
    BY <1>1, <1>2, <2>1, <2>3, ContinuationMoves, FileTypes DEF QuietStep, NewFiles, RefusesNow
  <2>4. CASE call' = [call EXCEPT ![r].pc = "append", ![r].current = doc[call[r].tour]]
    <3>1. call'[r].pc = "append" /\ call'[r].answer = call[r].answer
      BY <1>1, <2>4 DEF Call
    <3>2. GoesOn(r)
      BY <2>1, <3>1 DEF GoesOn, UploadImagePc
    <3> QED BY <2>1, <3>2 DEF QuietStep, NewFiles
  <2> QED BY <2>2, <2>3, <2>4
<1>7. CASE PatchMissed(r) \/ DeleteDocMissed(r) \/ CallRejects(r)
  BY <1>7, RejectFails DEF PatchMissed, DeleteDocMissed, CallRejects, QuietStep, NewFiles, Stays
<1>8. CASE Crash(r)
  BY <1>2, <1>8, ContinuationMoves DEF Crash, QuietStep, NewFiles, Stays, FailsNow
<1>9. CASE ReplaceRefused(r)
  <2>1. Stays /\ call[r].pc = "replace" /\ stored' = stored
    BY <1>9 DEF ReplaceRefused, Stays
  <2>2. \/ Reject(r)
        \/ call' = [call EXCEPT ![r].pc = "rereadToReplace", ![r].attempt = @ + 1]
    BY <1>9 DEF ReplaceRefused
  <2>3. CASE Reject(r)
    BY <2>1, <2>3, RejectFails DEF QuietStep, NewFiles
  <2>4. CASE call' = [call EXCEPT ![r].pc = "rereadToReplace", ![r].attempt = @ + 1]
    <3>1. call'[r].pc = "rereadToReplace" /\ call'[r].answer = call[r].answer
      BY <1>1, <2>4 DEF Call
    <3> QED BY <2>1, <3>1 DEF QuietStep, NewFiles, GoesOn, DeleteImagePc
  <2> QED BY <2>2, <2>3, <2>4
<1>10. CASE RereadToReplace(r)
  <2>1. Stays /\ call[r].pc = "rereadToReplace" /\ stored' = stored
    BY <1>10 DEF RereadToReplace, Stays
  <2>2. \/ Finish(r, "refused")
        \/ call' = [call EXCEPT ![r].pc = "replace", ![r].current = doc[call[r].tour]]
    BY <1>10 DEF RereadToReplace
  <2>3. CASE Finish(r, "refused")
    BY <1>2, <2>1, <2>3, ContinuationMoves DEF QuietStep, NewFiles, RefusesNow
  <2>4. CASE call' = [call EXCEPT ![r].pc = "replace", ![r].current = doc[call[r].tour]]
    <3>1. call'[r].pc = "replace" /\ call'[r].answer = call[r].answer
      BY <1>1, <2>4 DEF Call
    <3> QED BY <2>1, <3>1 DEF QuietStep, NewFiles, GoesOn, DeleteImagePc
  <2> QED BY <2>2, <2>3, <2>4
<1>11. ASSUME NEW x \in File, DeleteFile(r, x) PROVE QuietStep(r)
  <2>1. /\ Stays /\ call[r].pc = "deleting" /\ NewFiles(r)
        /\ \/ stored' = stored \ {x} /\ FileSettled(r, x, call[r].answer)
           \/ FileSettled(r, x, "failed")
    BY <1>11 DEF DeleteFile, Stays, NewFiles
  <2>2. PICK answer \in {call[r].answer, "failed"} :
          FileSettled(r, x, answer) /\ (answer = "failed" \/ stored' = stored \ {x})
    BY <2>1
  <2>3. CASE call[r].todo \subseteq {x}
    <3>1. Finish(r, answer)
      BY <2>2, <2>3 DEF FileSettled
    <3>2. call'[r].pc = "done" /\ call'[r].answer = answer
      BY <1>1, <1>2, <2>2, <3>1, ContinuationMoves
    <3> QED BY <2>1, <2>2, <2>3, <3>2 DEF QuietStep, DeletesNow, FailsNow
  <2>4. CASE ~(call[r].todo \subseteq {x})
    <3>1. call' = [call EXCEPT ![r].todo = call[r].todo \ {x}, ![r].answer = answer]
      BY <2>2, <2>4 DEF FileSettled
    <3>2. /\ call'[r].pc = "deleting" /\ call'[r].todo = call[r].todo \ {x}
          /\ call'[r].answer = answer
      BY <1>1, <2>1, <3>1 DEF Call
    <3> QED BY <2>1, <2>2, <3>2 DEF QuietStep, DeletesNow, FailsNow
  <2> QED BY <2>3, <2>4
<1> QED BY <1>3, <1>4, <1>5, <1>6, <1>7, <1>8, <1>9, <1>10, <1>11 DEF Step

\* A call that rejects, and was not applied, leaves its request what the rollback is to delete.
LEMMA RejectHolds ==
  ASSUME TypeOK, NEW r \in Request, Reject(r), stored' = stored, abandoned' = abandoned,
         call[r].pc \notin {"storeVariants", "deleting"}
  PROVE  HoldsOn(r)
<1>1. Held(r) = Undo(r)
  BY DEF Held, Undo
<1>2. Undo(r) \in SUBSET File
  BY DEF Undo, Files, Variants, File
<1>3. Undo(r) # {} => Held(r)' = Undo(r)
  <2> SUFFICES ASSUME Undo(r) # {} PROVE Held(r)' = Undo(r)
    OBVIOUS
  <2>1. DeleteThen(r, Undo(r), "failed")
    BY DEF Reject
  <2>2. call'[r].pc = "deleting" /\ call'[r].todo = Undo(r)
    BY <2>1 DEF DeleteThen, TypeOK, Call
  <2> QED BY <2>2 DEF Held
<1> QED BY <1>1, <1>3 DEF HoldsOn

\* So does every step that changes no document.
LEMMA QuietHolds ==
  ASSUME TypeOK, "ackLost" \notin Faults, NEW r \in Request, OpAt(r), Step(r),
         ~(CreateTour(r) \/ Append(r) \/ Patch(r) \/ Replace(r) \/ DeleteDoc(r))
  PROVE  HoldsOn(r)
<1>1. call \in [Request -> Call] /\ call[r] \in Call
  BY DEF TypeOK
<1>2. ASSUME NEW files, NEW answer, DeleteThen(r, files, answer) PROVE Held(r)' = files
  <2>1. call'[r].pc = "deleting" /\ call'[r].todo = files
    BY <1>1, <1>2 DEF DeleteThen, Call
  <2> QED BY <2>1 DEF Held
<1>3. CASE StoreGpx(r)
  <2>1. stored' = stored \cup {<<"gpx", r>>} /\ abandoned' = abandoned /\ Goto(r, "createTrack")
        /\ call[r].pc = "storeGpx"
    BY <1>3 DEF StoreGpx, AnswerLost
  <2>2. call'[r].pc = "createTrack"
    BY <1>1, <2>1 DEF Goto, Call
  <2> QED BY <2>1, <2>2 DEF HoldsOn, Held
<1>4. CASE CreateTrack(r)
  <2>1. stored' = stored \cup {<<"track", r>>} /\ abandoned' = abandoned /\ Goto(r, "createTour")
        /\ call[r].pc = "createTrack"
    BY <1>4 DEF CreateTrack, AnswerLost
  <2>2. call'[r].pc = "createTour"
    BY <1>1, <2>1 DEF Goto, Call
  <2> QED BY <2>1, <2>2 DEF HoldsOn, Held, Files
<1>5. ASSUME NEW x \in File, StoreVariant(r, x) PROVE HoldsOn(r)
  <2>1. /\ call[r].pc = "storeVariants" /\ x \in call[r].todo /\ abandoned' = abandoned
        /\ stored' \subseteq stored \cup {x} /\ x \in Variants(r)
    BY <1>5 DEF StoreVariant, OpAt
  <2>2. PICK answer \in {call[r].answer, "failed"} : VariantSettled(r, x, answer)
    BY <1>5 DEF StoreVariant
  <2>3. Held(r) = Variants(r)
    BY <2>1 DEF Held
  <2> DEFINE rest == call[r].todo \ {x}
  <2>4. CASE rest = {} /\ answer = "failed"
    <3>1. DeleteThen(r, Variants(r), "failed")
      BY <2>2, <2>4 DEF VariantSettled
    <3>2. Held(r)' = Variants(r)
      BY <1>2, <3>1
    <3> QED BY <2>1, <2>3, <3>2 DEF HoldsOn
  <2>5. CASE ~(rest = {} /\ answer = "failed")
    <3>1. \/ call' = [call EXCEPT ![r].todo = rest, ![r].answer = answer]
          \/ call' = [call EXCEPT ![r].todo = {}, ![r].pc = "append"]
      BY <2>2, <2>5 DEF VariantSettled
    <3>2. call'[r].pc \in {"storeVariants", "append"}
      BY <1>1, <2>1, <3>1 DEF Call
    <3>3. Held(r)' = Variants(r)
      BY <3>2 DEF Held
    <3> QED BY <2>1, <2>3, <3>3 DEF HoldsOn
  <2> QED BY <2>4, <2>5
<1>6. CASE AppendRefused(r) \/ RereadToAppend(r)
  <2>1. /\ call[r].pc \in {"append", "rereadToAppend"} /\ stored' = stored
        /\ abandoned' = abandoned
        /\ \/ DeleteThen(r, Variants(r), "refused") \/ Reject(r)
           \/ call' = [call EXCEPT ![r].pc = "rereadToAppend", ![r].attempt = @ + 1]
           \/ call' = [call EXCEPT ![r].pc = "append", ![r].current = doc[call[r].tour]]
    BY <1>6 DEF AppendRefused, RereadToAppend
  <2>2. Held(r) = Variants(r)
    BY <2>1 DEF Held
  <2>3. CASE DeleteThen(r, Variants(r), "refused")
    <3>1. Held(r)' = Variants(r)
      BY <1>2, <2>3
    <3> QED BY <2>1, <2>2, <3>1 DEF HoldsOn
  <2>4. CASE Reject(r)
    BY <2>1, <2>4, RejectHolds
  <2>5. CASE \/ call' = [call EXCEPT ![r].pc = "rereadToAppend", ![r].attempt = @ + 1]
             \/ call' = [call EXCEPT ![r].pc = "append", ![r].current = doc[call[r].tour]]
    <3>1. call'[r].pc \in {"rereadToAppend", "append"}
      BY <1>1, <2>5 DEF Call
    <3>2. Held(r)' = Variants(r)
      BY <3>1 DEF Held
    <3> QED BY <2>1, <2>2, <3>2 DEF HoldsOn
  <2> QED BY <2>1, <2>3, <2>4, <2>5
<1>7. CASE PatchMissed(r) \/ DeleteDocMissed(r) \/ CallRejects(r)
  BY <1>7, RejectHolds DEF PatchMissed, DeleteDocMissed, CallRejects
<1>8. CASE ReplaceRefused(r) \/ RereadToReplace(r)
  <2>1. /\ call[r].pc \in {"replace", "rereadToReplace"} /\ stored' = stored
        /\ abandoned' = abandoned
    BY <1>8 DEF ReplaceRefused, RereadToReplace
  <2> QED BY <2>1 DEF HoldsOn, Held
<1>9. CASE Crash(r)
  BY <1>9 DEF Crash, HoldsOn
<1>10. ASSUME NEW x \in File, DeleteFile(r, x) PROVE HoldsOn(r)
  <2>1. /\ call[r].pc = "deleting" /\ x \in call[r].todo
        /\ \/ stored' = stored \ {x} /\ abandoned' = abandoned
           \/ stored' = stored /\ abandoned' = abandoned \cup {x}
        /\ \E answer : FileSettled(r, x, answer)
    BY <1>10 DEF DeleteFile
  <2>2. PICK answer : FileSettled(r, x, answer)
    BY <2>1
  <2>3. Held(r) = call[r].todo
    BY <2>1 DEF Held
  <2>4. CASE call[r].todo \ {x} = {}
    BY <2>1, <2>3, <2>4 DEF HoldsOn
  <2>5. CASE call[r].todo \ {x} # {}
    <3>1. call' = [call EXCEPT ![r].todo = call[r].todo \ {x}, ![r].answer = answer]
      BY <2>2, <2>5 DEF FileSettled
    <3>2. call'[r].pc = "deleting" /\ call'[r].todo = call[r].todo \ {x}
      BY <1>1, <2>1, <3>1 DEF Call
    <3>3. Held(r)' = call[r].todo \ {x}
      BY <3>2 DEF Held
    <3> QED BY <2>1, <2>3, <3>3 DEF HoldsOn
  <2> QED BY <2>4, <2>5
<1> QED BY <1>3, <1>4, <1>5, <1>6, <1>7, <1>8, <1>9, <1>10 DEF Step

\* The five writes of the document, with the answer they lead to.
CreatesTour(r) ==
  /\ call[r].pc = "createTour" /\ call'[r].pc = "done"
  /\ tours' = tours \cup {r} /\ doc' = [doc EXCEPT ![r] = NewDoc(r)]

\* One document changed, tour t's: its photos are now these, its details those of request e.
Rewrites(t, photos, e) ==
  /\ tours' = tours /\ t \in tours
  /\ \A u \in Request \ {t} : doc'[u] = doc[u]
  /\ doc'[t].images = photos /\ doc'[t].details = e

AppendsPhoto(r) ==
  LET t == call[r].tour IN
  /\ call[r].pc = "append" /\ call'[r].pc = "done"
  /\ Rewrites(t, doc[t].images \cup {r}, doc[t].details)

PatchesTour(r) ==
  LET t == call[r].tour IN
  /\ call[r].pc = "patch" /\ call'[r].pc = "done"
  /\ Rewrites(t, doc[t].images, r)

ReplacesTour(r) ==
  LET t == call[r].tour  i == call[r].image IN
  /\ call[r].pc = "replace" /\ call'[r].pc = "deleting" /\ call'[r].todo = Variants(i)
  /\ Rewrites(t, doc[t].images \ {i}, doc[t].details)

DropsTour(r) ==
  LET t == call[r].tour IN
  /\ call[r].pc = "deleteDoc" /\ call'[r].pc = "deleting"
  /\ call'[r].todo = FilesOf(t, call[r].current)
  /\ t \in tours /\ tours' = tours \ {t} /\ doc' = [doc EXCEPT ![t] = Blank(t)]
  /\ \A i \in doc[t].images \ call[r].current.images : Variants(i) \subseteq abandoned'

Lands(r) ==
  /\ landed' = landed \cup {r} /\ stored' = stored /\ call'[r].answer = "ok"
  /\ abandoned \subseteq abandoned'
  /\ CreatesTour(r) \/ AppendsPhoto(r) \/ PatchesTour(r) \/ ReplacesTour(r) \/ DropsTour(r)

\* The steps that write a document, by their shape.
LEMMA LandingShape ==
  ASSUME StoreInv, "ackLost" \notin Faults, NEW r \in Request,
         CreateTour(r) \/ Append(r) \/ Patch(r) \/ Replace(r) \/ DeleteDoc(r)
  PROVE  Lands(r)
<1>1. /\ TypeOK /\ call[r] \in Call /\ call[r].tour \in Request /\ call[r].image \in Request
      /\ doc \in [Request -> Doc] /\ doc[call[r].tour] \in Doc /\ HandlerInv(r)
  BY DEF StoreInv, TypeOK, Call
<1>2. "ok" \in Answer
  BY DEF Answer
<1>3. CASE CreateTour(r)
  BY <1>1, <1>2, <1>3, ContinuationMoves DEF CreateTour, AnswerLost, Lands, CreatesTour
<1>4. CASE Append(r)
  <2>1. Finish(r, "ok")
    BY <1>4 DEF Append, AnswerLost
  <2>2. Rewrites(call[r].tour, doc[call[r].tour].images \cup {r}, doc[call[r].tour].details)
    BY <1>1, <1>4 DEF Append, Write, Matches, Doc, Rewrites
  <2> QED BY <1>1, <1>2, <1>4, <2>1, <2>2, ContinuationMoves DEF Append, Lands, AppendsPhoto
<1>5. CASE Patch(r)
  <2>1. Finish(r, "ok")
    BY <1>5 DEF Patch, AnswerLost
  <2>2. Rewrites(call[r].tour, doc[call[r].tour].images, r)
    BY <1>1, <1>5 DEF Patch, Write, Doc, Rewrites
  <2> QED BY <1>1, <1>2, <1>5, <2>1, <2>2, ContinuationMoves DEF Patch, Lands, PatchesTour
<1>6. CASE Replace(r)
  <2> DEFINE t == call[r].tour
             i == call[r].image
             d == WithoutImage(call[r].current, i)
  <2>1. DeleteThen(r, Variants(i), "ok") /\ t \in tours
    BY <1>6 DEF Replace, AnswerLost, Matches
  <2>2. doc[t] = call[r].current
    BY <1>1, <1>6 DEF Replace, Matches, HandlerInv, HeldTour, HoldingPc
  <2>3. d.images = doc[t].images \ {i} /\ d.details = doc[t].details /\ d \in Doc
    BY <1>1, <2>2 DEF WithoutImage, Doc
  <2>4. doc' = [doc EXCEPT ![t] = [d EXCEPT !.etag = doc[t].etag + 1]]
    BY <1>6 DEF Replace, Write
  <2> HIDE DEF d
  <2>5. doc'[t] = [d EXCEPT !.etag = doc[t].etag + 1] /\ \A u \in Request \ {t} : doc'[u] = doc[u]
    BY <1>1, <2>4
  <2>6. doc'[t].images = doc[t].images \ {i} /\ doc'[t].details = doc[t].details
    BY <2>3, <2>5 DEF Doc
  <2>7. Rewrites(t, doc[t].images \ {i}, doc[t].details)
    BY <1>6, <2>1, <2>5, <2>6 DEF Rewrites, Replace
  <2> QED BY <1>1, <1>2, <1>6, <2>1, <2>7, ContinuationMoves, FileTypes
          DEF Replace, Lands, ReplacesTour
<1>7. CASE DeleteDoc(r)
  <2>1. DeleteThen(r, FilesOf(call[r].tour, call[r].current), "ok")
    BY <1>7 DEF DeleteDoc, AnswerLost
  <2>2. FilesOf(call[r].tour, call[r].current) \in SUBSET File
    BY <1>1, FilesOfType DEF Call
  <2> QED BY <1>1, <1>2, <1>7, <2>1, <2>2, ContinuationMoves DEF DeleteDoc, Lands, DropsTour
<1> QED BY <1>3, <1>4, <1>5, <1>6, <1>7

-----------------------------------------------------------------------------
\* Steps keep AnswersInv.

\* What a step leaves of the others: their handlers, what they are about and what they deleted.
LEMMA FramedRequests ==
  ASSUME TypeOK, NEW r \in Request, Frame(r), landed \subseteq landed'
  PROVE  /\ \A d \in Request : /\ call'[d].op = call[d].op /\ call'[d].tour = call[d].tour
                               /\ call'[d].image = call[d].image
         /\ \A t \in Request : TourDeleted(t) => TourDeleted(t)'
         /\ \A i \in Request : PhotoDeleted(i) => PhotoDeleted(i)'
         /\ TourIds \subseteq TourIds'
<1>1. \A d \in Request : /\ call'[d].op = call[d].op /\ call'[d].tour = call[d].tour
                         /\ call'[d].image = call[d].image
  BY DEF Frame
<1>2. landed \subseteq Request
  BY DEF TypeOK
<1> QED BY <1>1, <1>2 DEF TourDeleted, PhotoDeleted, LandedDeletes, TourIds

\* A step that changes no document keeps the invariant.
LEMMA QuietKeeps ==
  ASSUME TypeOK, AnswersInv, NEW r \in Request, Frame(r), UnderWay(r) \/ call[r].pc = "deleting",
         QuietStep(r), HoldsOn(r)
  PROVE  AnswersInv'
<1> USE DEF AnswersInv
<1>1. /\ Stays /\ OpAt(r) /\ AnswerRight(r) /\ landed \subseteq Request /\ stored \subseteq File
      /\ \A d \in Request : d # r => call'[d] = call[d]
      /\ doc \in [Request -> Doc]
  BY DEF QuietStep, TypeOK, Frame
<1>2. landed' = landed /\ tours' = tours /\ doc' = doc
  BY <1>1 DEF Stays
<1>3. /\ \A d \in Request : /\ call'[d].op = call[d].op /\ call'[d].tour = call[d].tour
                            /\ call'[d].image = call[d].image
      /\ \A t \in Request : TourDeleted(t) => TourDeleted(t)'
      /\ \A i \in Request : PhotoDeleted(i) => PhotoDeleted(i)'
      /\ TourIds \subseteq TourIds'
  BY <1>2, FramedRequests
<1>4. call[r].pc = "deleting" => ~GoesOn(r) /\ ~RefusesNow(r)
  BY DEF GoesOn, RefusesNow, UploadTourPc, UploadImagePc, DeleteImagePc
<1>5. OpAt(r)'
  <2>1. CASE GoesOn(r)
    BY <1>1, <1>2, <1>3, <2>1
       DEF GoesOn, OpAt, UploadTourPc, UploadImagePc, DeleteImagePc, HoldingPc
  <2>2. CASE FailsNow(r)
    BY <1>1, <1>2, <1>3, <2>2
       DEF FailsNow, OpAt, UploadTourPc, UploadImagePc, DeleteImagePc, HoldingPc
  <2>3. CASE RefusesNow(r) \/ \E x \in File : DeletesNow(r, x)
    BY <1>1, <2>3
       DEF RefusesNow, DeletesNow, OpAt, UploadTourPc, UploadImagePc, DeleteImagePc, HoldingPc
  <2> QED BY <2>1, <2>2, <2>3 DEF QuietStep
<1>6. AnswerRight(r)'
  <2>1. CASE GoesOn(r)
    BY <1>1, <1>2, <2>1
       DEF GoesOn, AnswerRight, UploadTourPc, UploadImagePc, DeleteImagePc
  <2>2. CASE FailsNow(r)
    BY <1>1, <1>2, <2>2 DEF FailsNow, AnswerRight
  <2>3. CASE RefusesNow(r)
    BY <1>1, <1>2, <2>3 DEF RefusesNow, AnswerRight
  <2>4. CASE \E x \in File : DeletesNow(r, x)
    BY <1>1, <1>2, <2>4 DEF DeletesNow, AnswerRight
  <2> QED BY <2>1, <2>2, <2>3, <2>4 DEF QuietStep
<1>7. \A d \in Request : OpAt(d)' /\ AnswerRight(d)'
  <2> SUFFICES ASSUME NEW d \in Request, d # r PROVE OpAt(d)' /\ AnswerRight(d)'
    BY <1>5, <1>6
  <2>1. call'[d] = call[d] /\ OpAt(d) /\ AnswerRight(d)
    BY <1>1
  <2> QED BY <1>2, <1>3, <2>1 DEF OpAt, AnswerRight
<1>8. LandedKept' /\ EntriesLanded'
  <2>1. \A d \in landed : /\ call[d] \in Call /\ call[d].tour \in Request
    BY <1>1 DEF TypeOK, Call
  <2>2. LandedKept'
    BY <1>1, <1>2, <1>3, <2>1 DEF LandedKept, UploadKept, RemovalKept
  <2>3. EntriesLanded'
    BY <1>1, <1>2, <1>3 DEF EntriesLanded
  <2> QED BY <2>2, <2>3
<1>9. FilesOfUploads'
  <2> SUFFICES ASSUME NEW x \in stored'
               PROVE  call'[x[2]].op = IF x[1] \in {"track", "gpx"} THEN "uploadTour" ELSE "uploadImage"
    BY DEF FilesOfUploads
  <2>1. CASE x \in stored
    BY <1>1, <1>3, <2>1 DEF FilesOfUploads, File
  <2>2. CASE x \notin stored
    <3>1. \/ call[r].op = "uploadTour" /\ x \in Files(r)
          \/ call[r].op = "uploadImage" /\ x \in Variants(r)
      BY <1>1, <2>2 DEF QuietStep, NewFiles, OpAt, UploadImagePc
    <3> QED BY <1>3, <3>1 DEF Files, Variants
  <2> QED BY <2>1, <2>2
<1>10. NothingLeaks'
  <2> SUFFICES ASSUME NEW x \in stored', Leftover(x)'
               PROVE  x \in abandoned' \/ \E d \in Request : x \in Held(d)'
    BY DEF NothingLeaks
  <2>1. CASE x \notin stored
    BY <2>1 DEF HoldsOn
  <2>2. CASE x \in stored
    <3>1. Leftover(x)
      BY <1>1, <1>2, <1>3, <2>2 DEF File, Leftover
    <3>2. x \in abandoned => x \in abandoned'
      BY DEF HoldsOn
    <3>3. x \in Held(r) => x \in abandoned' \/ x \in Held(r)'
      BY DEF HoldsOn
    <3>4. \A d \in Request : d # r => Held(d)' = Held(d)
      BY <1>1 DEF Held
    <3> QED BY <2>2, <3>1, <3>2, <3>3, <3>4 DEF NothingLeaks
  <2> QED BY <2>1, <2>2
<1> QED BY <1>7, <1>8, <1>9, <1>10

\* A write that lands keeps it.
LEMMA LandsKeeps ==
  ASSUME StoreInv, AnswersInv, NEW r \in Request, Frame(r), UnderWay(r), Lands(r)
  PROVE  AnswersInv'
<1> USE DEF AnswersInv
<1>1. /\ TypeOK /\ OpAt(r) /\ AnswerRight(r) /\ landed \subseteq Request /\ stored \subseteq File
      /\ \A d \in Request : d # r => call'[d] = call[d]
      /\ doc \in [Request -> Doc] /\ tours \subseteq Request /\ call[r].image \in Request
      /\ \A d \in Request : call[d].tour \in Request
  BY DEF StoreInv, TypeOK, Frame, Call
<1>2. /\ landed' = landed \cup {r} /\ stored' = stored /\ r \notin landed
      /\ call'[r].pc \in {"deleting", "done"} /\ call'[r].answer = "ok"
      /\ call[r].answer \notin {"failed", "crashed"}
  BY <1>1 DEF Lands, CreatesTour, AppendsPhoto, PatchesTour, ReplacesTour, DropsTour, AnswerRight
<1>3. /\ \A d \in Request : /\ call'[d].op = call[d].op /\ call'[d].tour = call[d].tour
                            /\ call'[d].image = call[d].image
      /\ \A t \in Request : TourDeleted(t) => TourDeleted(t)'
      /\ \A i \in Request : PhotoDeleted(i) => PhotoDeleted(i)'
      /\ TourIds \subseteq TourIds'
  BY <1>1, <1>2, FramedRequests
<1>4. \A d \in Request : OpAt(d)' /\ AnswerRight(d)'
  <2>1. OpAt(r)' /\ AnswerRight(r)'
    BY <1>2 DEF OpAt, AnswerRight, UploadTourPc, UploadImagePc, DeleteImagePc, HoldingPc
  <2>2. ASSUME NEW d \in Request, d # r PROVE OpAt(d)' /\ AnswerRight(d)'
    <3>1. call'[d] = call[d] /\ OpAt(d) /\ AnswerRight(d)
      BY <1>1, <2>2
    <3> QED BY <1>2, <1>3, <2>2, <3>1 DEF OpAt, AnswerRight
  <2> QED BY <2>1, <2>2
<1>5. r \notin tours /\ r \notin TourIds
  BY <1>2 DEF StoreInv, ToursUploaded, UnderWay, TourIds
<1>6. \A t \in TourIds : TourDeleted(t) => TourDeleted(t)'
  BY <1>1, <1>3 DEF TourIds
<1>7. abandoned \subseteq abandoned'
  BY DEF Lands
<1>8. FilesOfUploads'
  BY <1>1, <1>2, <1>3 DEF FilesOfUploads, File
<1>9. ASSUME \A x \in stored : Leftover(x)' => \/ Leftover(x) /\ x \notin Held(r)
                                               \/ x \in Held(r)' \cup abandoned'
      PROVE  NothingLeaks'
  <2> SUFFICES ASSUME NEW x \in stored, Leftover(x), x \notin Held(r)
               PROVE  x \in abandoned' \/ \E d \in Request : x \in Held(d)'
    BY <1>2, <1>9 DEF NothingLeaks
  <2>1. \A d \in Request : d # r => Held(d)' = Held(d)
    BY <1>1 DEF Held
  <2> QED BY <1>7, <2>1 DEF NothingLeaks
<1>10. \A x \in stored : /\ x \in File /\ x[2] \in Request
                         /\ call[x[2]].op = IF x[1] \in {"track", "gpx"} THEN "uploadTour" ELSE "uploadImage"
  BY <1>1 DEF FilesOfUploads, File
<1>11. \A d \in landed : d \in Request /\ d # r /\ UploadKept(d) /\ RemovalKept(d)
  BY <1>1, <1>2 DEF LandedKept
<1>12. CASE CreatesTour(r)
  <2>1. /\ tours' = tours \cup {r} /\ doc'[r].images = {} /\ \A t \in Request : t # r => doc'[t] = doc[t]
        /\ call[r].op = "uploadTour" /\ call[r].tour = r
    BY <1>1, <1>12 DEF CreatesTour, NewDoc, OpAt, UploadTourPc
  <2>2. LandedKept'
    <3>1. ASSUME NEW d \in landed PROVE UploadKept(d)' /\ RemovalKept(d)'
      BY <1>1, <1>2, <1>3, <1>5, <1>11, <2>1, <3>1 DEF UploadKept, RemovalKept
    <3>2. UploadKept(r)' /\ RemovalKept(r)'
      BY <1>3, <2>1 DEF UploadKept, RemovalKept
    <3> QED BY <1>2, <3>1, <3>2 DEF LandedKept
  <2>3. EntriesLanded'
    BY <1>1, <1>2, <1>3, <2>1 DEF EntriesLanded
  <2>4. \A x \in stored : Leftover(x)' => Leftover(x) /\ x \notin Held(r)
    BY <1>1, <1>3, <1>5, <1>10, <1>12, <2>1 DEF Leftover, Held, Files, Variants, CreatesTour
  <2> QED BY <1>4, <1>8, <1>9, <2>2, <2>3, <2>4
<1>13. CASE AppendsPhoto(r)
  <2> DEFINE t == call[r].tour
  <2>1. /\ tours' = tours /\ t \in tours /\ doc'[t].images = doc[t].images \cup {r}
        /\ \A u \in Request \ {t} : doc'[u] = doc[u]
        /\ call[r].op = "uploadImage" /\ t \in TourIds
    BY <1>1, <1>13 DEF AppendsPhoto, Rewrites, OpAt, UploadImagePc, HoldingPc
  <2>2. LandedKept'
    <3>1. ASSUME NEW d \in landed PROVE UploadKept(d)' /\ RemovalKept(d)'
      BY <1>1, <1>2, <1>3, <1>5, <1>11, <2>1, <3>1 DEF UploadKept, RemovalKept
    <3>2. UploadKept(r)' /\ RemovalKept(r)'
      BY <1>3, <2>1 DEF UploadKept, RemovalKept
    <3> QED BY <1>2, <3>1, <3>2 DEF LandedKept
  <2>3. EntriesLanded'
    BY <1>1, <1>2, <1>3, <2>1 DEF EntriesLanded
  <2>4. \A x \in stored : Leftover(x)' => Leftover(x) /\ x \notin Held(r)
    BY <1>1, <1>3, <1>5, <1>10, <1>13, <2>1 DEF Leftover, Held, Files, Variants, AppendsPhoto
  <2> QED BY <1>4, <1>8, <1>9, <2>2, <2>3, <2>4
<1>14. CASE PatchesTour(r)
  <2>1. /\ tours' = tours /\ \A u \in Request : doc'[u].images = doc[u].images
        /\ call[r].op = "editTour"
    BY <1>1, <1>14 DEF PatchesTour, Rewrites, OpAt
  <2>2. LandedKept'
    <3>1. ASSUME NEW d \in landed PROVE UploadKept(d)' /\ RemovalKept(d)'
      BY <1>1, <1>2, <1>3, <1>5, <1>11, <2>1, <3>1 DEF UploadKept, RemovalKept
    <3>2. UploadKept(r)' /\ RemovalKept(r)'
      BY <1>3, <2>1 DEF UploadKept, RemovalKept
    <3> QED BY <1>2, <3>1, <3>2 DEF LandedKept
  <2>3. EntriesLanded'
    BY <1>1, <1>2, <1>3, <2>1 DEF EntriesLanded
  <2>4. \A x \in stored : Leftover(x)' => Leftover(x) /\ x \notin Held(r)
    BY <1>1, <1>3, <1>5, <1>10, <1>14, <2>1 DEF Leftover, Held, Files, Variants, PatchesTour
  <2> QED BY <1>4, <1>8, <1>9, <2>2, <2>3, <2>4
<1>15. CASE ReplacesTour(r)
  <2> DEFINE t == call[r].tour
             i == call[r].image
  <2>1. /\ tours' = tours /\ t \in tours /\ doc'[t].images = doc[t].images \ {i}
        /\ \A u \in Request \ {t} : doc'[u] = doc[u]
        /\ call[r].op = "deleteImage" /\ i \in landed
        /\ call'[r].pc = "deleting" /\ call'[r].todo = Variants(i)
    BY <1>1, <1>15 DEF ReplacesTour, Rewrites, OpAt, DeleteImagePc
  <2>2. PhotoDeleted(i)'
    BY <1>2, <1>3, <2>1 DEF PhotoDeleted, LandedDeletes
  <2>3. LandedKept'
    <3>1. ASSUME NEW d \in landed PROVE UploadKept(d)' /\ RemovalKept(d)'
      BY <1>1, <1>2, <1>3, <1>5, <1>11, <2>1, <2>2, <3>1 DEF UploadKept, RemovalKept
    <3>2. UploadKept(r)' /\ RemovalKept(r)'
      BY <1>2, <1>3, <2>1 DEF UploadKept, RemovalKept
    <3> QED BY <1>2, <3>1, <3>2 DEF LandedKept
  <2>4. EntriesLanded'
    BY <1>1, <1>2, <1>3, <2>1 DEF EntriesLanded
  <2>5. Held(r) = {} /\ Held(r)' = Variants(i)
    BY <1>15, <2>1 DEF Held, ReplacesTour
  <2>6. ASSUME NEW x \in stored, Leftover(x)', ~Leftover(x) PROVE x \in Held(r)'
    <3>1. x[1] \in {"full", "thumb"} /\ x[2] = i
      BY <1>1, <1>3, <1>10, <2>1, <2>6 DEF Leftover, File
    <3> QED BY <1>10, <2>5, <3>1 DEF Variants, File
  <2> QED BY <1>4, <1>8, <1>9, <2>3, <2>4, <2>5, <2>6
<1>16. CASE DropsTour(r)
  <2> DEFINE t == call[r].tour
  <2>1. /\ tours' = tours \ {t} /\ t \in tours /\ doc'[t].images = {}
        /\ \A u \in Request \ {t} : doc'[u] = doc[u]
        /\ call[r].op = "deleteTour"
        /\ call'[r].pc = "deleting" /\ call'[r].todo = FilesOf(t, call[r].current)
    BY <1>1, <1>16 DEF DropsTour, OpAt, Blank
  <2>2. TourDeleted(t)'
    BY <1>2, <1>3, <2>1 DEF TourDeleted, LandedDeletes
  <2>3. LandedKept'
    <3>1. ASSUME NEW d \in landed PROVE UploadKept(d)' /\ RemovalKept(d)'
      BY <1>1, <1>2, <1>3, <1>5, <1>11, <2>1, <2>2, <3>1 DEF UploadKept, RemovalKept
    <3>2. UploadKept(r)' /\ RemovalKept(r)'
      BY <1>3, <2>1 DEF UploadKept, RemovalKept
    <3> QED BY <1>2, <3>1, <3>2 DEF LandedKept
  <2>4. EntriesLanded'
    BY <1>1, <1>2, <1>3, <2>1 DEF EntriesLanded
  <2>5. /\ Held(r) = {} /\ Held(r)' = FilesOf(t, call[r].current)
        /\ \A i \in doc[t].images \ call[r].current.images : Variants(i) \subseteq abandoned'
    BY <1>16, <2>1 DEF Held, DropsTour
  <2>6. ASSUME NEW x \in stored, Leftover(x)', ~Leftover(x) PROVE x \in Held(r)' \cup abandoned'
    <3>1. CASE x[1] \in {"track", "gpx"}
      <4>1. x[2] = t
        BY <1>10, <2>1, <2>6, <3>1 DEF Leftover
      <4> QED BY <1>10, <2>5, <3>1, <4>1 DEF FilesOf, Files, File
    <3>2. CASE x[1] \notin {"track", "gpx"}
      <4>1. x[1] \in {"full", "thumb"} /\ call[x[2]].tour = t /\ x[2] \in doc[t].images
        BY <1>1, <1>3, <1>10, <2>1, <2>6, <3>2 DEF Leftover, File
      <4>2. x \in Variants(x[2])
        BY <1>10, <4>1 DEF Variants, File
      <4> QED BY <2>5, <4>1, <4>2 DEF FilesOf
    <3> QED BY <3>1, <3>2
  <2> QED BY <1>4, <1>8, <1>9, <2>3, <2>4, <2>5, <2>6
<1> QED BY <1>12, <1>13, <1>14, <1>15, <1>16 DEF Lands

-----------------------------------------------------------------------------
\* A request that begins is refused, or goes on with ids of tours and photos that landed.
Begins(r) ==
  LET n == call'[r] IN
  /\ call[r].pc = "idle" /\ UNCHANGED <<tours, doc, stored, landed, abandoned>>
  /\ \A d \in Request : d # r => call'[d] = call[d]
  /\ \/ n.pc = "done" /\ n.answer = "refused"
     \/ /\ n.answer = "none"
        /\ \/ n.pc = "storeGpx" /\ n.op = "uploadTour" /\ n.tour = r
           \/ /\ n.tour \in TourIds
              /\ \/ n.pc = "storeVariants" /\ n.op = "uploadImage" /\ n.todo = Variants(r)
                 \/ n.pc = "patch" /\ n.op = "editTour"
                 \/ n.pc = "replace" /\ n.op = "deleteImage" /\ n.image \in landed
                 \/ n.pc = "deleteDoc" /\ n.op = "deleteTour"

\* A request that begins, by its shape.
LEMMA BeginShape ==
  ASSUME TypeOK, NEW r \in Request, Begin(r)
  PROVE  Begins(r)
<1>1. call \in [Request -> Call] /\ call[r] \in Call
  BY DEF TypeOK
<1>2. ASSUME NEW op, NEW pc, NEW t, NEW i, NEW todo, Admitted(r, op, pc, t, i, todo)
      PROVE  /\ \A d \in Request : d # r => call'[d] = call[d]
             /\ call'[r].op = op /\ call'[r].pc = pc /\ call'[r].tour = t /\ call'[r].image = i
             /\ call'[r].todo = todo /\ call'[r].answer = "none"
  BY <1>1, <1>2 DEF Admitted
<1>3. ASSUME NEW op, NEW t, NEW i, Refused(r, op, t, i)
      PROVE  /\ \A d \in Request : d # r => call'[d] = call[d]
             /\ call'[r].pc = "done" /\ call'[r].answer = "refused"
  BY <1>1, <1>3 DEF Refused, Call
<1>4. CASE BeginUploadTour(r)
  BY <1>2, <1>4 DEF BeginUploadTour, Begins, Idle
<1>5. ASSUME NEW t \in TourIds, BeginUploadImage(r, t) PROVE Begins(r)
  BY <1>2, <1>3, <1>5 DEF BeginUploadImage, Begins, Idle
<1>6. ASSUME NEW t \in TourIds, BeginEditTour(r, t) PROVE Begins(r)
  BY <1>2, <1>3, <1>6 DEF BeginEditTour, Begins, Idle
<1>7. ASSUME NEW t \in TourIds, BeginDeleteTour(r, t) PROVE Begins(r)
  BY <1>2, <1>3, <1>7 DEF BeginDeleteTour, Begins, Idle
<1>8. ASSUME NEW t \in TourIds, NEW i \in ImageIds(t), BeginDeleteImage(r, t, i) PROVE Begins(r)
  <2>1. i \in landed
    BY DEF ImageIds
  <2> QED BY <1>2, <1>3, <1>8, <2>1 DEF BeginDeleteImage, Begins, Idle
<1> QED BY <1>4, <1>5, <1>6, <1>7, <1>8 DEF Begin

\* A request that begins keeps it.
LEMMA BeginsKeep ==
  ASSUME TypeOK, AnswersInv, NEW r \in Request, Begins(r)
  PROVE  AnswersInv'
<1> USE DEF AnswersInv
<1>1. /\ OpAt(r) /\ AnswerRight(r) /\ call[r].op = "none" /\ r \notin landed
      /\ landed \subseteq Request /\ stored \subseteq File
      /\ \A d \in Request : call[d].tour \in Request /\ call[d].image \in Request
      /\ \A d \in Request : d # r => call'[d] = call[d]
      /\ tours' = tours /\ doc' = doc /\ stored' = stored /\ landed' = landed
      /\ abandoned' = abandoned
  BY DEF Begins, OpAt, AnswerRight, TypeOK, Call
<1>2. \A d \in landed : d # r /\ call'[d] = call[d]
  BY <1>1
<1>4. /\ TourIds' = TourIds
      /\ \A t : TourDeleted(t)' <=> TourDeleted(t)
      /\ \A i : PhotoDeleted(i)' <=> PhotoDeleted(i)
  BY <1>1, <1>2 DEF TourIds, TourDeleted, PhotoDeleted, LandedDeletes
<1>5. \A d \in Request : OpAt(d)' /\ AnswerRight(d)'
  <2>1. OpAt(r)' /\ AnswerRight(r)'
    BY <1>1, <1>4 DEF Begins, OpAt, AnswerRight, UploadTourPc, UploadImagePc, DeleteImagePc, HoldingPc
  <2>2. ASSUME NEW d \in Request, d # r PROVE OpAt(d)' /\ AnswerRight(d)'
    <3>1. call'[d] = call[d] /\ OpAt(d) /\ AnswerRight(d)
      BY <1>1, <2>2
    <3> QED BY <1>1, <1>4, <3>1 DEF OpAt, AnswerRight
  <2> QED BY <2>1, <2>2
<1>6. LandedKept'
  BY <1>1, <1>2, <1>4 DEF LandedKept, UploadKept, RemovalKept
<1>7. EntriesLanded'
  BY <1>1, <1>2 DEF EntriesLanded
<1>8. \A x \in stored : x \in File /\ x[2] \in Request /\ x[2] # r /\ call'[x[2]] = call[x[2]]
  BY <1>1 DEF FilesOfUploads, File
<1>9. FilesOfUploads'
  BY <1>1, <1>8 DEF FilesOfUploads
<1>10. NothingLeaks'
  <2> SUFFICES ASSUME NEW x \in stored, Leftover(x)'
               PROVE  x \in abandoned \/ \E d \in Request : x \in Held(d)'
    BY <1>1 DEF NothingLeaks
  <2>1. Leftover(x)
    BY <1>1, <1>8 DEF Leftover
  <2>2. Held(r) = {} /\ \A d \in Request : d # r => Held(d)' = Held(d)
    BY <1>1 DEF Begins, Held
  <2> QED BY <2>1, <2>2 DEF NothingLeaks
<1> QED BY <1>5, <1>6, <1>7, <1>9, <1>10

-----------------------------------------------------------------------------
\* A step of a request keeps it.
LEMMA StepKeepsAnswers ==
  ASSUME StoreInv, AnswersInv, "ackLost" \notin Faults, NEW r \in Request, Step(r)
  PROVE  AnswersInv'
<1>1. TypeOK /\ Frame(r) /\ (UnderWay(r) \/ call[r].pc = "deleting")
  BY StepMoves DEF StoreInv, UnderWay
<1>2. CASE CreateTour(r) \/ Append(r) \/ Patch(r) \/ Replace(r) \/ DeleteDoc(r)
  <2>1. UnderWay(r)
    BY <1>2 DEF CreateTour, Append, Patch, Replace, DeleteDoc, UnderWay
  <2>2. Lands(r)
    BY <1>2, LandingShape
  <2> QED BY <1>1, <2>1, <2>2, LandsKeeps
<1>3. CASE ~(CreateTour(r) \/ Append(r) \/ Patch(r) \/ Replace(r) \/ DeleteDoc(r))
  <2>1. QuietStep(r) /\ HoldsOn(r)
    BY <1>1, <1>3, QuietShape, QuietHolds DEF AnswersInv
  <2> QED BY <1>1, <2>1, QuietKeeps
<1> QED BY <1>2, <1>3

\* It holds at first.
LEMMA InitAnswersInv == Init => AnswersInv
<1> SUFFICES ASSUME Init PROVE AnswersInv
  OBVIOUS
<1>1. /\ landed = {} /\ stored = {}
      /\ \A r \in Request : /\ call[r].pc = "idle" /\ call[r].op = "none"
                            /\ call[r].answer = "none" /\ doc[r].images = {}
  BY DEF Init, Blank
<1>2. \A r \in Request : OpAt(r) /\ AnswerRight(r)
  BY <1>1 DEF OpAt, AnswerRight, UploadTourPc, UploadImagePc, DeleteImagePc, HoldingPc
<1>3. LandedKept /\ EntriesLanded /\ FilesOfUploads /\ NothingLeaks
  BY <1>1 DEF LandedKept, EntriesLanded, FilesOfUploads, NothingLeaks
<1> QED BY <1>2, <1>3 DEF AnswersInv

\* While no answer is lost, an answer says whether the request's write landed, what landed is there
\* or was deleted since, and every file is accounted for.
THEOREM AnswersInvariant ==
  ASSUME "ackLost" \notin Faults
  PROVE  Spec => [](StoreInv /\ AnswersInv)
<1>1. ASSUME StoreInv, AnswersInv, [Next]_vars PROVE AnswersInv'
  <2>1. CASE UNCHANGED vars
    <3>1. UNCHANGED <<tours, doc, stored, call, landed, abandoned>>
      BY <2>1 DEF vars
    <3> QED BY <1>1, <3>1
        DEF AnswersInv, OpAt, AnswerRight, LandedKept, UploadKept, RemovalKept, EntriesLanded,
            FilesOfUploads, NothingLeaks, Leftover, UnderWay, Held, TourDeleted, PhotoDeleted, LandedDeletes, TourIds
  <2>2. ASSUME NEW r \in Request, Step(r) PROVE AnswersInv'
    BY <1>1, <2>2, StepKeepsAnswers
  <2>3. ASSUME NEW r \in Request, Begin(r) PROVE AnswersInv'
    BY <1>1, <2>3, BeginShape, BeginsKeep DEF StoreInv
  <2> QED BY <1>1, <2>1, <2>2, <2>3 DEF Next, Rest
<1> QED BY <1>1, InitAnswersInv, StoreInvariant, PTL DEF Spec

\* Whatever interleaves, whatever call is rejected and wherever an instance stops: what an upload
\* was answered 201 for stays until its delete lands, what a delete was answered for stays away, and
\* a file nothing points at is being dealt with, could not be deleted, was in the hands of an
\* instance that stopped, or is a photo a DeleteTour did not know of. No answer may be lost.
THEOREM AnswersAlwaysHold ==
  ASSUME "ackLost" \notin Faults
  PROVE  Spec => []AnswersHold
<1>1. ASSUME StoreInv, AnswersInv PROVE AnswersHold
  <2>1. /\ landed \subseteq Request /\ LandedKept /\ stored \subseteq File
        /\ \A r \in Request : AnswerRight(r) /\ call[r].tour \in Request
    BY <1>1 DEF StoreInv, AnswersInv, TypeOK, Call
  <2>2. \A t \in TourIds : t \in tours \/ TourDeleted(t)
    BY <2>1 DEF LandedKept, UploadKept, TourIds
  <2>3. AcknowledgedUploadsKept
    <3> SUFFICES ASSUME NEW r \in Request, call[r].answer = "ok"
                 PROVE  /\ call[r].op \in {"uploadTour", "uploadImage"} =>
                             call[r].tour \in tours \/ TourDeleted(call[r].tour)
                        /\ call[r].op = "uploadImage" /\ call[r].tour \in tours =>
                             r \in doc[call[r].tour].images \/ PhotoDeleted(r)
      BY DEF AcknowledgedUploadsKept, TourDeleted, PhotoDeleted
    <3>1. r \in landed /\ UploadKept(r)
      BY <2>1 DEF AnswerRight, LandedKept
    <3> QED BY <2>2, <3>1 DEF UploadKept
  <2>4. RemovedStaysRemoved
    BY <2>1 DEF RemovedStaysRemoved, LandedDeletes, LandedKept, RemovalKept
  <2> QED BY <1>1, <2>3, <2>4 DEF AnswersHold, AnswersInv
<1> QED BY <1>1, AnswersInvariant, PTL

-----------------------------------------------------------------------------
(* TourStore implements TourLibrary. *)

\* The library's views of the documents, and its count of photos.
ShownTours  == {t \in tours : Files(t) \subseteq stored}
ShownPhotos == [t \in Request |-> {i \in doc[t].images : Variants(i) \subseteq stored}]
Images      == [t \in Request |-> doc[t].images]
Details     == [t \in Request |-> doc[t].details]

\* TourLibrary counts as the store does.
LEMMA SameCardinality == \A S : Library!Cardinality(S) = Cardinality(S)
BY DEF Cardinality, Library!Cardinality

\* A document that exists is shown whole, so the library shows just what the documents say.
LEMMA ShownWhole ==
  ASSUME StoreInv
  PROVE  ShownTours = tours /\ ShownPhotos = Images
<1>1. ShownTours = tours
  BY DEF StoreInv, TourWhole, ShownTours
<1>2. \A t \in Request : {i \in doc[t].images : Variants(i) \subseteq stored} = doc[t].images
  BY DEF StoreInv, EntriesUploaded, NoDeadEntry
<1> QED BY <1>1, <1>2 DEF ShownPhotos, Images

\* What the library shows after a step is what is stored.
LEMMA ShownWholeNext ==
  ASSUME StoreInv'
  PROVE  ShownTours' = tours' /\ ShownPhotos' = Images'
<1>1. ShownTours' = tours'
  BY DEF StoreInv, TourWhole, ShownTours
<1>2. \A t \in Request : {i \in doc'[t].images : Variants(i) \subseteq stored'} = doc'[t].images
  BY DEF StoreInv, EntriesUploaded, NoDeadEntry
<1> QED BY <1>1, <1>2 DEF ShownPhotos, Images

\* A request that was not answered may be answered, and truly.
LEMMA RepliesTruly ==
  ASSUME TypeOK, StoreInv', AnswersInv', NEW r \in Request, call[r].pc # "done",
         \A d \in Request \ {r} : call'[d] = call[d]
  PROVE  Library!Reply(r)
<1> DEFINE a == IF call'[r].pc = "done" THEN call'[r].answer ELSE "none"
           shown == [d \in Request |-> IF call[d].pc = "done" THEN call[d].answer ELSE "none"]
           shown2 == [d \in Request |-> IF call'[d].pc = "done" THEN call'[d].answer ELSE "none"]
<1>1. AnswerRight(r)' /\ call'[r] \in Call
  BY DEF AnswersInv, StoreInv, TypeOK
<1>2. a \in {"none", "ok", "refused", "failed", "crashed"}
  BY <1>1 DEF Call, Answer
<1>3. (a = "ok" => r \in landed') /\ (a = "refused" => r \notin landed')
  BY <1>1 DEF AnswerRight
<1>4. shown[r] = "none" /\ shown2 = [shown EXCEPT ![r] = a]
  OBVIOUS
<1> HIDE DEF a
<1> QED BY <1>2, <1>3, <1>4 DEF Library!Reply

\* A step that changes no document keeps the library.
LEMMA KeepsLibrary ==
  ASSUME StoreInv, StoreInv', Stays
  PROVE  Library!Keep
<1>1. ShownTours' = ShownTours /\ ShownPhotos' = ShownPhotos
  BY ShownWhole, ShownWholeNext DEF Stays, Images
<1> QED BY <1>1 DEF Stays, Library!Keep, ShownTours, ShownPhotos

\* Each write of a document is one change of the library.
LEMMA AppliesToLibrary ==
  ASSUME StoreInv, StoreInv', AnswersInv, CapInv, CapInv', NEW r \in Request, UnderWay(r), Lands(r)
  PROVE  Library!Apply(r)
<1>0. PICK t \in Request, i \in Request : t = call[r].tour /\ i = call[r].image
  BY DEF StoreInv, TypeOK, Call
<1>1. /\ OpAt(r) /\ r \notin landed /\ landed' = landed \cup {r}
      /\ doc \in [Request -> Doc] /\ tours \subseteq Request
  BY DEF AnswersInv, AnswerRight, Lands, UnderWay, StoreInv, TypeOK, Call
<1>2. ShownTours = tours /\ ShownPhotos = Images /\ ShownTours' = tours' /\ ShownPhotos' = Images'
  BY ShownWhole, ShownWholeNext
<1>3. /\ r \notin ShownTours /\ Library!AddTour(r) => Library!Apply(r)
      /\ \A u \in ShownTours :
           Library!AddPhoto(r, u) \/ Library!EditDetails(r, u) \/ Library!RemoveTour(u)
             \/ (\E j \in landed : Library!RemovePhoto(u, j)) => Library!Apply(r)
  BY <1>1 DEF Library!Apply, ShownTours
<1>4. CASE CreatesTour(r)
  <2>1. r \notin tours
    BY <1>1, <1>4 DEF CreatesTour, StoreInv, ToursUploaded
  <2>2. /\ tours' = tours \cup {r} /\ Images' = [Images EXCEPT ![r] = {}]
        /\ Details' = [Details EXCEPT ![r] = r]
    BY <1>1, <1>4 DEF CreatesTour, NewDoc, Images, Details
  <2>3. Library!AddTour(r)
    BY <1>2, <2>2 DEF Library!AddTour, ShownTours, ShownPhotos, Details
  <2> QED BY <1>2, <1>3, <2>1, <2>3
<1>5. CASE AppendsPhoto(r)
  <2>1. /\ t \in tours /\ tours' = tours /\ Details' = Details
        /\ Images' = [Images EXCEPT ![t] = Images[t] \cup {r}]
    BY <1>0, <1>1, <1>5 DEF AppendsPhoto, Rewrites, Images, Details
  <2>2. Cardinality(Images[t]) < MaxImages
    <3>1. r \notin doc[t].images /\ doc'[t].images = doc[t].images \cup {r}
      BY <1>0, <1>1, <1>5 DEF StoreInv, EntriesUploaded, Uploaded, AppendsPhoto, Rewrites
    <3>2. Cardinality(doc[t].images \cup {r}) = Cardinality(doc[t].images) + 1
      BY <1>1, <3>1, FS_AddElement DEF CapInv
    <3>3. Cardinality(doc[t].images) \in Nat /\ Cardinality(doc'[t].images) <= MaxImages
      BY <1>1, FS_CardinalityType DEF CapInv
    <3> QED BY <1>1, <3>1, <3>2, <3>3, StoreAssumption DEF Images
  <2>3. Library!Cardinality(ShownPhotos[t]) < MaxImages
    BY <1>2, <2>2, SameCardinality
  <2>4. Library!AddPhoto(r, t)
    BY <1>2, <2>1, <2>3 DEF Library!AddPhoto, ShownTours, ShownPhotos, Details
  <2> QED BY <1>2, <1>3, <2>1, <2>4
<1>6. CASE PatchesTour(r)
  <2>1. t \in tours /\ tours' = tours /\ Images' = Images /\ Details' = [Details EXCEPT ![t] = r]
    BY <1>0, <1>1, <1>6 DEF PatchesTour, Rewrites, Images, Details
  <2>2. Library!EditDetails(r, t)
    BY <1>2, <2>1 DEF Library!EditDetails, ShownTours, ShownPhotos, Details
  <2> QED BY <1>2, <1>3, <2>1, <2>2
<1>7. CASE ReplacesTour(r)
  <2>1. /\ t \in tours /\ tours' = tours /\ Details' = Details /\ i \in landed
        /\ Images' = [Images EXCEPT ![t] = Images[t] \ {i}]
    BY <1>0, <1>1, <1>7 DEF ReplacesTour, Rewrites, OpAt, DeleteImagePc, Images, Details
  <2>2. Library!RemovePhoto(t, i)
    BY <1>2, <2>1 DEF Library!RemovePhoto, ShownTours, ShownPhotos, Details
  <2> QED BY <1>2, <1>3, <2>1, <2>2
<1>8. CASE DropsTour(r)
  <2>1. /\ t \in tours /\ tours' = tours \ {t}
        /\ Images' = [Images EXCEPT ![t] = {}] /\ Details' = [Details EXCEPT ![t] = t]
    BY <1>0, <1>1, <1>8 DEF DropsTour, Blank, Images, Details
  <2>2. Library!RemoveTour(t)
    BY <1>2, <2>1 DEF Library!RemoveTour, ShownTours, ShownPhotos, Details
  <2> QED BY <1>2, <1>3, <2>1, <2>2
<1> QED BY <1>4, <1>5, <1>6, <1>7, <1>8 DEF Lands

\* The handlers implement TourLibrary, whatever interleaves and whatever call is rejected: each step is
\* one change of the library or none, and an answer, if it gives one, is true.
THEOREM Implementation ==
  ASSUME "ackLost" \notin Faults
  PROVE  Spec => ImplementsLibrary
<1>1. Init => Library!LibInit
  <2> SUFFICES ASSUME Init PROVE Library!LibInit
    OBVIOUS
  <2>1. /\ StoreInv /\ tours = {} /\ landed = {}
        /\ \A r \in Request : /\ doc[r].images = {} /\ doc[r].details = r
                              /\ call[r].pc = "idle"
    BY InitStoreInv DEF Init, Blank
  <2>2. ShownTours = {} /\ ShownPhotos = [t \in Request |-> {}]
    BY ShownWhole, <2>1 DEF Images
  <2> QED BY <2>1, <2>2 DEF Library!LibInit, ShownTours, ShownPhotos
<1>2. ASSUME StoreInv, StoreInv', AnswersInv, AnswersInv', CapInv, CapInv', [Next]_vars
      PROVE  [Library!LibNext]_(Library!libVars)
  <2>1. TypeOK
    BY <1>2 DEF StoreInv
  <2>2. CASE UNCHANGED vars
    <3>1. UNCHANGED <<tours, doc, stored, call, landed, abandoned>>
      BY <2>2 DEF vars
    <3> QED BY <3>1 DEF Library!libVars
  <2>3. ASSUME NEW r \in Request, Begin(r) PROVE Library!LibNext
    <3>1. Begins(r)
      BY <2>1, <2>3, BeginShape
    <3>2. Stays /\ call[r].pc # "done" /\ \A d \in Request \ {r} : call'[d] = call[d]
      BY <3>1 DEF Begins, Stays
    <3> QED BY <1>2, <2>1, <3>2, KeepsLibrary, RepliesTruly DEF Library!LibNext
  <2>4. ASSUME NEW r \in Request, Step(r) PROVE Library!LibNext
    <3>1. call[r].pc # "done" /\ \A d \in Request \ {r} : call'[d] = call[d]
      BY <2>1, <2>4, StepMoves DEF Frame
    <3>2. Library!Reply(r)
      BY <1>2, <2>1, <3>1, RepliesTruly
    <3>3. CASE CreateTour(r) \/ Append(r) \/ Patch(r) \/ Replace(r) \/ DeleteDoc(r)
      <4>1. UnderWay(r)
        BY <3>3 DEF CreateTour, Append, Patch, Replace, DeleteDoc, UnderWay
      <4>2. Library!Apply(r)
        BY <1>2, <3>3, <4>1, LandingShape, AppliesToLibrary
      <4> QED BY <3>2, <4>2 DEF Library!LibNext
    <3>4. CASE ~(CreateTour(r) \/ Append(r) \/ Patch(r) \/ Replace(r) \/ DeleteDoc(r))
      <4>1. QuietStep(r)
        BY <2>1, <2>4, <3>4, QuietShape
      <4>2. Library!Keep
        BY <1>2, <4>1, KeepsLibrary DEF QuietStep
      <4> QED BY <3>2, <4>2 DEF Library!LibNext
    <3> QED BY <3>3, <3>4
  <2> QED BY <1>2, <2>2, <2>3, <2>4 DEF Next, Rest
<1> QED BY <1>1, <1>2, AnswersInvariant, CapInvariant, PTL DEF Spec, ImplementsLibrary, Library!LibSpec

===============================================================================
