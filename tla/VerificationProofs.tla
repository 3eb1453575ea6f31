------------------------- MODULE VerificationProofs -------------------------
(* Theorems about Verification, for any papers, rows, staff and uploads.     *)
EXTENDS Verification, TLAPS

\* A step of the phone leaves the server alone, a step of the server the phone.
PhoneStep ==
  \/ \E u \in Uploads : Answer(u) \/ GiveUp(u) \/ LosePost(u)
  \/ Continue \/ Back \/ (\E t \in Types : TakePhoto(t)) \/ CameraBack
  \/ KeepPhoto \/ Complete \/ UploadLater
  \/ Kill \/ Start \/ Restore \/ RecoverClear \/ RecoverPhoto
ReviewStep(r) == MarkDocument(r) \/ CountRemaining(r) \/ DecideProfile(r) \/ ReviewFails(r)

LEMMA PhoneSteps ==
  ASSUME PhoneStep
  PROVE  UNCHANGED server
<1>1. CASE \E u \in Uploads : Answer(u) \/ GiveUp(u) \/ LosePost(u)
  BY <1>1, Zenon DEF Answer, GiveUp, LosePost, Settled
<1>2. CASE Continue \/ Back \/ (\E t \in Types : TakePhoto(t)) \/ CameraBack
  BY <1>2, Zenon DEF Continue, Back, FlowElse, TakePhoto, CameraBack
<1>3. CASE KeepPhoto \/ Complete \/ UploadLater
  BY <1>3, Zenon DEF KeepPhoto, Complete, UploadLater
<1>4. CASE Kill \/ Start \/ Restore \/ RecoverClear \/ RecoverPhoto
  BY <1>4, Zenon DEF Kill, Start, Restore, RecoverClear, RecoverPhoto
<1> QED
  BY <1>1, <1>2, <1>3, <1>4 DEF PhoneStep

LEMMA NextSteps ==
  ASSUME [Next]_vars
  PROVE  \/ UNCHANGED server
         \/ \E u \in Uploads : Land(u)
         \/ \E r \in Reviewers : ReviewStep(r)
<1>1. CASE UNCHANGED vars
  BY <1>1 DEF vars, server
<1>2. CASE Next
  <2>1. PhoneStep \/ (\E u \in Uploads : Land(u)) \/ (\E r \in Reviewers : ReviewStep(r))
    BY <1>2, Zenon DEF Next, PhoneStep, ReviewStep
  <2> QED
    BY <2>1, PhoneSteps
<1> QED
  BY <1>1, <1>2

-----------------------------------------------------------------------------
(* Types: first what the server keeps. *)

ServerTypeOK ==
  /\ kind \in [Files -> Types \cup {None}]
  /\ verdict \in [Files -> {"SUBMITTED", "VERIFIED", "REJECTED"}]
  /\ profile \in [kyc : {"NOT_STARTED", "SUBMITTED", "VERIFIED", "REJECTED"},
                  vehicle : BOOLEAN, active : BOOLEAN]
  /\ rev \in [Reviewers -> [at : {"none", "count", "write"}, decision : {"VERIFIED", "REJECTED"}]]
  /\ halted \in BOOLEAN /\ crossed \subseteq Files

LEMMA UnusedRow ==
  ASSUME Filed # Files
  PROVE  Unused \in Files /\ kind[Unused] = None
BY DEF Filed, Unused

LEMMA ServerTyped ==
  ASSUME TypeOK, [Next]_vars
  PROVE  ServerTypeOK'
<1> USE DEF TypeOK, ServerTypeOK
<1>1. CASE UNCHANGED server
  BY <1>1 DEF server
<1>2. ASSUME NEW u \in Uploads, Land(u) PROVE ServerTypeOK'
  BY <1>2, UnusedRow DEF Land
<1>3. ASSUME NEW r \in Reviewers, ReviewStep(r) PROVE ServerTypeOK'
  <2>1. CASE MarkDocument(r)
    BY <2>1 DEF MarkDocument, Filed
  <2>2. CASE CountRemaining(r)
    BY <2>2 DEF CountRemaining, NoReview
  <2>3. CASE DecideProfile(r)
    BY <2>3 DEF DecideProfile, NoReview
  <2>4. CASE ReviewFails(r)
    BY <2>4 DEF ReviewFails, NoReview
  <2> QED
    BY <1>3, <2>1, <2>2, <2>3, <2>4 DEF ReviewStep
<1> QED
  BY <1>1, <1>2, <1>3, NextSteps

-----------------------------------------------------------------------------
(* Then what the phone keeps, and that what it has in hand is of some type.  *)

UploadTypes ==
  [type : Types \cup {None}, at : {"none", "posted", "landed"}, alive : BOOLEAN, last : BOOLEAN]

PhoneTypeOK ==
  /\ up \in [Uploads -> UploadTypes]
  /\ phase \in {"closed", "restoring", "open", "done"}
  /\ ui \in [step : Steps, shots : SUBSET Types, ticks : SUBSET Types]
  /\ busy \in Types \cup {None}
  /\ camera \in [type : Types \cup {None}, back : BOOLEAN]
  /\ recov \in [type : Types \cup {None}, cleared : BOOLEAN]
  /\ native \in Types \cup {None}
  /\ disk \in [pending : Types \cup {None}, onboarded : BOOLEAN]

Carried ==
  /\ \A u \in Uploads : up[u].at # "none" => up[u].type # None
  /\ \A u \in Uploads : up[u].alive => up[u].at # "none"
  /\ camera.back => camera.type # None
  /\ recov.cleared => recov.type # None

PhoneInv == PhoneTypeOK /\ Carried

LEMMA FreshUiTyped == FreshUi \in [step : Steps, shots : SUBSET Types, ticks : SUBSET Types]
BY DEF FreshUi, Steps

LEMMA FinishTyped ==
  ASSUME Finish
  PROVE  /\ phase' \in {"closed", "restoring", "open", "done"}
         /\ ui' \in [step : Steps, shots : SUBSET Types, ticks : SUBSET Types]
         /\ busy' \in Types \cup {None}
         /\ disk' \in [pending : Types \cup {None}, onboarded : BOOLEAN]
BY FreshUiTyped DEF Finish

LEMMA SettledTyped ==
  ASSUME PhoneInv, NEW u \in Uploads, NEW S \in SUBSET Types, Settled(u, S),
         up' \in [Uploads -> UploadTypes],
         \A v \in Uploads : up'[v].at # "none" => up'[v].type # None,
         \A v \in Uploads : up'[v].alive => up'[v].at # "none"
  PROVE  PhoneInv'
<1>1. UNCHANGED <<camera, recov, native>>
  BY DEF Settled
<1>2. CASE Finish
  BY <1>1, <1>2, FinishTyped DEF PhoneInv, PhoneTypeOK, Carried
<1>3. CASE /\ ui' = IF phase = "open" THEN [ui EXCEPT !.ticks = @ \cup S] ELSE ui
           /\ busy' = None /\ UNCHANGED <<phase, disk>>
  <2>1. ui' \in [step : Steps, shots : SUBSET Types, ticks : SUBSET Types]
    BY <1>3 DEF PhoneInv, PhoneTypeOK
  <2> QED
    BY <1>1, <1>3, <2>1 DEF PhoneInv, PhoneTypeOK, Carried
<1> QED
  BY <1>2, <1>3 DEF Settled

LEMMA UploadBegins ==
  ASSUME PhoneInv, NEW u \in Uploads, NEW t \in Types, NEW last \in BOOLEAN, StartUpload(u, t, last)
  PROVE  /\ up' \in [Uploads -> UploadTypes]
         /\ \A v \in Uploads : up'[v].at # "none" => up'[v].type # None
         /\ \A v \in Uploads : up'[v].alive => up'[v].at # "none"
BY NoneAssumption DEF StartUpload, PhoneInv, PhoneTypeOK, Carried, UploadTypes, Types

LEMMA UploadSteps ==
  ASSUME PhoneInv, NEW u \in Uploads, Land(u) \/ Answer(u) \/ GiveUp(u) \/ LosePost(u)
  PROVE  PhoneInv'
<1> USE DEF PhoneInv
<1>1. \A v \in Uploads : up[v] \in UploadTypes
  BY DEF PhoneTypeOK
<1>2. CASE Land(u)
  <2>1. up' = [up EXCEPT ![u] = IF up[u].alive THEN [@ EXCEPT !.at = "landed"] ELSE NoUpload]
        /\ up[u].at = "posted" /\ UNCHANGED phone
    BY <1>2 DEF Land
  <2>2. up' \in [Uploads -> UploadTypes]
    BY <2>1 DEF PhoneTypeOK, UploadTypes, NoUpload
  <2>3. Carried'
    BY <1>1, <2>1 DEF Carried, PhoneTypeOK, UploadTypes, NoUpload, phone
  <2> QED
    BY <2>1, <2>2, <2>3 DEF PhoneTypeOK, phone
<1>3. CASE Answer(u)
  <2>1. up' = [up EXCEPT ![u] = NoUpload] /\ Settled(u, {up[u].type}) /\ up[u].at = "landed"
    BY <1>3 DEF Answer
  <2>2. {up[u].type} \in SUBSET Types
    BY <1>1, <2>1 DEF Carried, UploadTypes
  <2>3. /\ up' \in [Uploads -> UploadTypes]
        /\ \A v \in Uploads : up'[v].at # "none" => up'[v].type # None
        /\ \A v \in Uploads : up'[v].alive => up'[v].at # "none"
    BY <2>1 DEF PhoneTypeOK, Carried, UploadTypes, NoUpload
  <2> QED
    BY <2>1, <2>2, <2>3, SettledTyped
<1>4. CASE GiveUp(u)
  <2>1. /\ up[u].alive /\ Settled(u, {})
        /\ up' = [up EXCEPT ![u] = IF up[u].at = "posted"
                                   THEN [@ EXCEPT !.alive = FALSE, !.last = FALSE] ELSE NoUpload]
    BY <1>4 DEF GiveUp
  <2>2. /\ up' \in [Uploads -> UploadTypes]
        /\ \A v \in Uploads : up'[v].at # "none" => up'[v].type # None
        /\ \A v \in Uploads : up'[v].alive => up'[v].at # "none"
    BY <2>1 DEF PhoneTypeOK, Carried, UploadTypes, NoUpload
  <2> QED
    BY <2>1, <2>2, SettledTyped, {} \in SUBSET Types
<1>5. CASE LosePost(u)
  <2>1. up' = [up EXCEPT ![u] = NoUpload] /\ UNCHANGED phone
    BY <1>5 DEF LosePost
  <2> QED
    BY <2>1 DEF PhoneTypeOK, Carried, UploadTypes, NoUpload, phone
<1> QED
  BY <1>2, <1>3, <1>4, <1>5

LEMMA FlowSteps ==
  ASSUME PhoneInv,
         \/ Continue \/ Back \/ (\E t \in Types : TakePhoto(t)) \/ CameraBack
         \/ KeepPhoto \/ Complete \/ UploadLater
  PROVE  PhoneInv'
<1> USE DEF PhoneInv
<1>1. CASE Continue \/ Back
  <2>1. \E step \in Steps : Go(step)
    BY <1>1 DEF Continue, Back, Steps
  <2>2. FlowElse
    BY <1>1 DEF Continue, Back
  <2> QED
    BY <2>1, <2>2 DEF Go, FlowElse, PhoneTypeOK, Carried
<1>2. ASSUME NEW t \in Types, TakePhoto(t) PROVE PhoneInv'
  BY <1>2 DEF TakePhoto, PhoneTypeOK, Carried
<1>3. CASE CameraBack
  <2>1. disk' \in [pending : Types \cup {None}, onboarded : BOOLEAN]
    BY <1>3 DEF CameraBack, PhoneTypeOK
  <2>2. camera' \in [type : Types \cup {None}, back : BOOLEAN] /\ (camera'.back => camera'.type # None)
    <3>1. CASE camera' = [camera EXCEPT !.back = TRUE]
      BY <1>3, <3>1 DEF CameraBack, PhoneTypeOK
    <3>2. CASE camera' = NoCamera
      BY <3>2 DEF NoCamera
    <3> QED
      BY <1>3, <3>1, <3>2 DEF CameraBack
  <2> QED
    BY <1>3, <2>1, <2>2 DEF CameraBack, PhoneTypeOK, Carried
<1>4. CASE KeepPhoto
  <2>1. camera.type \in Types
    BY <1>4 DEF KeepPhoto, PhoneTypeOK, Carried
  <2>2. ui' \in [step : Steps, shots : SUBSET Types, ticks : SUBSET Types]
    BY <1>4, <2>1 DEF KeepPhoto, Shown, PhoneTypeOK
  <2>3. /\ up' \in [Uploads -> UploadTypes]
        /\ \A v \in Uploads : up'[v].at # "none" => up'[v].type # None
        /\ \A v \in Uploads : up'[v].alive => up'[v].at # "none"
    BY <1>4, <2>1, UploadBegins DEF KeepPhoto, PhoneTypeOK, Carried
  <2> QED
    BY <1>4, <2>1, <2>2, <2>3 DEF KeepPhoto, NoCamera, PhoneTypeOK, Carried
<1>5. CASE Complete
  <2>1. UNCHANGED <<camera, recov, native>>
    BY <1>5 DEF Complete
  <2>2. CASE Finish /\ UNCHANGED up
    BY <2>1, <2>2, FinishTyped DEF PhoneTypeOK, Carried
  <2>3. ASSUME NEW u \in Uploads, StartUpload(u, "VEHICLE_PHOTO", TRUE), busy' = "VEHICLE_PHOTO",
               UNCHANGED <<phase, ui, disk>>
        PROVE  PhoneInv'
    <3>1. "VEHICLE_PHOTO" \in Types
      BY DEF Types
    <3> QED
      BY <2>1, <2>3, <3>1, UploadBegins DEF PhoneTypeOK, Carried
  <2> QED
    BY <1>5, <2>2, <2>3 DEF Complete
<1>6. CASE UploadLater
  <2>1. PICK u \in Uploads, t \in Types : StartUpload(u, t, FALSE)
    BY <1>6, LaterAssumption DEF UploadLater, Types
  <2>2. UNCHANGED phone
    BY <1>6 DEF UploadLater
  <2> QED
    BY <2>1, <2>2, UploadBegins DEF PhoneTypeOK, Carried, phone
<1> QED
  BY <1>1, <1>2, <1>3, <1>4, <1>5, <1>6

LEMMA RestartSteps ==
  ASSUME PhoneInv, Kill \/ Start \/ Restore \/ RecoverClear \/ RecoverPhoto
  PROVE  PhoneInv'
<1> USE DEF PhoneInv
<1>1. CASE Kill
  <2>1. /\ up' \in [Uploads -> UploadTypes]
        /\ \A v \in Uploads : up'[v].at # "none" => up'[v].type # None
        /\ \A v \in Uploads : up'[v].alive => up'[v].at # "none"
    <3>1. up' = [u \in Uploads |->
                  IF up[u].at = "posted" THEN [up[u] EXCEPT !.alive = FALSE, !.last = FALSE]
                  ELSE NoUpload]
      BY <1>1 DEF Kill
    <3>2. \A u \in Uploads : up[u] \in UploadTypes
      BY DEF PhoneTypeOK
    <3>3. \A u \in Uploads : up'[u] = IF up[u].at = "posted"
                                      THEN [up[u] EXCEPT !.alive = FALSE, !.last = FALSE]
                                      ELSE NoUpload
      BY <3>1
    <3>4. ASSUME NEW u \in Uploads
          PROVE  /\ up'[u] \in UploadTypes
                 /\ up'[u].at # "none" => up'[u].type # None
                 /\ ~up'[u].alive
      <4>1. CASE up[u].at = "posted"
        BY <4>1, <3>2, <3>3 DEF UploadTypes, Carried
      <4>2. CASE up[u].at # "posted"
        <5>1. up'[u] = NoUpload
          BY <4>2, <3>3
        <5>2. NoUpload \in UploadTypes /\ NoUpload.at = "none" /\ ~NoUpload.alive
          BY DEF UploadTypes, NoUpload
        <5> QED
          BY <5>1, <5>2
      <4> QED
        BY <4>1, <4>2
    <3>5. up' \in [Uploads -> UploadTypes]
      BY <3>1, <3>4
    <3> QED
      BY <3>4, <3>5
  <2>2. /\ phase' = "closed" /\ busy' = None /\ UNCHANGED <<ui, disk>>
        /\ camera' \in {camera, NoCamera} /\ recov' = NoRecovery /\ native' = None
    BY <1>1 DEF Kill
  <2>3. camera' \in [type : Types \cup {None}, back : BOOLEAN] /\ (camera'.back => camera'.type # None)
    <3>1. CASE camera' = camera
      BY <3>1 DEF PhoneTypeOK, Carried
    <3>2. CASE camera' = NoCamera
      BY <3>2 DEF NoCamera
    <3> QED
      BY <2>2, <3>1, <3>2
  <2>4. recov' \in [type : Types \cup {None}, cleared : BOOLEAN] /\ (recov'.cleared => recov'.type # None)
    BY <2>2 DEF NoRecovery
  <2> QED
    BY <2>1, <2>2, <2>3, <2>4 DEF PhoneTypeOK, Carried
<1>2. CASE Start
  <2>1. camera' = NoCamera /\ UNCHANGED <<up, recov>>
    BY <1>2 DEF Start
  <2>2. CASE Finish /\ native' = None
    BY <2>1, <2>2, FinishTyped DEF PhoneTypeOK, Carried, NoCamera
  <2>3. CASE phase' = "restoring" /\ native' \in {None, camera.type} /\ UNCHANGED <<ui, busy, disk>>
    BY <2>1, <2>3 DEF PhoneTypeOK, Carried, NoCamera
  <2> QED
    BY <1>2, <2>2, <2>3 DEF Start
<1>3. CASE Restore
  <2>1. UNCHANGED <<up, camera>>
    BY <1>3 DEF Restore
  <2>2. CASE Finish /\ native' = None /\ UNCHANGED recov
    BY <2>1, <2>2, FinishTyped DEF PhoneTypeOK, Carried
  <2>3. CASE /\ phase' = "open" /\ recov' = [type |-> disk.pending, cleared |-> FALSE]
             /\ UNCHANGED <<ui, busy, native, disk>>
    BY <2>1, <2>3 DEF PhoneTypeOK, Carried
  <2> QED
    BY <1>3, <2>2, <2>3 DEF Restore
<1>4. CASE RecoverClear
  BY <1>4 DEF RecoverClear, PhoneTypeOK, Carried
<1>5. CASE RecoverPhoto
  <2>1. /\ recov.type \in Types /\ recov' = NoRecovery /\ native' = None
        /\ UNCHANGED <<phase, camera, disk>>
    BY <1>5 DEF RecoverPhoto, PhoneTypeOK, Carried
  <2>2. ui' \in [step : Steps, shots : SUBSET Types, ticks : SUBSET Types]
    <3>1. ui' = ui \/ Shown(recov.type, {})
      BY <1>5, Zenon DEF RecoverPhoto
    <3>2. ui \in [step : Steps, shots : SUBSET Types, ticks : SUBSET Types]
      BY DEF PhoneTypeOK
    <3>3. CASE Shown(recov.type, {})
      BY <2>1, <3>2, <3>3 DEF Shown
    <3> QED
      BY <3>1, <3>2, <3>3
  <2>3. busy' \in Types \cup {None}
    BY <1>5, <2>1 DEF RecoverPhoto, PhoneTypeOK
  <2>4. /\ up' \in [Uploads -> UploadTypes]
        /\ \A v \in Uploads : up'[v].at # "none" => up'[v].type # None
        /\ \A v \in Uploads : up'[v].alive => up'[v].at # "none"
    BY <1>5, <2>1, UploadBegins, RecoveryAssumption DEF RecoverPhoto, PhoneTypeOK, Carried
  <2> QED
    BY <2>1, <2>2, <2>3, <2>4 DEF PhoneTypeOK, Carried, NoRecovery
<1> QED
  BY <1>1, <1>2, <1>3, <1>4, <1>5

LEMMA PhoneTyped ==
  ASSUME PhoneInv, [Next]_vars
  PROVE  PhoneInv'
<1>1. CASE UNCHANGED vars
  BY <1>1 DEF vars, PhoneInv, PhoneTypeOK, Carried
<1>2. ASSUME NEW r \in Reviewers, ReviewStep(r) PROVE PhoneInv'
  <2>1. UNCHANGED up /\ UNCHANGED phone
    BY <1>2, Zenon DEF ReviewStep, MarkDocument, CountRemaining, DecideProfile, ReviewFails
  <2> QED
    BY <2>1 DEF phone, PhoneInv, PhoneTypeOK, Carried
<1>3. CASE Next
  <2>1. \/ \E u \in Uploads : Land(u) \/ Answer(u) \/ GiveUp(u) \/ LosePost(u)
        \/ \E r \in Reviewers : ReviewStep(r)
        \/ \/ Continue \/ Back \/ (\E t \in Types : TakePhoto(t)) \/ CameraBack
           \/ KeepPhoto \/ Complete \/ UploadLater
        \/ Kill \/ Start \/ Restore \/ RecoverClear \/ RecoverPhoto
    BY <1>3, Zenon DEF Next, ReviewStep
  <2> QED
    BY <1>2, <2>1, UploadSteps, FlowSteps, RestartSteps
<1> QED
  BY <1>1, <1>3

LEMMA TypeInit == Init => TypeOK /\ Carried
<1> SUFFICES ASSUME Init PROVE TypeOK /\ Carried
  OBVIOUS
<1>1. ServerTypeOK
  BY DEF Init, ServerTypeOK, NoReview
<1>2. PhoneTypeOK /\ Carried
  <2>1. up \in [Uploads -> UploadTypes] /\ \A u \in Uploads : up[u].at = "none" /\ up[u].alive = FALSE
    BY DEF Init, UploadTypes, NoUpload
  <2>2. /\ camera \in [type : Types \cup {None}, back : BOOLEAN] /\ camera.back = FALSE
        /\ recov \in [type : Types \cup {None}, cleared : BOOLEAN] /\ recov.cleared = FALSE
        /\ disk \in [pending : Types \cup {None}, onboarded : BOOLEAN]
    BY DEF Init, NoCamera, NoRecovery
  <2> QED
    BY <2>1, <2>2, FreshUiTyped DEF Init, PhoneTypeOK, Carried
<1> QED
  BY <1>1, <1>2 DEF TypeOK, ServerTypeOK, PhoneTypeOK, UploadTypes

LEMMA TypeNext == TypeOK /\ Carried /\ [Next]_vars => (TypeOK /\ Carried)'
<1> SUFFICES ASSUME TypeOK, Carried, [Next]_vars PROVE (TypeOK /\ Carried)'
  OBVIOUS
<1>1. PhoneInv
  BY DEF PhoneInv, TypeOK, PhoneTypeOK, UploadTypes
<1>2. ServerTypeOK' /\ PhoneTypeOK' /\ Carried'
  BY <1>1, ServerTyped, PhoneTyped DEF PhoneInv
<1> QED
  BY <1>2 DEF TypeOK, ServerTypeOK, PhoneTypeOK, UploadTypes

\* Every variable of server and phone keeps its type: rows stay documents, uploads that are
\* under way are of some type, and so is a photo that was handed back or is being recovered.
THEOREM VerificationTyped == Spec => []TypeOK
BY TypeInit, TypeNext, PTL DEF Spec

-----------------------------------------------------------------------------
(* What the reviews promise, which is a matter of the server alone.          *)

\* A row that is not there yet is not reviewed.
FreshRows == \A f \in Files \ Filed : verdict[f] = "SUBMITTED"

\* When every document has been reviewed and the profile is still undecided,
\* the review that will decide it is on its way.
SomeoneConcludes ==
  Filed # {} /\ Submitted = {} /\ ~halted /\ profile.kyc \notin {"VERIFIED", "REJECTED"}
    => \E r \in Reviewers : rev[r].at # "none"

\* What is unreviewed once a profile is verified, or about to be, came late.
LateOnes ==
  profile.kyc = "VERIFIED" \/ (\E r \in Reviewers : rev[r] = [at |-> "write", decision |-> "VERIFIED"])
    => Submitted \subseteq crossed

ReviewInv == FreshRows /\ SomeoneConcludes /\ LateOnes

LEMMA ReviewInit == Init => ReviewInv
BY DEF Init, ReviewInv, FreshRows, SomeoneConcludes, LateOnes, Filed, Submitted, NoReview

LEMMA LandKeeps ==
  ASSUME TypeOK, Carried, ReviewInv, NEW u \in Uploads, Land(u)
  PROVE  ReviewInv'
<1>1. Unused \in Files /\ kind[Unused] = None /\ verdict[Unused] = "SUBMITTED"
  BY UnusedRow DEF Land, ReviewInv, FreshRows, Filed
<1>2. /\ kind' = [kind EXCEPT ![Unused] = up[u].type] /\ verdict' = verdict /\ rev' = rev
      /\ profile'.kyc = "SUBMITTED"
      /\ crossed' = IF \E r \in Reviewers : rev[r] = [at |-> "write", decision |-> "VERIFIED"]
                      THEN crossed \cup {Unused} ELSE crossed
  BY DEF Land, TypeOK
<1>3. /\ Filed \subseteq Filed' /\ Filed' \subseteq Filed \cup {Unused}
      /\ Submitted' \subseteq Submitted \cup {Unused}
      /\ Unused \in Filed' => Unused \in Submitted'
      /\ Submitted \subseteq Submitted'
  BY <1>1, <1>2 DEF TypeOK, Filed, Submitted
<1>4. FreshRows'
  BY <1>2, <1>3 DEF ReviewInv, FreshRows
<1>5. up[u].type # None
  BY DEF Land, Carried
<1>6. SomeoneConcludes'
  BY <1>1, <1>2, <1>3, <1>5 DEF SomeoneConcludes, Filed, TypeOK
<1>7. LateOnes'
  BY <1>2, <1>3 DEF ReviewInv, LateOnes
<1> QED
  BY <1>4, <1>6, <1>7 DEF ReviewInv

LEMMA ReviewsKeep ==
  ASSUME TypeOK, ReviewInv, NEW r \in Reviewers, ReviewStep(r)
  PROVE  ReviewInv'
<1>1. kind' = kind /\ Filed' = Filed
  BY DEF ReviewStep, MarkDocument, CountRemaining, DecideProfile, ReviewFails, Filed
<1>2. CASE MarkDocument(r)
  <2>1. PICK f \in Filed, d \in {"VERIFIED", "REJECTED"} :
          /\ verdict' = [verdict EXCEPT ![f] = d]
          /\ rev' = [rev EXCEPT ![r] = [at |-> "count", decision |-> d]]
          /\ crossed' = crossed \ {f} /\ profile' = profile
    BY <1>2 DEF MarkDocument
  <2>2. f \in Files /\ Submitted' = Submitted \ {f}
    BY <1>1, <2>1 DEF Submitted, Filed, TypeOK
  <2>3. FreshRows'
    BY <1>1, <2>1 DEF FreshRows, ReviewInv
  <2>4. rev'[r].at = "count" /\ \A q \in Reviewers \ {r} : rev'[q] = rev[q]
    BY <2>1 DEF TypeOK
  <2>5. SomeoneConcludes'
    BY <2>4 DEF SomeoneConcludes
  <2>6. LateOnes'
    BY <2>1, <2>2, <2>4 DEF LateOnes, ReviewInv
  <2> QED
    BY <2>3, <2>5, <2>6 DEF ReviewInv
<1>3. CASE CountRemaining(r)
  <2>1. /\ rev' = [rev EXCEPT ![r] = IF rev[r].decision = "REJECTED" \/ Submitted = {}
                                     THEN [@ EXCEPT !.at = "write"] ELSE NoReview]
        /\ UNCHANGED <<verdict, profile, halted, crossed>>
    BY <1>3 DEF CountRemaining
  <2>2. FreshRows' /\ Submitted' = Submitted
    BY <1>1, <2>1 DEF FreshRows, ReviewInv, Submitted
  <2>3. \A q \in Reviewers \ {r} : rev'[q] = rev[q]
    BY <2>1 DEF TypeOK
  <2>4. Submitted = {} => rev'[r].at = "write"
    BY <2>1 DEF TypeOK
  <2>5. rev'[r] = [at |-> "write", decision |-> "VERIFIED"] => Submitted = {}
    BY <2>1 DEF TypeOK, NoReview
  <2>6. SomeoneConcludes'
    BY <1>1, <2>2, <2>4 DEF SomeoneConcludes
  <2>7. LateOnes'
    BY <2>1, <2>2, <2>3, <2>5 DEF LateOnes, ReviewInv
  <2> QED
    BY <2>2, <2>6, <2>7 DEF ReviewInv
<1>4. CASE DecideProfile(r)
  <2>1. /\ rev[r].at = "write" /\ rev' = [rev EXCEPT ![r] = NoReview]
        /\ profile'.kyc = rev[r].decision /\ UNCHANGED <<verdict, crossed>>
    BY <1>4 DEF DecideProfile, TypeOK
  <2>2. FreshRows' /\ Submitted' = Submitted
    BY <1>1, <2>1 DEF FreshRows, ReviewInv, Submitted
  <2>3. profile'.kyc \in {"VERIFIED", "REJECTED"}
    BY <2>1 DEF TypeOK
  <2>4. profile'.kyc = "VERIFIED" => rev[r] = [at |-> "write", decision |-> "VERIFIED"]
    BY <2>1 DEF TypeOK
  <2>5. \A q \in Reviewers : rev'[q] = [at |-> "write", decision |-> "VERIFIED"] => rev[q] = rev'[q]
    BY <2>1 DEF TypeOK, NoReview
  <2>6. LateOnes'
    BY <2>1, <2>2, <2>4, <2>5 DEF LateOnes, ReviewInv
  <2> QED
    BY <2>2, <2>3, <2>6 DEF ReviewInv, SomeoneConcludes
<1>5. CASE ReviewFails(r)
  <2>1. /\ rev' = [rev EXCEPT ![r] = NoReview] /\ halted' = TRUE
        /\ UNCHANGED <<verdict, profile, crossed>>
    BY <1>5 DEF ReviewFails
  <2>2. FreshRows' /\ Submitted' = Submitted
    BY <1>1, <2>1 DEF FreshRows, ReviewInv, Submitted
  <2>3. \A q \in Reviewers : rev'[q] = [at |-> "write", decision |-> "VERIFIED"] => rev[q] = rev'[q]
    BY <2>1 DEF TypeOK, NoReview
  <2>4. LateOnes'
    BY <2>1, <2>2, <2>3 DEF LateOnes, ReviewInv
  <2> QED
    BY <2>1, <2>2, <2>4 DEF ReviewInv, SomeoneConcludes
<1> QED
  BY <1>2, <1>3, <1>4, <1>5 DEF ReviewStep

LEMMA ReviewNext == TypeOK /\ Carried /\ ReviewInv /\ [Next]_vars => ReviewInv'
<1> SUFFICES ASSUME TypeOK, Carried, ReviewInv, [Next]_vars PROVE ReviewInv'
  OBVIOUS
<1>1. CASE UNCHANGED server
  BY <1>1 DEF server, ReviewInv, FreshRows, SomeoneConcludes, LateOnes, Filed, Submitted
<1> QED
  BY <1>1, LandKeeps, ReviewsKeep, NextSteps

LEMMA ReviewHolds == Spec => []ReviewInv
BY TypeInit, TypeNext, ReviewInit, ReviewNext, PTL DEF Spec

\* The profile is decided once all documents are reviewed, in whatever overlap of reviews and
\* submissions, unless a review failed half way: until then somebody is about to conclude.
THEOREM ReviewsConclude == Spec => []ReviewConcludes
<1>1. ReviewInv => ReviewConcludes
  BY DEF ReviewInv, SomeoneConcludes, ReviewConcludes, NoReview
<1> QED
  BY <1>1, ReviewHolds, PTL

\* Nobody is verified over an unreviewed document, but for those filed between an approval's
\* count and its write.
THEOREM VerifiedAreReviewed == Spec => []VerifiedIsReviewed
<1>1. ReviewInv => VerifiedIsReviewed
  BY DEF ReviewInv, LateOnes, VerifiedIsReviewed
<1> QED
  BY <1>1, ReviewHolds, PTL

-----------------------------------------------------------------------------
(* That there is a selfie on file, which takes server and phone.             *)

OnFile(t) == \E f \in Files : kind[f] = t

\* What is marked as uploaded, or about to be, is on file.
TicksFiled ==
  /\ \A t \in ui.ticks : OnFile(t)
  /\ \A u \in Uploads : up[u].at = "landed" => OnFile(up[u].type)

\* Until there is a selfie, nothing is on file, nobody knows the driver, and the phone has
\* nothing in hand but a selfie.
Early ==
  /\ Filed = {} /\ ~Known /\ ~disk.onboarded /\ phase # "done"
  /\ ui.step \in {"welcome", "selfie"}
  /\ \A u \in Uploads : up[u].type \in {None, "SELFIE"}
  /\ {disk.pending, camera.type, recov.type} \subseteq {None, "SELFIE"}
  /\ \A r \in Reviewers : rev[r] = NoReview

\* Only the upload that ends the flow is waited for.
LastIsVehicle == \A u \in Uploads : up[u].last => up[u].type = "VEHICLE_PHOTO"

SelfieInv == TicksFiled /\ LastIsVehicle /\ (OnFile("SELFIE") \/ Early)

LEMMA SelfieInit == Init => SelfieInv
<1> SUFFICES ASSUME Init PROVE SelfieInv
  OBVIOUS
<1>1. TicksFiled /\ LastIsVehicle
  BY DEF Init, TicksFiled, LastIsVehicle, FreshUi, NoUpload
<1>2. Early
  BY DEF Init, Early, FreshUi, NoUpload, NoCamera, NoRecovery, NoReview, Filed, Known
<1> QED
  BY <1>1, <1>2 DEF SelfieInv

\* What is on file stays there.
LEMMA FiledStays ==
  ASSUME TypeOK, [Next]_vars, NEW t \in Types, OnFile(t)
  PROVE  OnFile(t)'
<1>0. t # None
  BY NoneAssumption DEF Types
<1>1. CASE UNCHANGED server
  BY <1>1 DEF server, OnFile
<1>2. ASSUME NEW u \in Uploads, Land(u) PROVE OnFile(t)'
  BY <1>0, <1>2, UnusedRow DEF Land, OnFile, TypeOK
<1>3. ASSUME NEW r \in Reviewers, ReviewStep(r) PROVE OnFile(t)'
  BY <1>3 DEF ReviewStep, MarkDocument, CountRemaining, DecideProfile, ReviewFails, OnFile
<1> QED
  BY <1>1, <1>2, <1>3, NextSteps

LEMMA EarlyTicks ==
  ASSUME TypeOK, Carried, SelfieInv, Early
  PROVE  /\ ui.ticks = {}
         /\ \A u \in Uploads : up[u].at # "landed" /\ ~up[u].last
<1>1. ASSUME NEW t \in Types PROVE ~OnFile(t)
  BY NoneAssumption DEF Early, Filed, OnFile, Types
<1>2. ui.ticks \subseteq Types
  BY DEF TypeOK
<1>3. \A u \in Uploads : up[u].at = "landed" => up[u].type \in Types
  BY DEF TypeOK, Carried
<1>4. \A u \in Uploads : ~up[u].last
  BY NoneAssumption DEF Early, SelfieInv, LastIsVehicle
<1> QED
  BY <1>1, <1>2, <1>3, <1>4 DEF SelfieInv, TicksFiled

\* What is marked as uploaded was answered; what was answered has landed.
LEMMA TicksNext ==
  ASSUME TypeOK, Carried, SelfieInv, [Next]_vars
  PROVE  TicksFiled'
<1> DEFINE StaysFiled(t) == \E f \in Files : kind'[f] = t
<1>0. /\ \A t \in ui.ticks : StaysFiled(t)
      /\ \A u \in Uploads : up[u].at = "landed" => StaysFiled(up[u].type)
  <2>1. ui.ticks \subseteq Types /\ \A u \in Uploads : up[u].at = "landed" => up[u].type \in Types
    BY DEF TypeOK, Carried
  <2>2. ASSUME NEW t \in Types, OnFile(t) PROVE StaysFiled(t)
    BY <2>2, FiledStays DEF OnFile
  <2> QED
    BY <2>1, <2>2 DEF SelfieInv, TicksFiled
<1> DEFINE NoneLands == \A u \in Uploads : up'[u].at = "landed" => up'[u] = up[u]
<1>1. ASSUME ui'.ticks \subseteq ui.ticks, NoneLands PROVE TicksFiled'
  BY <1>0, <1>1 DEF TicksFiled, OnFile
<1>2. ASSUME Finish PROVE ui'.ticks \subseteq ui.ticks
  BY <1>2 DEF Finish, FreshUi
<1>3. CASE UNCHANGED <<up, ui>>
  BY <1>1, <1>3
<1>4. ASSUME NEW u \in Uploads, Land(u) PROVE TicksFiled'
  <2>1. up[u].type \in Types /\ Unused \in Files
    BY <1>4, UnusedRow DEF Land, TypeOK, Carried
  <2>2. StaysFiled(up[u].type)
    BY <1>4, <2>1 DEF Land, TypeOK
  <2>3. \A v \in Uploads : up'[v].at = "landed" => up'[v].type = up[u].type \/ up'[v] = up[v]
    BY <1>4 DEF Land, NoUpload, TypeOK
  <2>4. ui' = ui
    BY <1>4 DEF Land, phone
  <2> QED
    BY <1>0, <2>2, <2>3, <2>4 DEF TicksFiled, OnFile
<1>5. ASSUME NEW u \in Uploads, NEW S \in SUBSET {up[u].type}, Settled(u, S), NoneLands,
             S # {} => up[u].at = "landed"
      PROVE  TicksFiled'
  <2>1. CASE Finish
    BY <1>1, <1>2, <1>5, <2>1
  <2>2. CASE ui' = IF phase = "open" THEN [ui EXCEPT !.ticks = @ \cup S] ELSE ui
    <3>1. \A t \in ui'.ticks : t \in ui.ticks \/ (t = up[u].type /\ up[u].at = "landed")
      <4>1. CASE phase = "open"
        BY <1>5, <2>2, <4>1 DEF TypeOK
      <4> QED
        BY <2>2, <4>1
    <3> QED
      BY <1>0, <1>5, <3>1 DEF TicksFiled, OnFile
  <2> QED
    BY <1>5, <2>1, <2>2 DEF Settled
<1>6. ASSUME NEW u \in Uploads, Answer(u) \/ GiveUp(u) PROVE TicksFiled'
  <2>1. NoneLands
    <3>1. CASE Answer(u)
      BY <3>1 DEF Answer, NoUpload, TypeOK
    <3>2. CASE GiveUp(u)
      BY <3>2 DEF GiveUp, NoUpload, TypeOK
    <3> QED
      BY <1>6, <3>1, <3>2
  <2>2. CASE Answer(u)
    BY <1>5, <2>1, <2>2 DEF Answer
  <2>3. CASE GiveUp(u)
    BY <1>5, <2>1, <2>3, {} \in SUBSET {up[u].type} DEF GiveUp
  <2> QED
    BY <1>6, <2>2, <2>3
<1>7. ASSUME NEW u \in Uploads, LosePost(u) PROVE TicksFiled'
  BY <1>1, <1>7 DEF LosePost, NoUpload, phone, TypeOK
<1>8. ASSUME NEW u \in Uploads, NEW t, NEW last, StartUpload(u, t, last) PROVE NoneLands
  BY <1>8 DEF StartUpload, TypeOK
<1>9. CASE Continue \/ Back
  BY <1>1, <1>9 DEF Continue, Back, Go, FlowElse, TypeOK
<1>10. CASE KeepPhoto
  <2>1. NoneLands
    BY <1>8, <1>10 DEF KeepPhoto
  <2>2. ui'.ticks \subseteq ui.ticks
    BY <1>10 DEF KeepPhoto, Shown, TypeOK
  <2> QED
    BY <1>1, <2>1, <2>2
<1>11. CASE Complete \/ UploadLater
  <2>1. NoneLands
    BY <1>8, <1>11 DEF Complete, UploadLater
  <2>2. Finish \/ ui' = ui
    BY <1>11 DEF Complete, UploadLater, phone
  <2> QED
    BY <1>1, <1>2, <2>1, <2>2
<1>12. CASE Kill
  BY <1>1, <1>12 DEF Kill, NoUpload, TypeOK
<1>13. CASE Start \/ Restore
  BY <1>1, <1>2, <1>13 DEF Start, Restore
<1>14. CASE RecoverPhoto
  <2>1. NoneLands
    BY <1>8, <1>14, RecoveryAssumption DEF RecoverPhoto
  <2>2. ui' = ui \/ Shown(recov.type, {})
    BY <1>14, Zenon DEF RecoverPhoto
  <2>3. ui'.ticks \subseteq ui.ticks
    <3>1. CASE Shown(recov.type, {})
      BY <3>1 DEF Shown, TypeOK
    <3> QED
      BY <2>2, <3>1
  <2> QED
    BY <1>1, <2>1, <2>3
<1>15. CASE (\E t \in Types : TakePhoto(t)) \/ CameraBack \/ RecoverClear
            \/ (\E r \in Reviewers : ReviewStep(r)) \/ UNCHANGED vars
  <2>1. UNCHANGED <<up, ui>>
    BY <1>15, Zenon DEF TakePhoto, CameraBack, RecoverClear, ReviewStep, MarkDocument,
       CountRemaining, DecideProfile, ReviewFails, phone, vars
  <2> QED
    BY <1>3, <2>1
<1> QED
  BY <1>4, <1>6, <1>7, <1>9, <1>10, <1>11, <1>12, <1>13, <1>14, <1>15 DEF Next, ReviewStep

LEMMA LastNext ==
  ASSUME TypeOK, LastIsVehicle, [Next]_vars
  PROVE  LastIsVehicle'
<1> DEFINE NoneWaits == \A u \in Uploads : up'[u].last => up'[u].type = up[u].type /\ up[u].last
<1>1. ASSUME NoneWaits PROVE LastIsVehicle'
  BY <1>1 DEF LastIsVehicle
<1>2. CASE UNCHANGED up
  BY <1>1, <1>2
<1>3. ASSUME NEW u \in Uploads, Land(u) \/ Answer(u) \/ GiveUp(u) \/ LosePost(u) PROVE LastIsVehicle'
  <2>1. CASE Land(u)
    BY <1>1, <2>1 DEF Land, NoUpload, TypeOK
  <2>2. CASE Answer(u) \/ LosePost(u)
    BY <1>1, <2>2 DEF Answer, LosePost, NoUpload, TypeOK
  <2>3. CASE GiveUp(u)
    BY <1>1, <2>3 DEF GiveUp, NoUpload, TypeOK
  <2> QED
    BY <1>3, <2>1, <2>2, <2>3
<1>4. ASSUME NEW u \in Uploads, NEW t, StartUpload(u, t, FALSE) PROVE LastIsVehicle'
  BY <1>1, <1>4 DEF StartUpload, TypeOK
<1>5. ASSUME NEW u \in Uploads, StartUpload(u, "VEHICLE_PHOTO", TRUE) PROVE LastIsVehicle'
  BY <1>5 DEF StartUpload, LastIsVehicle, TypeOK
<1>6. CASE KeepPhoto \/ UploadLater \/ RecoverPhoto
  BY <1>2, <1>4, <1>6, RecoveryAssumption DEF KeepPhoto, UploadLater, RecoverPhoto
<1>7. CASE Complete
  BY <1>2, <1>5, <1>7 DEF Complete
<1>8. CASE Kill
  BY <1>1, <1>8 DEF Kill, NoUpload, TypeOK
<1>9. CASE Continue \/ Back \/ (\E t \in Types : TakePhoto(t)) \/ CameraBack \/ Start \/ Restore
           \/ RecoverClear \/ (\E r \in Reviewers : ReviewStep(r)) \/ UNCHANGED vars
  <2>1. UNCHANGED up
    BY <1>9, Zenon DEF Continue, Back, FlowElse, TakePhoto, CameraBack, Start, Restore, RecoverClear,
       ReviewStep, MarkDocument, CountRemaining, DecideProfile, ReviewFails, vars
  <2> QED
    BY <1>2, <2>1
<1> QED
  BY <1>3, <1>6, <1>7, <1>8, <1>9 DEF Next, ReviewStep

\* While nothing is filed there is nothing to review, and the first row is a selfie.
LEMMA EarlyServer ==
  ASSUME TypeOK, Carried, Early, [Next]_vars
  PROVE  PhoneStep \/ UNCHANGED vars \/ OnFile("SELFIE")'
<1>1. ASSUME NEW u \in Uploads, Land(u) PROVE OnFile("SELFIE")'
  <2>1. up[u].type = "SELFIE" /\ Unused \in Files
    BY <1>1, UnusedRow DEF Land, Early, Carried
  <2> QED
    BY <1>1, <2>1 DEF Land, OnFile, TypeOK
<1>2. ASSUME NEW r \in Reviewers, ReviewStep(r) PROVE FALSE
  BY <1>2 DEF ReviewStep, MarkDocument, CountRemaining, DecideProfile, ReviewFails, Early, NoReview
<1>3. PhoneStep \/ UNCHANGED vars \/ (\E u \in Uploads : Land(u)) \/ (\E r \in Reviewers : ReviewStep(r))
  BY Zenon DEF Next, PhoneStep, ReviewStep
<1> QED
  BY <1>1, <1>2, <1>3

\* So does the phone, as long as it has no selfie uploaded.
LEMMA EarlyPhone ==
  ASSUME TypeOK, Carried, SelfieInv, Early, PhoneStep
  PROVE  Early'
<1> DEFINE Small == {None, "SELFIE"}
<1>0. /\ Filed' = Filed /\ Known' = Known /\ rev' = rev
      /\ ui.ticks = {} /\ \A u \in Uploads : up[u].at # "landed" /\ ~up[u].last
  BY PhoneSteps, EarlyTicks DEF server, Filed, Known
<1>1. ASSUME ~disk'.onboarded, phase' # "done", ui'.step \in {"welcome", "selfie"},
             \A u \in Uploads : up'[u].type \in Small,
             disk'.pending \in Small, camera'.type \in Small, recov'.type \in Small
      PROVE  Early'
  BY <1>0, <1>1 DEF Early
<1>2. ASSUME NEW u \in Uploads, Answer(u) \/ GiveUp(u) \/ LosePost(u) PROVE Early'
  <2>1. ~Answer(u)
    BY <1>0 DEF Answer
  <2>2. \A v \in Uploads : up'[v].type \in Small
    <3>1. CASE GiveUp(u)
      BY <3>1 DEF GiveUp, NoUpload, Early, TypeOK
    <3>2. CASE LosePost(u)
      BY <3>2 DEF LosePost, NoUpload, Early, TypeOK
    <3> QED
      BY <1>2, <2>1, <3>1, <3>2
  <2>3. CASE LosePost(u)
    BY <1>1, <2>2, <2>3 DEF LosePost, phone, Early
  <2>4. CASE GiveUp(u)
    <3>1. /\ ui' = IF phase = "open" THEN [ui EXCEPT !.ticks = @ \cup {}] ELSE ui
          /\ UNCHANGED <<phase, disk, camera, recov>>
      BY <1>0, <2>4 DEF GiveUp, Settled
    <3>2. ui'.step = ui.step
      BY <3>1 DEF TypeOK
    <3> QED
      BY <1>1, <2>2, <3>1, <3>2 DEF Early
  <2> QED
    BY <1>2, <2>1, <2>3, <2>4
<1>3. CASE Continue \/ Back
  <2>1. ui'.step \in {"welcome", "selfie"}
    BY <1>0, <1>3 DEF Continue, Back, Go, InFlow, Early, TypeOK
  <2> QED
    BY <1>1, <1>3, <2>1 DEF Continue, Back, FlowElse, Early
<1>4. ASSUME NEW t \in Types, TakePhoto(t) PROVE Early'
  <2>1. t = "SELFIE"
    BY <1>4 DEF TakePhoto, Offered, InFlow, Early
  <2> QED
    BY <1>1, <1>4, <2>1 DEF TakePhoto, Early, TypeOK
<1>5. CASE CameraBack
  <2>1. disk'.pending = None /\ disk'.onboarded = disk.onboarded
    BY <1>5 DEF CameraBack, TypeOK
  <2>2. camera'.type \in Small
    <3>1. CASE camera' = [camera EXCEPT !.back = TRUE]
      BY <3>1 DEF Early, TypeOK
    <3>2. CASE camera' = NoCamera
      BY <3>2 DEF NoCamera
    <3> QED
      BY <1>5, <3>1, <3>2 DEF CameraBack
  <2> QED
    BY <1>1, <1>5, <2>1, <2>2 DEF CameraBack, Early
<1>6. ASSUME NEW u \in Uploads, NEW t \in Small, StartUpload(u, t, FALSE)
      PROVE  \A v \in Uploads : up'[v].type \in Small
  BY <1>6 DEF StartUpload, Early, TypeOK
<1>7. CASE KeepPhoto
  <2>1. ui'.step = ui.step
    BY <1>7 DEF KeepPhoto, Shown, TypeOK
  <2>2. camera.type \in Small
    BY DEF Early
  <2>3. \A v \in Uploads : up'[v].type \in Small
    BY <1>6, <1>7, <2>2 DEF KeepPhoto, Early
  <2> QED
    BY <1>1, <1>7, <2>1, <2>3 DEF KeepPhoto, NoCamera, Early
<1>8. CASE Complete \/ UploadLater
  BY <1>8 DEF Complete, UploadLater, InFlow, Early
<1>9. CASE Kill
  <2>1. \A v \in Uploads : up'[v].type \in Small
    BY <1>9 DEF Kill, NoUpload, Early, TypeOK
  <2>2. camera'.type \in Small /\ recov'.type = None
    BY <1>9 DEF Kill, NoCamera, NoRecovery, Early
  <2> QED
    BY <1>1, <1>9, <2>1, <2>2 DEF Kill, Early
<1>10. CASE Start
  BY <1>1, <1>10 DEF Start, NoCamera, Early
<1>11. CASE Restore
  BY <1>1, <1>11 DEF Restore, Early
<1>12. CASE RecoverClear
  <2>1. disk'.pending = None /\ disk'.onboarded = disk.onboarded /\ recov'.type = recov.type
    BY <1>12 DEF RecoverClear, TypeOK
  <2> QED
    BY <1>1, <1>12, <2>1 DEF RecoverClear, Early
<1>13. CASE RecoverPhoto
  <2>1. ui' = ui \/ Shown(recov.type, {})
    BY <1>13, Zenon DEF RecoverPhoto
  <2>2. ui'.step = ui.step
    <3>1. CASE Shown(recov.type, {})
      BY <3>1 DEF Shown, TypeOK
    <3> QED
      BY <2>1, <3>1
  <2>3. recov.type \in Small
    BY DEF Early
  <2>4. \A v \in Uploads : up'[v].type \in Small
    BY <1>6, <1>13, <2>3, RecoveryAssumption DEF RecoverPhoto, Early
  <2> QED
    BY <1>1, <1>13, <2>2, <2>4 DEF RecoverPhoto, NoRecovery, Early
<1> QED
  BY <1>2, <1>3, <1>4, <1>5, <1>7, <1>8, <1>9, <1>10, <1>11, <1>12, <1>13 DEF PhoneStep

LEMMA SelfieNext == TypeOK /\ Carried /\ SelfieInv /\ [Next]_vars => SelfieInv'
<1> SUFFICES ASSUME TypeOK, Carried, SelfieInv, [Next]_vars PROVE SelfieInv'
  OBVIOUS
<1>1. TicksFiled' /\ LastIsVehicle'
  BY TicksNext, LastNext DEF SelfieInv
<1>2. CASE OnFile("SELFIE")
  BY <1>1, <1>2, FiledStays, "SELFIE" \in Types DEF SelfieInv, Types
<1>3. CASE Early
  <2>1. CASE OnFile("SELFIE")'
    BY <1>1, <2>1 DEF SelfieInv
  <2>2. CASE PhoneStep
    BY <1>1, <1>3, <2>2, EarlyPhone DEF SelfieInv
  <2>3. CASE UNCHANGED vars
    BY <1>1, <1>3, <2>3 DEF SelfieInv, Early, Filed, Known, vars
  <2> QED
    BY <1>3, <2>1, <2>2, <2>3, EarlyServer
<1> QED
  BY <1>2, <1>3 DEF SelfieInv

\* The driver who onboards on this phone is not past it without a selfie on file, and what
\* the app shows as uploaded is on file: until the first selfie has landed, the app is kept
\* at its first two steps.
THEOREM SelfieIsOnFile == Spec => []SelfieOnFile
<1>1. SelfieInv => SelfieOnFile
  BY DEF SelfieInv, TicksFiled, Early, OnFile, SelfieOnFile
<1> QED
  BY <1>1, TypeInit, TypeNext, SelfieInit, SelfieNext, PTL DEF Spec
=============================================================================
