---------------------------- MODULE Verification ----------------------------
(***************************************************************************)
(* How a new driver is onboarded and verified.  The phone leads through    *)
(* the steps of OnboardingFlow, uploads photos, and keeps its progress and *)
(* the photo being taken on disk, as Android may kill the app while the    *)
(* camera is open; KycScreen uploads more documents later.  The server     *)
(* files them (POST /drivers/me/kyc) and staff review them, in handlers    *)
(* of several awaits (documents.routes).  Riders' documents are filed and  *)
(* reviewed by the same code over tables of their own.                     *)
(*                                                                         *)
(* A photo is its type.  Signing, the image server and the POST are one    *)
(* upload, which fails or is given up at any time.  Vehicle type and plate *)
(* are taken to be typed in when the driver leaves the vehicle step.  The  *)
(* progress is saved in the step that changes it, and the phone's storage  *)
(* does not fail.                                                          *)
(***************************************************************************)
EXTENDS Naturals

CONSTANTS
  Papers,    \* documents of the documents step: GHANA_CARD, DRIVER_LICENSE
  Files,     \* BOUND: rows of DriverKycDocument
  Reviewers, \* members of staff, with one review each in service
  Uploads,   \* BOUND: uploads under way, those of a killed app included
  Recovery,  \* the upload of a recovered photo
  Later,     \* BOUND: types uploaded from KycScreen
  EarlyReviews, \* BOUND: do staff review while the driver is still in the flow?
  None       \* no type

ASSUME NoneAssumption == None \notin Papers \cup {"SELFIE", "VEHICLE_PHOTO"}
ASSUME RecoveryAssumption == Recovery \in Uploads
ASSUME LaterAssumption == Later \subseteq Papers \cup {"SELFIE", "VEHICLE_PHOTO"}
ASSUME EarlyAssumption == EarlyReviews \in BOOLEAN

VARIABLES
  kind,     \* server, per row: its type, None when there is no such row
  verdict,  \* server, per row: SUBMITTED, VERIFIED, REJECTED
  profile,  \* server: kycStatus, whether there is a vehicle and status is ACTIVE
  rev,      \* server: what each review in service does next, and its decision
  up,       \* the uploads: type, where they are, does the phone still wait
  phase,    \* phone: app closed, restoring, in the flow (open), past it (done)
  ui,       \* phone: step, photos shown, types marked as uploaded; saved on disk
  busy,     \* phone: the type shown as uploading
  camera,   \* phone: type the camera is open for, or its photo just handed back
  recov,    \* phone: type whose lost photo is to be recovered
  native,   \* phone: type of the photo taken while the app was dead
  disk,     \* phone, survives a kill: pending capture, onboarding mark
  halted,   \* HISTORY: a review failed half way and nothing was filed or decided since
  crossed   \* HISTORY: unreviewed rows filed while an approval was past its count

server == <<kind, verdict, profile, rev, halted, crossed>>
phone == <<phase, ui, busy, camera, recov, native, disk>>
vars == <<kind, verdict, profile, rev, up, phase, ui, busy, camera, recov,
          native, disk, halted, crossed>>

Types == Papers \cup {"SELFIE", "VEHICLE_PHOTO"}
Steps == {"welcome", "selfie", "vehicle", "documents", "complete"}

FreshUi == [step |-> "welcome", shots |-> {}, ticks |-> {}]
NoUpload == [type |-> None, at |-> "none", alive |-> FALSE, last |-> FALSE]
NoCamera == [type |-> None, back |-> FALSE]
NoRecovery == [type |-> None, cleared |-> FALSE]
NoReview == [at |-> "none", decision |-> "VERIFIED"]

Init ==
  /\ kind = [f \in Files |-> None] /\ verdict = [f \in Files |-> "SUBMITTED"]
  /\ profile = [kyc |-> "NOT_STARTED", vehicle |-> FALSE, active |-> FALSE]
  /\ rev = [r \in Reviewers |-> NoReview]
  /\ up = [u \in Uploads |-> NoUpload]
  /\ phase = "closed" /\ ui = FreshUi /\ busy = None
  /\ camera = NoCamera /\ recov = NoRecovery /\ native = None
  /\ disk = [pending |-> None, onboarded |-> FALSE]
  /\ halted = FALSE /\ crossed = {}

Filed == {f \in Files : kind[f] # None}
Submitted == {f \in Filed : verdict[f] = "SUBMITTED"}
Unused == CHOOSE f \in Files \ Filed : TRUE

-----------------------------------------------------------------------------
(* The server: filing.                                                       *)

\* Mutant: the row is created and the profile left as it is.
LandQuietly(u) ==
  /\ up[u].at = "posted" /\ Filed # Files
  /\ kind' = [kind EXCEPT ![Unused] = up[u].type]
  /\ crossed' = crossed
  /\ profile' = [profile EXCEPT !.vehicle = TRUE]
  /\ halted' = FALSE
  /\ up' = [up EXCEPT ![u] = IF up[u].alive THEN [@ EXCEPT !.at = "landed"] ELSE NoUpload]
  /\ UNCHANGED <<verdict, rev>> /\ UNCHANGED phone

\* POST /drivers/me/kyc is one nested write.  It creates the vehicle too: the
\* app sends a vehicle type from the first photo on.
Land(u) ==
  /\ up[u].at = "posted" /\ Filed # Files
  /\ kind' = [kind EXCEPT ![Unused] = up[u].type]
  /\ crossed' = IF \E r \in Reviewers : rev[r] = [at |-> "write", decision |-> "VERIFIED"]
                  THEN crossed \cup {Unused} ELSE crossed
  /\ profile' = [profile EXCEPT !.kyc = "SUBMITTED", !.vehicle = TRUE]
  /\ halted' = FALSE
  /\ up' = [up EXCEPT ![u] = IF up[u].alive THEN [@ EXCEPT !.at = "landed"] ELSE NoUpload]
  /\ UNCHANGED <<verdict, rev>> /\ UNCHANGED phone

-----------------------------------------------------------------------------
(* The server: review, with an await after the update and after the count.   *)

\* A page loaded earlier offers rows that were decided since.
MarkDocument(r) ==
  /\ rev[r] = NoReview /\ (EarlyReviews \/ disk.onboarded)
  /\ \E f \in Filed, d \in {"VERIFIED", "REJECTED"} :
       /\ verdict' = [verdict EXCEPT ![f] = d]
       /\ rev' = [rev EXCEPT ![r] = [at |-> "count", decision |-> d]]
       /\ crossed' = crossed \ {f}
  /\ UNCHANGED <<kind, profile, up, halted>> /\ UNCHANGED phone

\* Mutant: the count is of the rows that are not verified.
CountUnverified(r) ==
  /\ rev[r].at = "count"
  /\ rev' = [rev EXCEPT ![r] =
       IF rev[r].decision = "REJECTED" \/ \A f \in Filed : verdict[f] = "VERIFIED"
         THEN [@ EXCEPT !.at = "write"] ELSE NoReview]
  /\ UNCHANGED <<kind, verdict, profile, up, halted, crossed>> /\ UNCHANGED phone

\* An approval that leaves rows to review ends here.
CountRemaining(r) ==
  /\ rev[r].at = "count"
  /\ rev' = [rev EXCEPT ![r] =
       IF rev[r].decision = "REJECTED" \/ Submitted = {}
         THEN [@ EXCEPT !.at = "write"] ELSE NoReview]
  /\ UNCHANGED <<kind, verdict, profile, up, halted, crossed>> /\ UNCHANGED phone

DecideProfile(r) ==
  /\ rev[r].at = "write"
  /\ profile' = [profile EXCEPT !.kyc = rev[r].decision,
                                !.active = @ \/ rev[r].decision = "VERIFIED"]
  /\ rev' = [rev EXCEPT ![r] = NoReview]
  /\ halted' = FALSE
  /\ UNCHANGED <<kind, verdict, up, crossed>> /\ UNCHANGED phone

\* A query fails, or the process restarts: the row keeps its verdict, and the
\* page offers no further review of it.
ReviewFails(r) ==
  /\ rev[r] # NoReview
  /\ rev' = [rev EXCEPT ![r] = NoReview]
  /\ halted' = TRUE
  /\ UNCHANGED <<kind, verdict, profile, up, crossed>> /\ UNCHANGED phone

-----------------------------------------------------------------------------
(* The phone: uploads.                                                       *)

Free(u) == up[u] = NoUpload

\* uploadAsset of type t begins.  last: handleComplete waits for it.
StartUpload(u, t, last) ==
  up' = [up EXCEPT ![u] = [type |-> t, at |-> "posted", alive |-> TRUE, last |-> last]]

\* completeOnboarding and clearPersistedProgress; the flow leaves the screen.
\* What hydrate and a kill in between leave on disk is not read again.
Finish ==
  /\ phase' = "done" /\ ui' = FreshUi /\ busy' = None
  /\ disk' = [pending |-> None, onboarded |-> TRUE]

\* The upload is over for the phone.  It is marked as uploaded when it was
\* answered; the last one ends the flow whether it was or not.
Settled(u, ticked) ==
  /\ IF phase = "open" /\ up[u].last
       THEN Finish
       ELSE /\ ui' = IF phase = "open" THEN [ui EXCEPT !.ticks = @ \cup ticked] ELSE ui
            /\ busy' = None
            /\ UNCHANGED <<phase, disk>>
  /\ UNCHANGED <<camera, recov, native>> /\ UNCHANGED server

Answer(u) ==
  /\ up[u].at = "landed"
  /\ up' = [up EXCEPT ![u] = NoUpload]
  /\ Settled(u, {up[u].type})

\* An error, or a timeout: 90 s for the image, the client's for the POST, which
\* may land all the same.
GiveUp(u) ==
  /\ up[u].alive
  /\ up' = [up EXCEPT ![u] = IF @.at = "posted" THEN [@ EXCEPT !.alive = FALSE, !.last = FALSE]
                             ELSE NoUpload]
  /\ Settled(u, {})

LosePost(u) ==
  /\ up[u].at = "posted" /\ ~up[u].alive
  /\ up' = [up EXCEPT ![u] = NoUpload]
  /\ UNCHANGED phone /\ UNCHANGED server

-----------------------------------------------------------------------------
(* The phone: the steps of the flow.                                         *)

Go(step) == ui' = [ui EXCEPT !.step = step]
InFlow(step) == phase = "open" /\ ui.step = step /\ camera.type = None
FlowElse == UNCHANGED <<up, phase, busy, camera, recov, native, disk>> /\ UNCHANGED server

\* Mutant: Continue is not disabled on the selfie step.
ContinueAnyhow ==
  /\ \/ InFlow("welcome") /\ Go("selfie")
     \/ InFlow("selfie") /\ Go("vehicle")
     \/ InFlow("vehicle") /\ Go("documents")
     \/ InFlow("documents") /\ Go("complete")
  /\ FlowElse

Continue ==
  /\ \/ InFlow("welcome") /\ Go("selfie")
     \/ InFlow("selfie") /\ "SELFIE" \in ui.ticks /\ Go("vehicle")
     \/ InFlow("vehicle") /\ Go("documents")
     \/ InFlow("documents") /\ Go("complete")
  /\ FlowElse

Back ==
  /\ \/ InFlow("selfie") /\ Go("welcome")
     \/ InFlow("vehicle") /\ Go("selfie")
     \/ InFlow("documents") /\ Go("vehicle")
  /\ FlowElse

\* Photos can be retaken, except that of a paper once it is uploaded.
Offered(t) ==
  \/ t = "SELFIE" /\ InFlow("selfie") /\ (t \in ui.ticks \/ busy # t)
  \/ t = "VEHICLE_PHOTO" /\ InFlow("vehicle")
  \/ t \in Papers /\ InFlow("documents") /\ t \notin ui.ticks /\ busy # t

\* markPendingCapture, then the camera covers the app.
TakePhoto(t) ==
  /\ Offered(t)
  /\ disk' = [disk EXCEPT !.pending = t]
  /\ camera' = [type |-> t, back |-> FALSE]
  /\ UNCHANGED <<up, phase, ui, busy, recov, native>> /\ UNCHANGED server

\* clearPendingCapture, whether there is a photo or not.
CameraBack ==
  /\ phase = "open" /\ camera.type # None /\ ~camera.back
  /\ disk' = [disk EXCEPT !.pending = None]
  /\ \/ camera' = [camera EXCEPT !.back = TRUE]
     \/ camera' = NoCamera
  /\ UNCHANGED <<up, phase, ui, busy, recov, native>> /\ UNCHANGED server

Shown(t, unticked) ==
  ui' = [ui EXCEPT !.shots = @ \cup {t}, !.ticks = @ \ unticked]

\* The photo of the vehicle is uploaded when the flow ends, the others at once.
KeepPhoto ==
  /\ phase = "open" /\ camera.back
  /\ Shown(camera.type, {camera.type} \cap {"SELFIE"})
  /\ IF camera.type = "VEHICLE_PHOTO"
       THEN UNCHANGED <<up, busy>>
       ELSE /\ \E u \in Uploads \ {Recovery} : Free(u) /\ StartUpload(u, camera.type, FALSE)
            /\ busy' = camera.type
  /\ camera' = NoCamera
  /\ UNCHANGED <<phase, recov, native, disk>> /\ UNCHANGED server

\* handleComplete ends the flow after its upload, or at once without one.
Complete ==
  /\ InFlow("complete") /\ busy # "VEHICLE_PHOTO"
  /\ IF "VEHICLE_PHOTO" \in ui.shots \ ui.ticks
       THEN /\ \E u \in Uploads \ {Recovery} : Free(u) /\ StartUpload(u, "VEHICLE_PHOTO", TRUE)
            /\ busy' = "VEHICLE_PHOTO"
            /\ UNCHANGED <<phase, ui, disk>>
       ELSE Finish /\ UNCHANGED up
  /\ UNCHANGED <<camera, recov, native>> /\ UNCHANGED server

\* KycScreen, later.  BOUND: once the uploads of the flow are over.
UploadLater ==
  /\ phase = "done" /\ \A u \in Uploads : Free(u)
  /\ \E u \in Uploads \ {Recovery}, t \in Later : StartUpload(u, t, FALSE)
  /\ UNCHANGED phone /\ UNCHANGED server

-----------------------------------------------------------------------------
(* The phone: progress on disk, kills and restarts.                          *)

\* Android kills the process.  An open camera stays open; a POST may still land.
\* Past the flow a kill costs no more than GiveUp does.
Kill ==
  /\ phase \in {"restoring", "open"}
  /\ phase' = "closed" /\ busy' = None
  /\ camera' = IF camera.back THEN NoCamera ELSE camera
  /\ recov' = NoRecovery /\ native' = None
  /\ up' = [u \in Uploads |->
       IF up[u].at = "posted" THEN [up[u] EXCEPT !.alive = FALSE, !.last = FALSE] ELSE NoUpload]
  /\ UNCHANGED <<ui, disk>> /\ UNCHANGED server

\* What hydrate and restore take for a driver who was onboarded before.
Known == profile.vehicle \/ profile.active \/ profile.kyc = "VERIFIED"

\* The app starts, with the photo of the open camera if one was taken; hydrate
\* asks the server unless the mark is on disk.  The request may fail.
Start ==
  /\ phase = "closed"
  /\ camera' = NoCamera
  /\ \/ /\ disk.onboarded \/ Known
        /\ Finish /\ native' = None
     \/ /\ ~disk.onboarded
        /\ phase' = "restoring" /\ native' \in {None, camera.type}
        /\ UNCHANGED <<ui, busy, disk>>
  /\ UNCHANGED <<up, recov>> /\ UNCHANGED server

\* Mutant: progress comes back, the capture under way is forgotten.
RestoreProgressOnly ==
  /\ phase = "restoring"
  /\ phase' = "open"
  /\ UNCHANGED <<up, ui, busy, camera, recov, native, disk>> /\ UNCHANGED server

\* restore of OnboardingFlow; its own request may fail, too.
Restore ==
  /\ phase = "restoring"
  /\ \/ Known /\ Finish /\ native' = None /\ UNCHANGED recov
     \/ /\ phase' = "open"
        /\ recov' = [type |-> disk.pending, cleared |-> FALSE]
        /\ UNCHANGED <<ui, busy, native, disk>>
  /\ UNCHANGED <<up, camera>> /\ UNCHANGED server

\* clearPendingCapture on the way to the recovery.
RecoverClear ==
  /\ recov.type # None /\ ~recov.cleared
  /\ recov' = [recov EXCEPT !.cleared = TRUE]
  /\ disk' = [disk EXCEPT !.pending = None]
  /\ UNCHANGED <<up, phase, ui, busy, camera, native>> /\ UNCHANGED server

\* getPendingResultAsync, for what the mark said the photo is of.
RecoverPhoto ==
  /\ recov.cleared
  /\ recov' = NoRecovery /\ native' = None
  /\ IF native = None
       THEN UNCHANGED <<up, ui, busy>>
       ELSE /\ IF phase = "open" THEN Shown(recov.type, {}) ELSE UNCHANGED ui
            /\ IF recov.type = "VEHICLE_PHOTO"
                 THEN UNCHANGED <<up, busy>>
                 ELSE /\ Free(Recovery) /\ StartUpload(Recovery, recov.type, FALSE)
                      /\ busy' = IF phase = "open" THEN recov.type ELSE busy
  /\ UNCHANGED <<phase, camera, disk>> /\ UNCHANGED server

-----------------------------------------------------------------------------
Next ==
  \/ \E u \in Uploads : Land(u) \/ Answer(u) \/ GiveUp(u) \/ LosePost(u)
  \/ \E r \in Reviewers : \/ MarkDocument(r) \/ CountRemaining(r)
                          \/ DecideProfile(r) \/ ReviewFails(r)
  \/ Continue \/ Back \/ (\E t \in Types : TakePhoto(t)) \/ CameraBack
  \/ KeepPhoto \/ Complete \/ UploadLater
  \/ Kill \/ Start \/ Restore \/ RecoverClear \/ RecoverPhoto

Spec == Init /\ [][Next]_vars

\* A lost POST of the recovery does not stay on its way for ever.
SettleRecovery ==
  \/ Land(Recovery) \/ Answer(Recovery) \/ GiveUp(Recovery) \/ LosePost(Recovery)

\* Requests are answered or time out, and what the app awaits on its own disk
\* is done.  The driver, Android and the staff owe nothing.
FairSpec ==
  /\ Spec
  /\ WF_vars(Restore \/ RecoverClear \/ RecoverPhoto)
  /\ WF_vars(SettleRecovery)

-----------------------------------------------------------------------------
\* The state has the shape the code gives it.
TypeOK ==
  /\ kind \in [Files -> Types \cup {None}]
  /\ verdict \in [Files -> {"SUBMITTED", "VERIFIED", "REJECTED"}]
  /\ profile \in [kyc : {"NOT_STARTED", "SUBMITTED", "VERIFIED", "REJECTED"},
                  vehicle : BOOLEAN, active : BOOLEAN]
  /\ rev \in [Reviewers -> [at : {"none", "count", "write"}, decision : {"VERIFIED", "REJECTED"}]]
  /\ up \in [Uploads -> [type : Types \cup {None}, at : {"none", "posted", "landed"},
                         alive : BOOLEAN, last : BOOLEAN]]
  /\ phase \in {"closed", "restoring", "open", "done"}
  /\ ui \in [step : Steps, shots : SUBSET Types, ticks : SUBSET Types]
  /\ busy \in Types \cup {None}
  /\ camera \in [type : Types \cup {None}, back : BOOLEAN]
  /\ recov \in [type : Types \cup {None}, cleared : BOOLEAN]
  /\ native \in Types \cup {None}
  /\ disk \in [pending : Types \cup {None}, onboarded : BOOLEAN]
  /\ halted \in BOOLEAN /\ crossed \subseteq Files

\* When every document has been reviewed, in whatever overlap of reviews and
\* submissions, the profile is decided: the last review to count sees it (the
\* count follows the update), unless a review failed half way.
ReviewConcludes ==
  Filed # {} /\ Submitted = {} /\ ~halted /\ (\A r \in Reviewers : rev[r] = NoReview)
    => profile.kyc \in {"VERIFIED", "REJECTED"}

\* A verified driver has no document waiting for review but those that were
\* filed between the count and the write of an approval (documents.routes).
VerifiedIsReviewed == profile.kyc = "VERIFIED" => Submitted \subseteq crossed

\* The driver who onboards on this phone is not past it without a selfie on file,
\* whatever was killed, lost, recovered or skipped because the server knew the driver;
\* and what the app shows as uploaded, or will after a restart, is on file
\* (handleSelfieCapture: "that would mask a failed upload").  The mark is the phone's
\* (authStore hydrate): of who signs in there next this says nothing.
SelfieOnFile ==
  \A t \in ui.ticks \cup (IF disk.onboarded THEN {"SELFIE"} ELSE {}) :
    \E f \in Files : kind[f] = t

\* A photo taken while the app was dead comes back, as what it is of, unless
\* the app is killed again or the flow is over (restore: "recover any photo
\* the camera captured right before the process died").  The mark must still
\* name it: RecoverClear also wipes the mark of a photo begun since Restore.
PhotoComesBack ==
  \A t \in Types :
    (phase = "restoring" /\ native = t /\ disk.pending = t)
      ~> (t \in ui.shots \/ phase \in {"closed", "done"})
=============================================================================
