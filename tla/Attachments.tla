---------------------------- MODULE Attachments -----------------------------
(***************************************************************************)
(* Attachments: the panel records voice messages and takes photos with     *)
(* child processes, stages one file at a time and asks the daemon to send  *)
(* or to discard it; the daemon deletes captures that were sent, discarded *)
(* or pruned, and prunes GIFs with the media directory.                    *)
(*                                                                         *)
(* ffmpeg, the file chooser, GIPHY and the phone are external. The         *)
(* connection between the panel and the daemon may break: calls under way  *)
(* lose their callbacks, and calls made while it is down fail at once.     *)
(***************************************************************************)
EXTENDS Naturals, FiniteSets

CONSTANTS
    Voices,    \* names voice-<time>.m4a, in the order they are used
    Photos,    \* names webcam-<time>.jpg
    UserFiles, \* the user's own pictures
    Gifs,      \* GIFs, in the media directory
    None,      \* no file
    MaxCaptures, \* maxCaptureBytes, counted in captures
    MaxActs,   \* bound: what the user does to get or to drop a file
    MaxDrops   \* bound: broken connections

Captures == Voices \cup Photos
Files    == Captures \cup UserFiles \cup Gifs

ASSUME NamesAssumption ==
    /\ Captures \subseteq Nat
    /\ Captures \cap (UserFiles \cup Gifs) = {} /\ Voices \cap Photos = {}
    /\ UserFiles \cap Gifs = {}
ASSUME NoneAssumption == None \notin Files
ASSUME AttachmentBoundsAssumption == MaxCaptures \in Nat /\ MaxActs \in Nat /\ MaxDrops \in Nat

VARIABLES
    disk,      \* the files that exist
    used,      \* names given out so far
    pending,   \* pendingAttachment
    fromCamera, isVoice,         \* pendingFromCamera, pendingIsVoice
    recording, keep, longEnough, \* recording, keepRecording, pendingVoiceSeconds >= 1
    voicePath, \* voicePath
    proc,      \* voiceProc
    procFile,  \* the file it writes
    queued,    \* the file of the next run, asked for while this one was ending
    fallback,  \* stopFallbackTimer runs
    cameraOpen, countdown,       \* cameraOpen; countdownTimer runs
    shot,      \* capturePath while captureProc runs
    sending,   \* sendingMedia
    sendFile,  \* the file of the sendMedia call under way
    sendAt,    \* how far the daemon is with it
    heard,     \* its callback is still registered
    discards,  \* discardCapture calls under way
    picking,   \* a pickImage call is under way
    fetching,  \* a gifFetch call is under way
    up,        \* the panel is connected
    left,      \* history: captures the panel has let go of
    lost,      \* history: files pruned, never opened by ffmpeg, or in a send nobody hears of
    acts, drops

diskVars  == <<disk, lost>>
stageVars == <<pending, fromCamera, isVoice>>
voiceVars == <<recording, keep, longEnough, voicePath, proc, procFile, queued, fallback>>
camVars   == <<cameraOpen, countdown, shot>>
sendVars  == <<sending, sendFile, sendAt, heard>>
callVars  == <<discards, picking, fetching>>
vars == <<diskVars, used, stageVars, voiceVars, camVars, sendVars, callVars, up, left, acts,
          drops>>

TypeOK ==
    /\ disk \subseteq Files /\ used \subseteq Captures /\ left \subseteq Captures
    /\ lost \subseteq Captures \cup Gifs
    /\ pending \in Files \cup {None} /\ sendFile \in Files \cup {None}
    /\ fromCamera \in BOOLEAN /\ isVoice \in BOOLEAN
    /\ recording \in BOOLEAN /\ keep \in BOOLEAN /\ longEnough \in BOOLEAN
    /\ voicePath \in Voices \cup {None}
    /\ proc \in {"off", "running", "quitting", "killed"}
    /\ procFile \in Voices \cup {None} /\ queued \in Voices \cup {None}
    /\ fallback \in BOOLEAN /\ cameraOpen \in BOOLEAN /\ countdown \in BOOLEAN
    /\ shot \in Photos \cup {None}
    /\ sending \in BOOLEAN /\ heard \in BOOLEAN
    /\ sendAt \in {"none", "read", "upload", "sent", "ok", "failed"}
    /\ discards \subseteq Files
    /\ picking \in BOOLEAN /\ fetching \in BOOLEAN /\ up \in BOOLEAN
    /\ acts \in 0..MaxActs /\ drops \in 0..MaxDrops

Init ==
    /\ disk = UserFiles /\ used = {} /\ left = {} /\ lost = {}
    /\ pending = None /\ fromCamera = FALSE /\ isVoice = FALSE
    /\ recording = FALSE /\ keep = FALSE /\ longEnough = FALSE
    /\ voicePath = None /\ proc = "off" /\ procFile = None /\ queued = None
    /\ fallback = FALSE
    /\ cameraOpen = FALSE /\ countdown = FALSE /\ shot = None
    /\ sending = FALSE /\ sendFile = None /\ sendAt = "none" /\ heard = FALSE
    /\ discards = {} /\ picking = FALSE /\ fetching = FALSE
    /\ up = TRUE
    /\ acts = 0 /\ drops = 0

Own(files) == files \cap Captures

\* The next name of a kind, which the clock makes new.
Fresh(names) == CHOOSE f \in names \ used : \A g \in names \ used : f <= g

\* A click; those of the composer are disabled while something is sent.
Acts ==
    /\ acts < MaxActs
    /\ acts' = acts + 1

-----------------------------------------------------------------------------
(* Staging.                                                                *)

\* Mutant: what is staged goes without its file being discarded.
DiscardsNothing(f) == FALSE

\* discardPendingCapture: only what the flags say was captured.
Discardable(f) == f # None /\ (fromCamera \/ isVoice)

\* The discardCapture calls that follow from dropping files; without a connection
\* they fail, and nobody looks.
Discard(files) ==
    IF up THEN discards' = discards \cup files /\ UNCHANGED left
          ELSE left' = left \cup Own(files) /\ UNCHANGED discards

\* discardPendingCapture and pendingAttachment = "". The flags may be wrong by then.
DropPending ==
    /\ IF Discardable(pending)
       THEN Discard({pending}) /\ fromCamera' = FALSE /\ isVoice' = FALSE
       ELSE UNCHANGED <<discards, left, fromCamera, isVoice>>
    /\ pending' = None

\* A file is staged over whatever was.
Stage(f) ==
    /\ pending' = f
    /\ left' = left \cup (Own({pending}) \ {f})

CancelAttachment ==
    /\ Acts /\ ~sending /\ pending # None
    /\ IF Discardable(pending) THEN Discard({pending}) /\ fromCamera' = FALSE
                               ELSE UNCHANGED <<discards, left, fromCamera>>
    /\ pending' = None /\ isVoice' = FALSE
    /\ cameraOpen' = FALSE
    /\ UNCHANGED <<diskVars, used, voiceVars, countdown, shot, sendVars, picking, fetching, up,
                   drops>>

\* selectConversation: another thread, and nothing staged in it.
SelectConversation ==
    /\ Acts
    /\ cameraOpen' = FALSE
    /\ pending' = None
    /\ left' = left \cup Own({pending})
    /\ UNCHANGED <<diskVars, used, fromCamera, isVoice, voiceVars, countdown, shot, sendVars,
                   callVars, up, drops>>

\* attachFromDisk. The flag goes before the chooser is open, and also when it never
\* opens because there is no connection.
AttachFromDisk ==
    /\ Acts /\ ~sending /\ ~picking
    /\ fromCamera' = FALSE
    /\ picking' = up
    /\ left' = left \cup (IF isVoice THEN {} ELSE Own({pending}))
    /\ UNCHANGED <<diskVars, used, pending, isVoice, voiceVars, camVars, sendVars, discards,
                   fetching, up, drops>>

\* The user chooses a picture, or closes the chooser.
PickImage ==
    /\ picking
    /\ picking' = FALSE
    /\ \/ \E f \in UserFiles : Stage(f)
       \/ UNCHANGED <<pending, left>>
    /\ UNCHANGED <<diskVars, used, fromCamera, isVoice, voiceVars, camVars, sendVars, discards,
                   fetching, up, acts, drops>>

\* chooseGif, from the grid.
ChooseGif ==
    /\ Acts /\ up /\ ~fetching
    /\ fetching' = TRUE
    /\ UNCHANGED <<diskVars, used, stageVars, voiceVars, camVars, sendVars, discards, picking,
                   up, left, drops>>

\* GifFetch downloads it, unless it is there, and the panel stages it; or it fails.
GifFetch ==
    /\ fetching
    /\ fetching' = FALSE
    /\ \/ /\ \E f \in Gifs : Stage(f) /\ disk' = disk \cup {f} /\ lost' = lost \ {f}
          /\ fromCamera' = FALSE
       \/ UNCHANGED <<disk, pending, fromCamera, left, lost>>
    /\ UNCHANGED <<used, isVoice, voiceVars, camVars, sendVars, discards, picking, up, acts,
                   drops>>

-----------------------------------------------------------------------------
(* Voice messages.                                                         *)

\* ffmpeg opens its file, unless it is ended while it waits for the microphone.
Opens(f) ==
    \/ disk' = disk \cup {f} /\ lost' = lost \ {f}
    \/ lost' = lost \cup {f} /\ UNCHANGED disk

\* startRecording. A process that has not ended yet cannot be started; whether it
\* is started once it has ended is up to the library.
StartRecording ==
    /\ Acts /\ ~sending /\ ~recording /\ Voices \ used # {}
    /\ cameraOpen' = FALSE
    /\ DropPending
    /\ LET f == Fresh(Voices)
       IN  /\ used' = used \cup {f}
           /\ voicePath' = f
           /\ IF proc = "off"
              THEN /\ proc' = "running" /\ procFile' = f
                   /\ Opens(f)
                   /\ UNCHANGED queued
              ELSE /\ queued' \in {None, f}
                   /\ lost' = lost \cup {f}
                   /\ UNCHANGED <<proc, procFile, disk>>
    /\ recording' = TRUE /\ longEnough' = FALSE
    /\ UNCHANGED <<keep, fallback, countdown, shot, sendVars, picking, fetching, up, drops>>

\* Mutant: nothing makes sure that the process ends.
NoFallback == FALSE

StartsFallback == TRUE

\* voiceProc.running = false.
Terminate ==
    IF proc = "off" THEN UNCHANGED <<proc, queued>>
                    ELSE proc' = "killed" /\ queued' = None

\* stopRecording: ffmpeg is asked to quit, or terminated when it cannot be asked. The
\* take may be shorter than a second.
Stop(keeps) ==
    /\ keep' = keeps
    /\ longEnough' \in BOOLEAN
    /\ recording' = FALSE
    /\ \/ proc' = (IF proc = "running" THEN "quitting" ELSE proc) /\ UNCHANGED queued
       \/ Terminate
    /\ fallback' = StartsFallback
    /\ UNCHANGED <<voicePath, procFile>>

\* The user stops or cancels the recording, or it has reached its limit.
StopRecording ==
    /\ recording
    /\ \E keeps \in BOOLEAN : Stop(keeps)
    /\ UNCHANGED <<diskVars, used, stageVars, camVars, sendVars, callVars, up, left, acts,
                   drops>>

FallbackFires ==
    /\ fallback
    /\ fallback' = FALSE
    /\ Terminate
    /\ UNCHANGED <<diskVars, used, stageVars, recording, keep, longEnough, voicePath, procFile,
                   camVars, sendVars, callVars, up, left, acts, drops>>

\* voiceProc.onExited: what voicePath names is staged or discarded, which need not be
\* what this process wrote.
VoiceEnds(ok) ==
    /\ fallback' = FALSE
    /\ recording' = FALSE
    /\ voicePath' = None
    /\ IF keep /\ ok /\ longEnough
       THEN /\ pending' = voicePath
            /\ fromCamera' = FALSE /\ isVoice' = TRUE
            /\ left' = left \cup (Own({pending, procFile}) \ {voicePath})
            /\ UNCHANGED discards
       ELSE /\ LET gone == {voicePath} \ {None}
               IN  IF up THEN /\ discards' = discards \cup gone
                              /\ left' = left \cup (Own({procFile}) \ gone)
                         ELSE left' = left \cup Own({procFile}) /\ UNCHANGED discards
            /\ UNCHANGED stageVars
    /\ IF queued # None
       THEN proc' = "running" /\ procFile' = queued /\ Opens(queued)
       ELSE proc' = "off" /\ procFile' = None /\ UNCHANGED <<disk, lost>>
    /\ queued' = None

\* The process ends: because it was asked to or killed, which it reports as success,
\* at its own limit, or with an error.
VoiceExits ==
    /\ proc # "off"
    /\ \E ok \in BOOLEAN : VoiceEnds(ok)
    /\ UNCHANGED <<used, keep, longEnough, camVars, sendVars, picking, fetching, up, acts,
                   drops>>

-----------------------------------------------------------------------------
(* Photos.                                                                 *)

\* openCamera: a recording is cancelled, what is staged is dropped.
OpenCamera ==
    /\ Acts /\ ~sending
    /\ DropPending
    /\ IF recording THEN Stop(FALSE) ELSE UNCHANGED voiceVars
    /\ cameraOpen' = TRUE
    /\ UNCHANGED <<diskVars, used, countdown, shot, sendVars, picking, fetching, up, drops>>

\* The camera view is closed: its own button, the emoji or the GIF picker.
CloseCamera ==
    /\ cameraOpen
    /\ cameraOpen' = FALSE
    /\ UNCHANGED <<diskVars, used, stageVars, voiceVars, countdown, shot, sendVars, callVars,
                   up, left, acts, drops>>

StartCountdown ==
    /\ cameraOpen /\ shot = None /\ ~countdown /\ Photos \ used # {}
    /\ countdown' = TRUE
    /\ UNCHANGED <<diskVars, used, stageVars, voiceVars, cameraOpen, shot, sendVars, callVars,
                   up, left, acts, drops>>

\* runCapture, when the countdown is over. Closing the view resets the count, not the
\* timer: at its next tick the count is below zero.
RunCapture ==
    /\ countdown
    /\ countdown' = FALSE
    /\ shot' = Fresh(Photos)
    /\ used' = used \cup {shot'}
    /\ UNCHANGED <<diskVars, stageVars, voiceVars, cameraOpen, sendVars, callVars, up, left,
                   acts, drops>>

\* captureProc.onExited. A shot that failed may have left a file, which nobody names.
CaptureExits ==
    /\ shot # None
    /\ shot' = None
    /\ cameraOpen' = FALSE
    /\ \/ /\ disk' = disk \cup {shot}
          /\ Stage(shot)
          /\ fromCamera' = TRUE
       \/ /\ \E part \in SUBSET {shot} : disk' = disk \cup part /\ left' = left \cup part
          /\ UNCHANGED <<pending, fromCamera>>
    /\ UNCHANGED <<lost, used, isVoice, voiceVars, countdown, sendVars, callVars, up, acts,
                   drops>>

-----------------------------------------------------------------------------
(* Sending and discarding.                                                 *)

\* sendAttachment. Without a connection the call fails at once.
SendAttachment ==
    /\ pending # None /\ ~sending /\ up
    /\ sending' = TRUE /\ heard' = TRUE
    /\ sendFile' = pending /\ sendAt' = "read"
    /\ UNCHANGED <<diskVars, used, stageVars, voiceVars, camVars, callVars, up, left, acts,
                   drops>>

\* Mutant: whatever was asked for is deleted.
Anything(f) == TRUE

\* isOwnCapture, of a file in the cache directory itself.
IsOwnCapture(f) == f \in Captures

Deleted(f) == IF IsOwnCapture(f) THEN disk \ {f} ELSE disk

\* SendMedia: the client and the conversation, the file and its size, the upload, the
\* message, and the capture's end. Every step but the last may fail.
SendMedia ==
    /\ \/ sendAt = "read" /\ UNCHANGED disk
          /\ sendAt' \in {"failed"} \cup (IF sendFile \in disk THEN {"upload"} ELSE {})
       \/ sendAt = "upload" /\ sendAt' \in {"failed", "sent"} /\ UNCHANGED disk
       \/ sendAt = "sent" /\ sendAt' = "ok" /\ disk' = Deleted(sendFile)
    /\ UNCHANGED <<lost, used, stageVars, voiceVars, camVars, sending, sendFile, heard,
                   callVars, up, left, acts, drops>>

\* The callback: what is staged by now is cleared, if the file was sent. After a broken
\* connection nobody hears.
SendReturns ==
    /\ sendAt \in {"ok", "failed"}
    /\ sendAt' = "none" /\ sendFile' = None /\ heard' = FALSE
    /\ IF ~heard THEN UNCHANGED <<stageVars, left, sending>>
       ELSE /\ sending' = FALSE
            /\ IF sendAt = "ok"
               THEN /\ pending' = None /\ fromCamera' = FALSE /\ isVoice' = FALSE
                    /\ left' = left \cup (Own({pending}) \ {sendFile})
               ELSE UNCHANGED <<stageVars, left>>
    /\ UNCHANGED <<diskVars, used, voiceVars, camVars, callVars, up, acts, drops>>

DiscardCapture(f) ==
    /\ f \in discards
    /\ discards' = discards \ {f}
    /\ disk' = Deleted(f)
    /\ UNCHANGED <<lost, used, stageVars, voiceVars, camVars, sendVars, picking, fetching, up,
                   left, acts, drops>>

\* The connection breaks. Callbacks are dropped; discards may have got through or not.
Disconnect ==
    /\ up /\ drops < MaxDrops
    /\ drops' = drops + 1
    /\ up' = FALSE
    /\ picking' = FALSE /\ fetching' = FALSE /\ heard' = FALSE
    /\ \E cut \in SUBSET discards : discards' = discards \ cut /\ left' = left \cup Own(cut)
    /\ lost' = lost \cup Own({sendFile})
    /\ UNCHANGED <<disk, used, stageVars, voiceVars, camVars, sending, sendFile, sendAt, acts>>

Reconnect ==
    /\ ~up
    /\ up' = TRUE
    /\ UNCHANGED <<diskVars, used, stageVars, voiceVars, camVars, sendVars, callVars, left,
                   acts, drops>>

\* pruneCaches: of the media directory, whatever is oldest, to make room for attachments
\* (Unpair empties it, too); of the captures the oldest, whichever that is, while there are
\* too many.
PruneCaches ==
    /\ \E f \in disk :
          /\ f \in Gifs \/ (IsOwnCapture(f) /\ Cardinality(Own(disk)) > MaxCaptures)
          /\ disk' = disk \ {f}
          /\ lost' = lost \cup {f}
    /\ UNCHANGED <<used, stageVars, voiceVars, camVars, sendVars, callVars, up, left, acts,
                   drops>>

-----------------------------------------------------------------------------
Next ==
    \/ CancelAttachment \/ SelectConversation \/ AttachFromDisk \/ PickImage
    \/ ChooseGif \/ GifFetch
    \/ StartRecording \/ StopRecording \/ FallbackFires \/ VoiceExits
    \/ OpenCamera \/ CloseCamera \/ StartCountdown \/ RunCapture \/ CaptureExits
    \/ SendAttachment \/ SendMedia \/ SendReturns \/ PruneCaches
    \/ \E f \in Files : DiscardCapture(f)
    \/ Disconnect \/ Reconnect

Spec == Init /\ [][Next]_vars

\* A running timer fires, and a process that was killed ends. A process that was only
\* asked to quit may ignore it.
Fairness ==
    /\ WF_vars(FallbackFires)
    /\ WF_vars(proc = "killed" /\ VoiceExits)

FairSpec == Spec /\ Fairness

-----------------------------------------------------------------------------
(* Properties                                                              *)

\* What is staged is there to be looked at and sent, unless a prune took it, ffmpeg never
\* opened it, or it has been sent and its answer is under way or was lost with the
\* connection. The panel asks for deletions by flags that may be about an earlier file:
\* a picture chosen while a voice message was staged is discarded as if it had been
\* recorded, and may be staged again by the time the daemon gets to it
\* (Panel.qml:413-440, 640-672, 705-716, capture.go:17-45, sendmedia.go:116-121).
StagedIsThere ==
    pending \in disk \cup lost \cup {None} \cup (IF sendAt = "ok" THEN Own({sendFile}) ELSE {})

\* A capture that exists is staged, being written or about to be discarded, unless the
\* panel let go of it: it switched threads, staged another file over it, cleared its
\* flag, was disconnected when it should have been discarded, recorded again before the
\* last process had ended, or failed to take the photo (Panel.qml:197-212, 413-440,
\* 455-466, 640-695). What is
\* being sent is no exception: only its being staged keeps hold of it.
CapturesAccounted ==
    \A f \in Own(disk) : f \in {pending, procFile} \/ f \in discards \/ f \in left

\* "make sure the UI cannot be left stuck in a state where the recording never
\* resolves" (Panel.qml:631-632): whatever ffmpeg does, a recording that was stopped
\* ends.
RecordingResolves == (proc \in {"quitting", "killed"}) ~> (proc \notin {"quitting", "killed"})

\* What mediaprune.go:31-33 counts on: a capture that was not sent is deleted, "so this
\* only has to catch what a crash or an unclean shutdown leaves behind" (and README.md:
\* 254, "Rejected captures are deleted rather than left in the cache"). With nothing
\* under way and no connection lost, the only capture is the one that is staged.
RejectedCapturesDeleted ==
    /\ drops = 0 /\ proc = "off" /\ shot = None
    /\ ~picking /\ sendAt = "none" /\ discards = {}
    => Own(disk) \subseteq {pending}
=============================================================================
