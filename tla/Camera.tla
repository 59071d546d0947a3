------------------------------- MODULE Camera -------------------------------
(***************************************************************************)
(* class Camera (camera.cpp) and its two implementations                   *)
(* (linux_camera.cpp, esp32_camera.cpp): one call of capture() takes a     *)
(* frame, has the tags detected in it, encodes it and sends the image in   *)
(* chunks over UDP.  Of the detection only the lock of the detector is     *)
(* kept here (LockHistory; TargetDetector has the rest).                   *)
(*                                                                         *)
(* The ESP32's driver owns FbCount frame buffers; capture() borrows one    *)
(* and gives it back.  The broadcast's address is the telemetry client's,  *)
(* whose connection the server's thread changes at any moment.  The frame  *)
(* rate statistics are left out.                                           *)
(***************************************************************************)
EXTENDS LockHistory

CONSTANTS FbCount,          \* config.fb_count: 2 in the program
          ChunkSize,        \* CHUNK_SIZE: 1024 on the ESP32, 4096 on Linux
          MaxImage,         \* bound: bytes of an encoded image
          Clients,          \* addresses a client can connect from
          NoClient          \* no connection, no address

ASSUME CameraAssumption ==
    /\ FbCount \in Nat \ {0} /\ ChunkSize \in Nat \ {0} /\ MaxImage \in Nat
    /\ NoClient \notin Clients /\ {"off", "left"} \cap (Clients \cup {NoClient}) = {}

VARIABLES
    platform,               \* the program was built for
    isInitialized,          \* m_isInitialized: what doInit returned
    step,                   \* where capture() is
    buffers,                \* ESP32: frame buffers the driver has
    jpegFailures,           \* ghost: ESP32: images that could not be encoded
    udp,                    \* the broadcast's address, "off" before init
    image,                  \* bytes of the image being sent, or sent last
    chunk, sent,            \* its chunks and bytes sent so far
    client                  \* telemetry server: the client; "left": the peer
                            \* is gone and the server has not noticed

device == <<platform, isInitialized>>
frames == <<buffers, jpegFailures>>
sending == <<image, chunk, sent>>
cameraVars == <<vars, device, step, frames, udp, sending, client>>

Steps == {"idle", "address", "grab", "detect", "encode", "send"}

CameraTypeOK ==
    /\ TypeOK
    /\ platform \in {"linux", "esp32"} /\ isInitialized \in BOOLEAN
    /\ step \in Steps
    /\ buffers \in 0 .. FbCount /\ jpegFailures \in 0 .. FbCount
    /\ udp \in Clients \cup {NoClient, "off"}
    /\ image \in 0 .. MaxImage /\ sent \in 0 .. MaxImage /\ chunk \in 0 .. MaxImage
    /\ client \in Clients \cup {NoClient, "left"}

CameraInit ==
    /\ Init
    /\ platform \in {"linux", "esp32"} /\ isInitialized \in BOOLEAN
    /\ step = "idle"
    /\ buffers = FbCount /\ jpegFailures = 0
    /\ udp = "off"
    /\ image = 0 /\ chunk = 0 /\ sent = 0
    /\ client = NoClient

OnEsp32 == platform = "esp32"

-----------------------------------------------------------------------------
(* The telemetry server. *)

\* the ESP32 accepts only when it has no client, Linux always
ClientConnects(c) ==
    /\ OnEsp32 => client = NoClient
    /\ client' = c
    /\ UNCHANGED <<vars, device, step, frames, udp, sending>>

\* clientConnected() notices at once on the ESP32, after a failed send on Linux
ClientLeaves ==
    /\ client \in Clients
    /\ client' = IF OnEsp32 THEN NoClient ELSE "left"
    /\ UNCHANGED <<vars, device, step, frames, udp, sending>>

\* a failing send, which is the main loop's, between two captures
DisconnectClient ==
    /\ step = "idle" /\ client = "left"
    /\ client' = NoClient
    /\ UNCHANGED <<vars, device, step, frames, udp, sending>>

-----------------------------------------------------------------------------
(* capture(). *)

Capture ==
    /\ step = "idle" /\ isInitialized
    /\ step' = IF udp = "off" /\ client # NoClient THEN "address" ELSE "grab"
    /\ UNCHANGED <<vars, device, frames, udp, sending, client>>

\* getTelemetryClientIp looks again: the client may be another one or none,
\* and then the broadcast is started, for good, with an address nobody wrote;
\* on Linux the address is stored and never used
InitUdpBroadcast ==
    /\ step = "address"
    /\ udp' = IF client \in Clients THEN client ELSE NoClient
    /\ step' = "grab"
    /\ UNCHANGED <<vars, device, frames, sending, client>>

\* mutant of NoFrame: the lock counts a miss for a frame nobody looked at
NoFrame_CountsMiss ==
    /\ step = "grab"
    /\ lock' = LockUpdate(lock, FALSE)
    /\ step' = "idle"
    /\ UNCHANGED <<history, device, frames, udp, sending, client>>

\* no image, or none in time: capture() returns, the detector is not told
NoFrame ==
    /\ step = "grab"
    /\ step' = "idle"
    /\ UNCHANGED <<vars, device, frames, udp, sending, client>>

\* mutant of GetFrame: esp_camera_fb_get's result is not looked at
GetFrame_NoCheck ==
    /\ step = "grab"
    /\ buffers' = IF OnEsp32 THEN buffers - 1 ELSE buffers
    /\ step' = "detect"
    /\ UNCHANGED <<vars, device, jpegFailures, udp, sending, client>>

GetFrame ==
    /\ step = "grab"
    /\ OnEsp32 => buffers > 0
    /\ buffers' = IF OnEsp32 THEN buffers - 1 ELSE buffers
    /\ step' = "detect"
    /\ UNCHANGED <<vars, device, jpegFailures, udp, sending, client>>

DetectTags ==
    /\ step = "detect"
    /\ Next
    /\ step' = "encode"
    /\ UNCHANGED <<device, frames, udp, sending, client>>

\* mutant of Encode: the buffer is only returned if the image is sent
Encode_ReturnsIfSent(length) ==
    /\ step = "encode"
    /\ buffers' = IF OnEsp32 /\ udp # "off" THEN buffers + 1 ELSE buffers
    /\ IF OnEsp32 /\ udp = "off"
       THEN step' = "idle" /\ UNCHANGED sending
       ELSE step' = "send" /\ image' = length /\ chunk' = 0 /\ sent' = 0
    /\ UNCHANGED <<vars, device, jpegFailures, udp, client>>

\* Linux sends to a fixed address, with or without a client
Encode(length) ==
    /\ step = "encode"
    /\ buffers' = IF OnEsp32 THEN buffers + 1 ELSE buffers
    /\ IF OnEsp32 /\ udp = "off"
       THEN step' = "idle" /\ UNCHANGED sending
       ELSE step' = "send" /\ image' = length /\ chunk' = 0 /\ sent' = 0
    /\ UNCHANGED <<vars, device, jpegFailures, udp, client>>

\* the ESP32's early return keeps the frame buffer
EncodeFails ==
    /\ step = "encode"
    /\ jpegFailures' = IF OnEsp32 THEN jpegFailures + 1 ELSE jpegFailures
    /\ step' = "idle"
    /\ UNCHANGED <<vars, device, buffers, udp, sending, client>>

\* mutant of NumChunks: the rest of the division is dropped
NumChunks_WholeOnly == image \div ChunkSize

NumChunks == image \div ChunkSize + (IF image % ChunkSize # 0 THEN 1 ELSE 0)

SendChunk ==
    /\ step = "send" /\ chunk < NumChunks
    /\ LET offset == chunk * ChunkSize
       IN  sent' = sent + (IF offset + ChunkSize > image THEN image - offset ELSE ChunkSize)
    /\ chunk' = chunk + 1
    /\ UNCHANGED <<vars, device, step, frames, udp, image, client>>

ImageSent ==
    /\ step = "send" /\ chunk = NumChunks
    /\ step' = "idle"
    /\ UNCHANGED <<vars, device, frames, udp, sending, client>>

CaptureStep ==
    \/ Capture \/ InitUdpBroadcast \/ NoFrame \/ GetFrame \/ DetectTags
    \/ \E length \in 0 .. MaxImage : Encode(length)
    \/ EncodeFails \/ SendChunk \/ ImageSent

CameraNext ==
    \/ CaptureStep
    \/ \E c \in Clients : ClientConnects(c)
    \/ ClientLeaves \/ DisconnectClient

\* the main loop keeps calling capture(), and now and then there is a frame
CameraSpec ==
    /\ CameraInit /\ [][CameraNext]_cameraVars
    /\ WF_cameraVars(CaptureStep) /\ SF_cameraVars(GetFrame)

-----------------------------------------------------------------------------
(* Every frame buffer is with the driver or with the capture in progress,   *)
(* except one for each image that could not be encoded.                     *)
BuffersAccounted ==
    OnEsp32 =>
        buffers + jpegFailures + (IF step \in {"detect", "encode"} THEN 1 ELSE 0) = FbCount

(* An image that was sent was sent whole: its chunks neither overlap nor    *)
(* run past its end nor leave out the rest, whatever its length.            *)
ImageSentWhole == sent <= image /\ (step # "send" => sent = image)

(* As long as fewer images than frame buffers could not be encoded, an      *)
(* initialised camera goes on giving frames to the detector, so that a lock *)
(* cannot stay as it was for good.                                          *)
CameraGoesOn ==
    isInitialized /\ [](jpegFailures < FbCount) => <>(Len(history) = MaxFrames)
=============================================================================
