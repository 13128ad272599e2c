----------------------------- MODULE RtpPacket -----------------------------
(***************************************************************************)
(* The RTP header of rtsp-demo/.../RTPpacket.java (RtpPacket.java and      *)
(* RTPPacket.java build the same one), and the trip of a video's frames    *)
(* through it: the server encodes frame imagenb, the client decodes it.    *)
(* A byte is a Java byte, -128..127; a cast to byte keeps the low 8 bits,  *)
(* and n >> 8 rounds towards minus infinity, like \div.                    *)
(***************************************************************************)
EXTENDS Integers

CONSTANTS
    VIDEO_LENGTH,   \* 500
    FRAME_PERIOD,   \* 100 ms
    MJPEG_TYPE      \* 26

ASSUME PacketAssumption ==
    /\ VIDEO_LENGTH \in Nat /\ FRAME_PERIOD \in Nat
    /\ MJPEG_TYPE \in 0..127

Bytes == -128..127

Byte(n) == IF n % 256 < 128 THEN n % 256 ELSE (n % 256) - 256

(* Byte i of an int, counted from the low end: (byte) (n >> 8 * i).        *)
Octet(n, i) == Byte(n \div 256^i)

(* The bytes that carry type, sequence number and time stamp; version,     *)
(* flags and SSRC are the same in every packet.                            *)
Encode(type, seq, time) ==
    [type |-> Byte(type % 128),
     seq  |-> <<Byte(seq \div 256), Byte(seq)>>,
     time |-> <<Octet(time, 3), Octet(time, 2), Octet(time, 1), Octet(time, 0)>>]

(* The marker is the top bit of the byte that holds the payload type.      *)
setMarker(h, mark) ==
    [h EXCEPT !.type = IF mark THEN Byte((h.type % 128) + 128) ELSE h.type % 128]

(* Mutant: the sign bit is masked away.                                    *)
UnsignedMutant(b) == b % 128

(* b & 0xffffffff: the byte is widened to int before the mask, which then  *)
(* keeps every bit of it, the copies of the sign included.                 *)
unsigned_int(b) == b

PayloadType(h) == h.type % 128

SequenceNumber(h) == unsigned_int(h.seq[2]) + 256 * unsigned_int(h.seq[1])

TimeStamp(h) ==
    unsigned_int(h.time[4]) + 256 * unsigned_int(h.time[3])
    + 256^2 * unsigned_int(h.time[2]) + 256^3 * unsigned_int(h.time[1])

---------------------------------------------------------------------------
VARIABLES imagenb, header

PacketInit == imagenb = 0 /\ header = Encode(MJPEG_TYPE, 0, 0)

NextPacket ==
    /\ imagenb < VIDEO_LENGTH
    /\ imagenb' = imagenb + 1
    /\ header' = Encode(MJPEG_TYPE, imagenb', imagenb' * FRAME_PERIOD)

PacketSpec == PacketInit /\ [][NextPacket]_<<imagenb, header>>

---------------------------------------------------------------------------
(* No two frames of the video are decoded to the same number, although     *)
(* many are decoded to a wrong one.                                        *)
Distinguishable ==
    \A n \in 0..imagenb - 1 :
        SequenceNumber(Encode(MJPEG_TYPE, n, n * FRAME_PERIOD)) # SequenceNumber(header)

(* A wrong number is too low by 256, in every second block of 128 frames.  *)
OffBy256 ==
    SequenceNumber(header) = imagenb - (IF imagenb % 256 < 128 THEN 0 ELSE 256)

(* The marker shares a byte with the payload type: setting it, twice, and  *)
(* clearing it again leaves the header as it was.                          *)
MarkerReversible ==
    LET once  == setMarker(header, TRUE)
        twice == setMarker(once, TRUE)
    IN  /\ twice = once /\ once # header
        /\ PayloadType(once) = MJPEG_TYPE
        /\ setMarker(twice, FALSE) = header
===========================================================================
