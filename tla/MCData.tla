------------------------------- MODULE MCData -------------------------------
(***************************************************************************)
(* The sequential parts, one at a time: the RTP header of the videos'      *)
(* frames, and the byte stream, the dictionary, the arrays, the bit        *)
(* stream, the URL parser and the media objects of the VLC SDK's headers.  *)
(* Where a part can begin in several ways it does so only while it is the  *)
(* one that runs.                                                          *)
(***************************************************************************)
EXTENDS VlcData, VlcStreams, VlcBits, VlcUrls

(* When an event of a guide may start.                                     *)
MCStarts == {-1, 1}

VARIABLES
    part        \* the one that runs

packet == <<imagenb, header>>
stream == <<p_chain, p_block, i_offset, outcome, startcode, pi_offset, found>>
array  == <<kind, p_elems, i_size>>
bits   == <<bs_data, bs_p, bs_left, bs_result>>
links  == <<parts, url>>
media  == <<heap, objects, replaced>>

(* A start code that may begin again within a false positive.              *)
MCStartcodes == {<<0, 0, 1>>}

(* Keys 1 to 4 share every chain of an array of up to four, 5 does not.    *)
MCHash == <<0, 4, 8, 12, 1>>

(* Separators as they are in a path and an IPv6 address, escaped in names. *)
MCProtocols == {<<"rtsp">>}
MCWords     == {<<"a">>, <<"b", "@">>, <<":", "c">>}
MCHosts     == {<<"host">>, <<"[", "a", ":", ":", "b", "]">>}
MCPaths     == {<<"/">>, <<"/", "a", ":", "/", "b">>, <<"/", "a", "@">>}
MCOptions   == {<<"x", "?", "y">>}
MCTokens    == {":", "/", "@", "[", "]", "?", "%40", "%3A", "554",
                "rtsp", "host", "a", "b", "c", "x", "y"}

Parts == {"packet", "stream", "dictionary", "array", "bits", "url", "objects"}

DataInit ==
    /\ part \in Parts
    /\ PacketInit /\ Stream!Init /\ Dict!Init /\ Array!Init /\ Bitio!Init /\ Link!Init
    /\ Init
    /\ part # "dictionary" => p_entries = <<>>
    /\ part # "array" => kind = "ARRAY"

DataNext ==
    /\ UNCHANGED part
    /\ \/ /\ part = "packet" /\ NextPacket
          /\ UNCHANGED <<stream, p_entries, array, bits, links, media>>
       \/ /\ part = "stream" /\ Stream!Next
          /\ UNCHANGED <<packet, p_entries, array, bits, links, media>>
       \/ /\ part = "dictionary" /\ Dict!Next
          /\ UNCHANGED <<packet, stream, array, bits, links, media>>
       \/ /\ part = "array" /\ Array!Next
          /\ UNCHANGED <<packet, stream, p_entries, bits, links, media>>
       \/ /\ part = "bits" /\ Bitio!Next
          /\ UNCHANGED <<packet, stream, p_entries, array, links, media>>
       \/ /\ part = "url" /\ Link!Next
          /\ UNCHANGED <<packet, stream, p_entries, array, bits, media>>
       \/ /\ part = "objects" /\ Next
          /\ UNCHANGED <<packet, stream, p_entries, array, bits, links>>

DataSpec ==
    /\ DataInit
    /\ [][DataNext]_<<part, packet, stream, p_entries, array, bits, links, media>>
===========================================================================
