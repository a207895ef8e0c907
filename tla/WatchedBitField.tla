-------------------------- MODULE WatchedBitField --------------------------
(***************************************************************************)
(* Stremio's record of the episodes of a series a user has watched: one    *)
(* bit per video of the series' list, and the last watched video as an     *)
(* anchor that tells by how much a list known later has shifted            *)
(* (connectors/services/stremio_watched_bitfield.py).  Indexes count from  *)
(* zero; compression and base64 are left out.                              *)
(***************************************************************************)
EXTENDS Integers, Sequences

\* _index_of: the index of a video in a list, -1 where it is not.
IndexOf(videos, v) ==
    IF \E i \in 1 .. Len(videos) : videos[i] = v
    THEN (CHOOSE i \in 1 .. Len(videos) : videos[i] = v /\ \A j \in 1 .. i - 1 : videos[j] # v) - 1
    ELSE -1

\* watched_bitfield_from_array, set: the bits of a set of videos.
Bits(watched, videos) == {i \in 0 .. Len(videos) - 1 : videos[i + 1] \in watched}

\* last_index_of(True).
LastBit(bits) == IF bits = {} THEN -1 ELSE CHOOSE i \in bits : \A j \in bits : j <= i

\* new_watched_field_from_watched_bitfield, to_string.
Encoded(watched, videos) ==
    LET bits == Bits(watched, videos)
        last == IF LastBit(bits) < 0 THEN 0 ELSE LastBit(bits)
    IN  [anchor |-> IF last < Len(videos) THEN videos[last + 1] ELSE "undefined",
         length |-> last + 1, bits |-> bits]

\* WatchedField.to_watched_bitfield: how far the anchor has moved since the field was written.
Offset(field, videos) == field.length - IndexOf(videos, field.anchor) - 1

\* watched_bitfield_from_string, get_video: the videos of a list that a field marks.
Decoded(field, videos) ==
    IF IndexOf(videos, field.anchor) = -1 THEN {}
    ELSE {videos[i + 1] : i \in {j \in 0 .. Len(videos) - 1 :
            LET before == j + Offset(field, videos)
            IN  before \in field.bits /\ (Offset(field, videos) = 0 \/ before \in 0 .. Len(videos) - 1)}}

=============================================================================
