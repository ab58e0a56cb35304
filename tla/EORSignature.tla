---------------------------- MODULE EORSignature ----------------------------
(***************************************************************************)
(* chiasim/hashable/Signature.py: header signatures, an exclusive or of    *)
(* 32 byte values.  A value is modelled by the set of the independent keys *)
(* and message hashes it is the exclusive or of.                           *)
(***************************************************************************)
EXTENDS SequencesExt

eor_bytes32(s, t) == (s \ t) \cup (t \ s)

zero == {}

public_key(private_key) == private_key

Sign(private_key, message_hash) == eor_bytes32(private_key, message_hash)

\* The running exclusive or starts from zero, so that no pairs at all are
\* signed by zero.
Validate(signature, hash_key_pairs) ==
    signature = FoldLeft(
        LAMBDA eor, pair : eor_bytes32(eor_bytes32(eor, pair.message_hash), pair.public_key),
        zero, hash_key_pairs)
=============================================================================
