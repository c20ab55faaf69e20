--------------------------- MODULE PhotoValidation ---------------------------
(***************************************************************************)
(* What preupload_crane_photo and prepare_image do to an uploaded file     *)
(* before the first transaction, and what is then put in the bucket.  The  *)
(* file is measured, verified and decoded, and the image made of it is     *)
(* written and then uploaded; each of these begins where the one before    *)
(* has left the file.  Pillow is external: opened anywhere but at its      *)
(* beginning a file has no image in it, and whether it verifies and        *)
(* decodes and how large the result is belong to the file.                 *)
(*                                                                         *)
(* PhotoUpload has all of this as the action RejectInvalid or as the       *)
(* beginning of LockCrane.                                                 *)
(***************************************************************************)
EXTENDS Naturals

CONSTANTS
  MaxBytes,       \* MAX_PHOTO_SIZE_BYTES
  MaxEdge,        \* MAX_PHOTO_LONG_EDGE_PIXELS
  MaxPixels,      \* MAX_PHOTO_PIXELS
  BombPixels,     \* above this Pillow takes a file for a decompression bomb
  MaxName,        \* 255
  Files           \* the files that are uploaded

Formats == {"HEIF", "JPEG", "PNG", "WEBP"}

\* IMAGE_FORMATS: the types a format may be declared as, and the one it is
\* stored as.
Declarable ==
  [HEIF |-> {"image/heic", "image/heif"}, JPEG |-> {"image/jpeg"},
   PNG |-> {"image/png"}, WEBP |-> {"image/webp"}]
StoredAs ==
  [HEIF |-> "image/jpeg", JPEG |-> "image/jpeg", PNG |-> "image/png", WEBP |-> "image/webp"]
AllowedTypes == UNION {Declarable[f] : f \in Formats}

\* The declared type, the length of the name and the size; the format of what is
\* in the file ("none" is no image, "other" one that is not in Formats), its
\* sides, what Pillow makes of it (where it "raises" it is an error that
\* prepare_image does not expect) and the size of the image that is made.
File == [type : AllowedTypes \cup {"other"}, name : Nat, bytes : Nat,
         format : Formats \cup {"none", "other"}, width : Nat, height : Nat,
         pillow : {"sound", "unverified", "verify_raises", "undecodable", "decode_raises"},
         result : Nat \ {0}]

ASSUME LimitsAssumption ==
  /\ MaxBytes \in Nat /\ MaxEdge \in Nat /\ MaxPixels \in Nat /\ MaxName \in Nat
  /\ BombPixels \in Nat /\ MaxPixels < BombPixels
  /\ Files \subseteq File

VARIABLES
  file,           \* the file
  position,       \* where it is read next, 0 being its beginning
  stage,          \* what comes next, or "stored" or "refused"
  status,         \* the status of a refusal
  outPosition,    \* where the image made of it is read next
  stored          \* what the bucket gets: how much of that image, and its type

validationVars == <<file, position, stage, status, outPosition, stored>>

ValidationTypeOK ==
  /\ file \in Files
  /\ position \in Nat /\ outPosition \in Nat
  /\ stage \in {"declared", "measure", "verify", "format", "decode", "output", "put",
                "stored", "refused"}
  /\ status \in {0, 413, 415, 422, 500}
  /\ stored \in [amount : Nat, type : AllowedTypes \cup {"none"}]

ValidationInit ==
  /\ file \in Files
  /\ position = 0 /\ outPosition = 0
  /\ stage = "declared" /\ status = 0
  /\ stored = [amount |-> 0, type |-> "none"]

-----------------------------------------------------------------------------
Refuse(code) == stage' = "refused" /\ status' = code
Proceed(next) == stage' = next /\ UNCHANGED status

CheckDeclared ==
  /\ stage = "declared"
  /\ \/ file.type \notin AllowedTypes /\ Refuse(415)
     \/ file.type \in AllowedTypes /\ file.name > MaxName /\ Refuse(422)
     \/ file.type \in AllowedTypes /\ file.name <= MaxName /\ Proceed("measure")
  /\ UNCHANGED <<file, position, outPosition, stored>>

SizeOutcome ==
  \/ file.bytes = 0 /\ Refuse(422)
  \/ file.bytes > MaxBytes /\ Refuse(413)
  \/ file.bytes \in 1..MaxBytes /\ Proceed("verify")

\* Mutant: the file is left at its end.
MeasureToEnd ==
  /\ stage = "measure"
  /\ SizeOutcome
  /\ position' = file.bytes
  /\ UNCHANGED <<file, outPosition, stored>>

\* seek to the end, tell, and back.
Measure ==
  /\ stage = "measure"
  /\ SizeOutcome
  /\ position' = 0
  /\ UNCHANGED <<file, outPosition, stored>>

Pixels == file.width * file.height
Opens == position = 0 /\ file.format # "none" /\ Pixels <= BombPixels
EdgeTooLong == file.width > MaxEdge \/ file.height > MaxEdge

\* The first "with" of prepare_image, up to seek(0) in its "finally".
Verify ==
  /\ stage = "verify"
  /\ \/ ~Opens /\ Refuse(422)
     \/ Opens /\ (EdgeTooLong \/ Pixels > MaxPixels) /\ Refuse(413)
     \/ /\ Opens /\ ~EdgeTooLong /\ Pixels <= MaxPixels
        /\ CASE file.pillow = "unverified" -> Refuse(422)
             [] file.pillow = "verify_raises" -> Refuse(500)
             [] OTHER -> Proceed("format")
  /\ position' = 0
  /\ UNCHANGED <<file, outPosition, stored>>

CheckFormat ==
  /\ stage = "format"
  /\ IF file.format \in Formats /\ file.type \in Declarable[file.format]
     THEN Proceed("decode")
     ELSE Refuse(415)
  /\ UNCHANGED <<file, position, outPosition, stored>>

\* The second "with": the image is turned as its EXIF says, stripped and written.
Decode ==
  /\ stage = "decode"
  /\ \/ file.pillow = "decode_raises" /\ Refuse(500) /\ UNCHANGED outPosition
     \/ /\ file.pillow # "decode_raises"
        /\ ~Opens \/ file.pillow = "undecodable"
        /\ Refuse(422) /\ UNCHANGED outPosition
     \/ Opens /\ file.pillow = "sound" /\ Proceed("output") /\ outPosition' = file.result
  /\ position' = 0
  /\ UNCHANGED <<file, stored>>

\* Mutant: the image is not rewound.
CheckOutputToEnd ==
  /\ stage = "output"
  /\ IF outPosition > MaxBytes THEN Refuse(413) ELSE Proceed("put")
  /\ UNCHANGED <<file, position, outPosition, stored>>

\* The image ends where it was last written; it is rewound unless it is too large.
CheckOutput ==
  /\ stage = "output"
  /\ IF outPosition > MaxBytes
     THEN Refuse(413) /\ UNCHANGED outPosition
     ELSE Proceed("put") /\ outPosition' = 0
  /\ UNCHANGED <<file, position, stored>>

\* upload_fileobj reads from the position on.
Put ==
  /\ stage = "put"
  /\ stored' = [amount |-> file.result - outPosition, type |-> StoredAs[file.format]]
  /\ Proceed("stored")
  /\ outPosition' = file.result
  /\ UNCHANGED <<file, position>>

\* The request goes on elsewhere.
Handled == stage \in {"stored", "refused"} /\ UNCHANGED validationVars

ValidationNext ==
  \/ CheckDeclared \/ Measure \/ Verify \/ CheckFormat \/ Decode \/ CheckOutput \/ Put
  \/ Handled

ValidationSpec == ValidationInit /\ [][ValidationNext]_validationVars

-----------------------------------------------------------------------------
\* What is stored is the whole image that was made, within the limits on size,
\* sides (which turning it may swap) and pixels, and of the type recorded with it,
\* made of a file that was what it was declared to be.
StoredIsSound ==
  stage = "stored" =>
    /\ stored.amount = file.result /\ file.result <= MaxBytes
    /\ file.width <= MaxEdge /\ file.height <= MaxEdge /\ Pixels <= MaxPixels
    /\ \E f \in Formats : file.format = f /\ file.type \in Declarable[f]
    /\ stored.type \in {"image/jpeg", "image/png", "image/webp"}

\* Every refusal has the reason its status gives: no file within the limits that
\* Pillow can read is refused because an earlier step left it elsewhere than at
\* its beginning.
RefusedForItsReason ==
  /\ status = 413 => \/ file.bytes > MaxBytes \/ EdgeTooLong \/ Pixels > MaxPixels
                     \/ file.result > MaxBytes
  /\ status = 415 => ~\E f \in Formats : file.format = f /\ file.type \in Declarable[f]
  /\ status = 422 => \/ file.name > MaxName \/ file.bytes = 0
                     \/ file.format = "none" \/ Pixels > BombPixels
                     \/ file.pillow \in {"unverified", "undecodable"}
  /\ status = 500 => file.pillow \in {"verify_raises", "decode_raises"}
=============================================================================
