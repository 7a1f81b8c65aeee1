-------------------------- MODULE MCDataLakeStorage --------------------------
EXTENDS DataLakeStorage

(* Day counts around the boundaries the code and S3 care about: 0 (falsy), *)
(* the 30-day minimum, the code's defaults 90 and 180, and 200, which lies *)
(* less than 30 days after the 180-day IA default.                         *)
MCDelays == {0, 30, 90, 180, 200}
=============================================================================
