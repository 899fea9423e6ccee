---------------------------- MODULE MCRecordOpen ----------------------------
(* Records of up to three blocks; fragments of a block cipher at the limits. *)
EXTENDS RecordOpen

MCLengths == {1, 7, 8, 12}
MCBlockLengths == {0, 16, 240, 16383, 16384, 16385, 18432}
MCHmacSizes == {0, 20, 32, 64}
MCPads == {0, 18, 19, 20, 63, 239, 255}
=============================================================================
