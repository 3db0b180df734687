-------------------------- MODULE MCWhisperPipeline --------------------------
(***************************************************************************)
(* Small instances of the Whisper pipeline for TLC.                        *)
(***************************************************************************)
EXTENDS WhisperPipeline

=============================================================================
