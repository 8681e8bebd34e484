---------------------------- MODULE MCTranscribe ----------------------------
EXTENDS Transcribe
CONSTANTS a, b
=============================================================================
