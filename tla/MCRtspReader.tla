---------------------------- MODULE MCRtspReader ----------------------------
(* TLC instances of RtspReader.                                            *)
EXTENDS RtspReaderProperties
=============================================================================
