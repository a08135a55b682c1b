---------------------------- MODULE MCBytesSlab ----------------------------
EXTENDS BytesSlab
=============================================================================
