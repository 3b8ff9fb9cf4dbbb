------------------------------- MODULE MCRoom ---------------------------------
EXTENDS FfiRoom
MCPub == Track \X Session
=============================================================================
