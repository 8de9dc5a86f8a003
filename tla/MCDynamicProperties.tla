----------------------- MODULE MCDynamicProperties -----------------------
EXTENDS DynamicProperties

AllKinds == {"sprite", "set", "global"}
=============================================================================
