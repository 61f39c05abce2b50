---------------------------- MODULE MCCdpSession ----------------------------
EXTENDS CdpSession, TLC

CONSTANTS t1, t2

MCTwoTargets == {t1, t2}
=============================================================================
