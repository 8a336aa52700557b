------------------------------ MODULE MCSentry ------------------------------
(***************************************************************************)
(* Instances of Sentry for TLC: two addresses, and one NewClient rejects.  *)
(***************************************************************************)
EXTENDS Sentry

CONSTANTS c1, c2, d1, d2, bad

C(enable, level, d) == [enable |-> enable, level |-> level, dsn |-> d]

MCConfigs == {C(TRUE, ErrorLevel, d1), C(TRUE, InfoLevel, bad),
              C(FALSE, InfoLevel, d1), Nil}
MCUpdates == {C(TRUE, InfoLevel, d2), C(TRUE, InfoLevel, bad), C(TRUE, InfoLevel, NoDsn),
              C(FALSE, ErrorLevel, d2)}
MCLevels == {InfoLevel, ErrorLevel, PanicLevel, FatalLevel}
MCTrace == {DebugLevel, InfoLevel}
=============================================================================
