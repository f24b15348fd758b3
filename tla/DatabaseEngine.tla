--------------------------- MODULE DatabaseEngine ---------------------------
(* DB_DRIVER: "sqlite", "postgres" or "mysql", for good.                     *)
VARIABLE engine
=============================================================================
