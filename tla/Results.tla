------------------------------- MODULE Results -------------------------------
(***************************************************************************)
(* Result codes of the library (include/booru/result.hh) and their         *)
(* translation from SQLite's (db/sqlite3/result.cc).  A code is negative   *)
(* when it is an error; only its sign and its identity matter here.        *)
(***************************************************************************)
EXTENDS Integers

\* SQLite's primary and extended result codes that the translation names.
SQLITE_OK      == 0
SQLITE_ERROR   == 1
SQLITE_BUSY    == 5
SQLITE_FULL    == 13
SQLITE_CONSTRAINT_FOREIGNKEY == 19 + 3 * 256
SQLITE_CONSTRAINT_UNIQUE     == 19 + 8 * 256

SqliteCodes == {SQLITE_OK, SQLITE_ERROR, SQLITE_BUSY, SQLITE_FULL,
                SQLITE_CONSTRAINT_FOREIGNKEY, SQLITE_CONSTRAINT_UNIQUE}

\* enum class ResultCode, as far as the translated functions return it.
Successes == {"OK", "CreatedOK", "DatabaseRow", "DatabaseEnd"}

Errors == {"InvalidArgument", "InvalidState", "AlreadyExists", "NotFound",
           "ValueIsNull", "RecursionExceeded", "DatabaseError",
           "DatabaseRangeError", "DatabaseConstraintViolation",
           "DatabaseFKeyViolation", "DatabasePKeyViolation",
           "DatabaseNotNullViolation", "DatabaseLocked",
           "DatabaseTableLocked"}

ResultCode == Successes \cup Errors

ResultIsError(code) == code \in Errors

NamedCode == [rc \in {0, 1, 5, 6, 19, 25, 100, 101, 787, 1299, 1555, 2067, 2579} |->
    CASE rc = 0    -> "OK"
      [] rc = 100  -> "DatabaseRow"
      [] rc = 101  -> "DatabaseEnd"
      [] rc = 1    -> "DatabaseError"
      [] rc = 25   -> "DatabaseRangeError"
      [] rc = 19   -> "DatabaseConstraintViolation"
      [] rc = 787  -> "DatabaseFKeyViolation"
      [] rc \in {1555, 2579} -> "DatabasePKeyViolation"
      [] rc = 2067 -> "AlreadyExists"
      [] rc = 1299 -> "DatabaseNotNullViolation"
      [] rc = 5    -> "DatabaseLocked"
      [] rc = 6    -> "DatabaseTableLocked"]

\* An extended code that has no case of its own falls back to its primary
\* code (the low byte); what has none either is a DatabaseError.
Sqlite3ToResult(rc) ==
    LET primary == IF rc > 256 THEN rc % 256 ELSE rc
    IN  IF rc \in DOMAIN NamedCode THEN NamedCode[rc]
        ELSE IF primary \in DOMAIN NamedCode THEN NamedCode[primary]
        ELSE "DatabaseError"
==============================================================================
