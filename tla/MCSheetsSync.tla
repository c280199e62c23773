---- MODULE MCSheetsSync ----
EXTENDS SheetsSync
====
