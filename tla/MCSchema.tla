------------------------------- MODULE MCSchema -------------------------------
EXTENDS Schema
================================================================================
