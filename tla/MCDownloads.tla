----------------------------- MODULE MCDownloads -----------------------------
EXTENDS Downloads, MCAudioSystem
=============================================================================
