\* The log's space, a shell pipeline, two CPUs.  A pipeline ends, and processes
\* may all be asleep: a behaviour may end.
SPECIFICATION LiveSpec
INVARIANT SmpTable
PROPERTIES SleeperWakes PipelineEnds PipeQueue SmpReapedOffCpu
CHECK_DEADLOCK FALSE
